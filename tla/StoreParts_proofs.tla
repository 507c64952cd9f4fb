-------------------------- MODULE StoreParts_proofs --------------------------
(***************************************************************************)
(* Theorems about the stores of StoreParts, one section for each: what     *)
(* holds at Init, what every step keeps, and what that means, for every    *)
(* value of a store's constants and parameters.  Stores_proofs does the    *)
(* same for the loop protocol, and puts all of it together to what the     *)
(* behaviours of MCStores satisfy.                                         *)
(***************************************************************************)
EXTENDS StoreParts, FiniteSets, FiniteSetTheorems, FunctionTheorems, SequenceTheorems,
        TLAPS

-----------------------------------------------------------------------------
(* Scheduled turns. *)

Event == [type : {"user.message", "turn.end"}, n : Nat, id : Nat,
          reason : {"", "completed", "cancelled", "error"}]
Entry == [id : Nat, kind : Sched!Kinds, enabled : BOOLEAN, next : Nat, every : Nat]
Started == [n : Nat, id : Nat, slot : Nat, told : BOOLEAN]
Sweeps == [at : {"idle", "look", "claim", "start"}, id : Nat, time : Nat, slot : Nat]

Ends(j) == events[j].type = "turn.end"
Tells(j) == events[j].type = "user.message"

SchedType ==
    /\ created \in Nat /\ now \in Nat /\ active \in Nat /\ turns \in Nat
    /\ ending \in BOOLEAN
    /\ sweep \in Sweeps /\ sweep.time <= now
    /\ turn \in Started /\ events \in Seq(Event)
    /\ claims = [x \in DOMAIN claims |-> claims[x]]
    /\ \A x \in DOMAIN claims : x \in Nat /\ claims[x] \in Nat /\ claims[x] <= now
    /\ seen = [n \in DOMAIN seen |-> seen[n]]
    /\ \A n \in DOMAIN seen : n \in Nat /\ seen[n].id \in Nat /\ seen[n].at \in Int

\* Turns end in the order in which they began, every turn is announced before
\* it ends, and whoever speaks of a turn agrees on its schedule.
Numbered ==
    /\ turn.n <= turns /\ (turn.n = 0 => turn = Sched!NoTurn)
    /\ \A i \in DOMAIN events : events[i].n \in 1..turns
    /\ \A i, j \in DOMAIN events : Ends(i) /\ Ends(j) /\ i < j => events[i].n < events[j].n
    /\ turn.n > 0 => \A i \in DOMAIN events : Ends(i) => events[i].n < turn.n
    /\ \A i, j \in DOMAIN events : Tells(i) /\ Ends(j) /\ events[i].n = events[j].n => i < j
    /\ \A i, j \in DOMAIN events : events[i].n = events[j].n => events[i].id = events[j].id
    /\ \A i \in DOMAIN events : events[i].n = turn.n => events[i].id = turn.id
    /\ \A n \in DOMAIN seen :
         /\ n \in 1..turns /\ seen[n].id > 0
         /\ \A i \in DOMAIN events : events[i].n = n => events[i].id = seen[n].id
         /\ turn.n = n => turn.id = seen[n].id

\* The turns up to Low were counted down: active is the number of the others.
Low == turns - active + (IF ending THEN 1 ELSE 0)

Counted ==
    /\ active <= turns /\ (ending => active > 0)
    /\ \A i \in DOMAIN events : Ends(i) => events[i].n > Low
    /\ turn.n > 0 => turn.n > Low

\* A scheduled turn is in flight, or its end is not recorded yet.
Open(x) == x > 0 /\ (turn.id = x \/ \E j \in DOMAIN events : Ends(j) /\ events[j].id = x)

\* What is remembered of a scheduled turn is remembered of an open one, and
\* will be there when its end is observed.
Backed ==
    /\ \A i \in DOMAIN events : Tells(i) /\ events[i].id > 0 =>
         \/ turn.n = events[i].n /\ turn.told
         \/ \E j \in DOMAIN events : Ends(j) /\ events[j].n = events[i].n
    /\ \A n \in DOMAIN seen :
         \/ turn.n = n /\ turn.told
         \/ \E j \in DOMAIN events : Ends(j) /\ events[j].n = n
    /\ \A j \in DOMAIN events : Ends(j) /\ events[j].id > 0 =>
         \/ events[j].n \in DOMAIN seen
         \/ \E i \in DOMAIN events : Tells(i) /\ i < j /\ events[i].n = events[j].n
    /\ turn.told /\ turn.id > 0 =>
         \/ turn.n \in DOMAIN seen
         \/ \E i \in DOMAIN events : Tells(i) /\ events[i].n = turn.n
    /\ \A x \in DOMAIN claims : Open(x)
    /\ \A n \in DOMAIN seen : seen[n].id \in DOMAIN claims => seen[n].at = claims[seen[n].id]

\* One scheduled turn is open at a time, and no sweep is past its look then.
OneOpen ==
    /\ \A i, j \in DOMAIN events :
         Ends(i) /\ Ends(j) /\ events[i].id > 0 /\ events[j].id > 0 => i = j
    /\ turn.id > 0 => \A j \in DOMAIN events : Ends(j) => events[j].id = 0
    /\ \A x \in Nat : Open(x) => sweep.at \in {"idle", "look"}

Filed ==
    /\ file \in Seq(Entry)
    /\ \A i \in DOMAIN file : file[i].id \in 1..created
    /\ \A i, j \in DOMAIN file : file[i].id = file[j].id => i = j
    /\ turn.id <= created /\ sweep.id <= created
    /\ \A i \in DOMAIN events : events[i].id <= created
    /\ done \subseteq Nat \X Nat /\ \A d \in done : d[1] <= created

\* A slot whose turn completed is behind the schedule, or its outcome is
\* still to be recorded.
SlotAt(i) ==
    /\ file[i].enabled /\ <<file[i].id, file[i].next>> \in done => Open(file[i].id)
    /\ \A d \in done : d[1] = file[i].id => d[2] <= file[i].next
    /\ sweep.at = "start" /\ file[i].id = sweep.id => file[i].next = sweep.slot
    /\ Open(file[i].id) => file[i].next <= now
    /\ turn.id = file[i].id => turn.slot <= file[i].next

Slots ==
    /\ sweep.at = "start" => /\ <<sweep.id, sweep.slot>> \notin done
                             /\ sweep.slot <= sweep.time /\ sweep.id > 0
    /\ \A i \in DOMAIN file : SlotAt(i)

SchedInv == SchedType /\ Numbered /\ Counted /\ Backed /\ OneOpen /\ Filed /\ Slots

Pipe == <<turn, events, seen, active, ending, turns>>

\* Steps that leave the turns and their events alone.
LEMMA PipeKept ==
    ASSUME SchedInv, UNCHANGED Pipe
    PROVE  /\ Numbered' /\ Counted' /\ \A x : Open(x)' <=> Open(x)
           /\ UNCHANGED claims => Backed'
           /\ sweep'.at = sweep.at => OneOpen'
           /\ sweep'.at \in {"idle", "look"} => OneOpen'
  BY DEF SchedInv, Pipe, Numbered, Counted, Low, Backed, OneOpen, Open, Ends, Tells

LEMMA SchedConstants ==
    ASSUME Sched!ScheduleAssumption
    PROVE  RetryDelay \in Nat /\ RetryDelay > 0 /\ Intervals \subseteq Nat
  BY DEF Sched!ScheduleAssumption

LEMMA Appended ==
    ASSUME NEW S, NEW q \in Seq(S), NEW e \in S
    PROVE  /\ Append(q, e) \in Seq(S) /\ DOMAIN Append(q, e) = 1..(Len(q) + 1)
           /\ Append(q, e)[Len(q) + 1] = e /\ DOMAIN q = 1..Len(q) /\ Len(q) \in Nat
           /\ \A i \in DOMAIN q : Append(q, e)[i] = q[i]
  OBVIOUS

LEMMA HeadTail ==
    ASSUME NEW S, NEW q \in Seq(S), q # <<>>
    PROVE  /\ Tail(q) \in Seq(S) /\ Head(q) = q[1] /\ 1 \in DOMAIN q /\ q[1] \in S
           /\ DOMAIN q \subseteq Nat /\ DOMAIN Tail(q) \subseteq Nat
           /\ \A i \in DOMAIN Tail(q) : i + 1 \in DOMAIN q /\ Tail(q)[i] = q[i + 1]
           /\ \A i \in DOMAIN q : i = 1 \/ i - 1 \in DOMAIN Tail(q)
  OBVIOUS

LEMMA EventTyped ==
    ASSUME SchedInv
    PROVE  /\ events \in Seq(Event) /\ Len(events) \in Nat /\ DOMAIN events = 1..Len(events)
           /\ \A i \in DOMAIN events :
                /\ events[i] \in Event /\ events[i].n \in Nat /\ events[i].id \in Nat
                /\ Ends(i) \/ Tells(i)
                /\ ~(Ends(i) /\ Tells(i))
<1>1. events \in Seq(Event)
  BY DEF SchedInv, SchedType
<1>2. \A i \in DOMAIN events : events[i] \in Event
  BY <1>1
<1>3. \A e \in Event : e.n \in Nat /\ e.id \in Nat /\ e.type \in {"user.message", "turn.end"}
  BY DEF Event
<1>4. Len(events) \in Nat /\ DOMAIN events = 1..Len(events)
  BY <1>1
<1>5. ASSUME NEW i \in DOMAIN events
      PROVE  /\ events[i] \in Event /\ events[i].n \in Nat /\ events[i].id \in Nat
             /\ Ends(i) \/ Tells(i)
             /\ ~(Ends(i) /\ Tells(i))
  BY <1>2, <1>3 DEF Ends, Tells
<1> QED
  BY <1>1, <1>4, <1>5

\* Creating, switching a schedule on or off, and deleting one.
LEMMA SchedCreate ==
    ASSUME Sched!ScheduleAssumption, SchedInv, NEW kind \in Sched!Kinds, NEW every \in Intervals,
           Sched!Create(kind, every)
    PROVE  SchedInv'
<1>1. /\ UNCHANGED <<now, sweep, claims, turn, events, active, seen, ending, turns, done>>
      /\ created' = created + 1
      /\ \E start \in {now, now + 1}, on \in BOOLEAN :
           file' = Append(file, [id |-> created + 1, kind |-> kind, enabled |-> on,
                                 next |-> start, every |-> every])
  BY DEF Sched!Create
<1>2. PICK start \in {now, now + 1}, on \in BOOLEAN :
        file' = Append(file, [id |-> created + 1, kind |-> kind, enabled |-> on,
                              next |-> start, every |-> every])
  BY <1>1
<1> DEFINE e == [id |-> created + 1, kind |-> kind, enabled |-> on,
                 next |-> start, every |-> every]
<1>3. e \in Entry /\ e.id = created + 1
  BY SchedConstants DEF SchedInv, SchedType, Entry
<1>4. /\ file' = Append(file, e) /\ file \in Seq(Entry)
  BY <1>2 DEF SchedInv, Filed
<1> HIDE DEF e
<1>5. /\ file' \in Seq(Entry) /\ DOMAIN file = 1..Len(file) /\ Len(file) \in Nat
      /\ DOMAIN file' = 1..(Len(file) + 1) /\ file'[Len(file) + 1] = e
      /\ \A i \in DOMAIN file : file'[i] = file[i]
  BY <1>3, <1>4
<1>6. Numbered' /\ Counted' /\ Backed' /\ OneOpen' /\ \A x : Open(x)' <=> Open(x)
  BY <1>1, PipeKept DEF Pipe
<1>7. SchedType'
  BY <1>1 DEF SchedInv, SchedType
<1>8. ~Open(created + 1) /\ turn.id # created + 1 /\ sweep.id # created + 1
      /\ \A d \in done : d[1] # created + 1
  <2>1. /\ created \in Nat /\ turn.id \in Nat /\ sweep.id \in Nat
    BY DEF SchedInv, SchedType, Started, Sweeps
  <2>2. /\ turn.id <= created /\ sweep.id <= created
        /\ \A j \in DOMAIN events : events[j].id <= created
        /\ done \subseteq Nat \X Nat /\ \A d \in done : d[1] <= created
    BY DEF SchedInv, Filed
  <2>3. \A j \in DOMAIN events : events[j].id \in Nat
    BY EventTyped
  <2>4. turn.id # created + 1 /\ sweep.id # created + 1
    BY <2>1, <2>2
  <2>5. \A j \in DOMAIN events : events[j].id # created + 1
    BY <2>1, <2>2, <2>3
  <2>6. \A d \in done : d[1] # created + 1
    BY <2>1, <2>2
  <2> QED
    BY <2>4, <2>5, <2>6 DEF Open
<1>9. Filed'
  <2>1. \A i \in DOMAIN file' : file'[i].id \in 1..created'
    BY <1>1, <1>3, <1>5 DEF SchedInv, SchedType, Filed
  <2>2. \A i, j \in DOMAIN file' : file'[i].id = file'[j].id => i = j
    BY <1>1, <1>3, <1>5 DEF SchedInv, SchedType, Filed
  <2>3. /\ turn'.id <= created' /\ sweep'.id <= created'
        /\ \A i \in DOMAIN events' : events'[i].id <= created'
        /\ done' \subseteq Nat \X Nat /\ \A d \in done' : d[1] <= created'
    <3>1. created' \in Nat /\ turn.id \in Nat /\ sweep.id \in Nat
      BY <1>1 DEF SchedInv, SchedType, Started, Sweeps
    <3>2. \A i \in DOMAIN events : events[i].id \in Nat
      BY EventTyped
    <3>3. \A d \in done : d[1] \in Nat /\ d[1] <= created
      BY DEF SchedInv, Filed
    <3>4. created \in Nat
      BY DEF SchedInv, SchedType
    <3>5. /\ turn.id <= created /\ sweep.id <= created
          /\ \A i \in DOMAIN events : events[i].id <= created
          /\ done \subseteq Nat \X Nat
      BY DEF SchedInv, Filed
    <3> QED
      BY <1>1, <3>1, <3>2, <3>3, <3>4, <3>5
  <2> QED
    BY <1>5, <2>1, <2>2, <2>3 DEF Filed
<1>10. Slots'
  <2>1. ASSUME NEW i \in DOMAIN file' PROVE SlotAt(i)'
    <3>1. CASE i \in DOMAIN file
      BY <1>1, <1>5, <1>6, <3>1 DEF SchedInv, Slots, SlotAt
    <3>2. CASE i = Len(file) + 1
      <4>1. <<created + 1, file'[i].next>> \notin done
        BY <1>8
      <4> QED
        BY <1>1, <1>3, <1>5, <1>6, <1>8, <3>2, <4>1 DEF SlotAt
    <3> QED
      BY <1>5, <3>1, <3>2
  <2> QED
    BY <1>1, <2>1 DEF SchedInv, Slots
<1> QED
  BY <1>6, <1>7, <1>9, <1>10 DEF SchedInv

LEMMA SchedUpdate ==
    ASSUME SchedInv, NEW id \in Sched!Ids, NEW on \in BOOLEAN, Sched!Update(id, on)
    PROVE  SchedInv'
<1>1. /\ UNCHANGED <<created, now, sweep, claims, turn, events, active, seen, ending, turns>>
      /\ file' = Sched!Change(id, [i \in 1..Len(file) |-> [file[i] EXCEPT !.enabled = on]])
      /\ done' = IF on THEN {d \in done : d[1] # id} ELSE done
  BY DEF Sched!Update
<1>2. file \in Seq(Entry)
  BY DEF SchedInv, Filed
<1>3. ASSUME NEW i \in DOMAIN file
      PROVE  /\ file'[i] \in Entry /\ file'[i].id = file[i].id /\ file'[i].next = file[i].next
             /\ file[i].id = id => file'[i].enabled = on
             /\ file[i].id # id => file'[i].enabled = file[i].enabled
  <2>1. file'[i] = IF file[i].id = id THEN [file[i] EXCEPT !.enabled = on] ELSE file[i]
    BY <1>1, <1>2 DEF Sched!Change
  <2>2. file[i] \in Entry
    BY <1>2
  <2> QED
    BY <2>1, <2>2 DEF Entry
<1>4. DOMAIN file' = DOMAIN file /\ file' \in Seq(Entry)
  <2>1. Len(file) \in Nat /\ DOMAIN file = 1..Len(file)
    BY <1>2
  <2>2. file' = [i \in 1..Len(file) |-> file'[i]]
    BY <1>1 DEF Sched!Change
  <2> QED
    BY <1>3, <2>1, <2>2
<1>5. Numbered' /\ Counted' /\ Backed' /\ OneOpen' /\ \A x : Open(x)' <=> Open(x)
  BY <1>1, PipeKept DEF Pipe
<1>6. SchedType'
  BY <1>1 DEF SchedInv, SchedType
<1>7. done' \subseteq done /\ (on => \A d \in done' : d[1] # id)
  BY <1>1
<1>8. Filed'
  <2>1. \A i \in DOMAIN file' : file'[i].id \in 1..created'
    BY <1>1, <1>3, <1>4 DEF SchedInv, Filed
  <2>2. \A i, j \in DOMAIN file' : file'[i].id = file'[j].id => i = j
    BY <1>3, <1>4 DEF SchedInv, Filed
  <2>3. done' \subseteq Nat \X Nat /\ \A d \in done' : d[1] <= created'
    BY <1>1, <1>7 DEF SchedInv, Filed
  <2> QED
    BY <1>1, <1>4, <2>1, <2>2, <2>3 DEF SchedInv, Filed
<1>9. Slots'
  <2>1. ASSUME NEW i \in DOMAIN file' PROVE SlotAt(i)'
    <3>1. i \in DOMAIN file
      BY <1>4
    <3>2. file'[i].enabled /\ <<file'[i].id, file'[i].next>> \in done' => Open(file[i].id)'
      <4>1. CASE file[i].id = id
        <5>1. on => <<id, file'[i].next>> \notin done'
          BY <1>7
        <5> QED
          BY <1>3, <3>1, <4>1, <5>1
      <4>2. CASE file[i].id # id
        BY <1>3, <1>5, <1>7, <3>1, <4>2 DEF SchedInv, Slots, SlotAt
      <4> QED
        BY <4>1, <4>2
    <3> QED
      BY <1>1, <1>3, <1>5, <1>7, <3>1, <3>2 DEF SchedInv, Slots, SlotAt
  <2> QED
    BY <1>1, <1>7, <2>1 DEF SchedInv, Slots
<1> QED
  BY <1>5, <1>6, <1>8, <1>9 DEF SchedInv

LEMMA SchedDelete ==
    ASSUME SchedInv, NEW id \in Sched!Ids, Sched!Delete(id)
    PROVE  /\ SchedInv'
           /\ \A i \in DOMAIN file : i \in DOMAIN file' /\ file'[i].id = file[i].id
                 => file'[i] = file[i]
<1>1. /\ UNCHANGED <<created, now, sweep, claims, turn, events, active, seen, ending,
                     turns, done>>
      /\ \E k \in 1..Len(file) :
           /\ file[k].id = id
           /\ file' = [j \in 1..(Len(file) - 1) |-> file[IF j < k THEN j ELSE j + 1]]
  BY DEF Sched!Delete
<1>2. file \in Seq(Entry) /\ Len(file) \in Nat /\ DOMAIN file = 1..Len(file)
  BY DEF SchedInv, Filed
<1>3. PICK k \in 1..Len(file) :
           file' = [j \in 1..(Len(file) - 1) |-> file[IF j < k THEN j ELSE j + 1]]
  BY <1>1
<1>4. /\ file' \in Seq(Entry) /\ DOMAIN file' = 1..(Len(file) - 1)
      /\ \A i \in DOMAIN file' : file'[i] = IF i < k THEN file[i] ELSE file[i + 1]
  <2>1. Len(file) - 1 \in Nat /\ k \in Nat
    BY <1>2
  <2>2. \A j \in 1..(Len(file) - 1) : file[IF j < k THEN j ELSE j + 1] \in Entry
    BY <1>2, <2>1
  <2> QED
    BY <1>3, <2>1, <2>2
<1>5. \A i \in DOMAIN file' : \E j \in DOMAIN file : file'[i] = file[j] /\ (j = i \/ j = i + 1)
                                /\ (i < k => j = i) /\ (i >= k => j = i + 1)
  BY <1>2, <1>4
<1>6. Numbered' /\ Counted' /\ Backed' /\ OneOpen' /\ \A x : Open(x)' <=> Open(x)
  BY <1>1, PipeKept DEF Pipe
<1>7. SchedType'
  BY <1>1 DEF SchedInv, SchedType
<1>8. Filed'
  <2>1. \A i, j \in DOMAIN file' : file'[i].id = file'[j].id => i = j
    BY <1>2, <1>4, <1>5 DEF SchedInv, Filed
  <2> QED
    BY <1>1, <1>4, <1>5, <2>1 DEF SchedInv, Filed
<1>9. Slots'
  BY <1>1, <1>5, <1>6 DEF SchedInv, Slots, SlotAt
<1>10. ASSUME NEW i \in DOMAIN file, i \in DOMAIN file', file'[i].id = file[i].id
       PROVE  file'[i] = file[i]
  <2>1. PICK j \in DOMAIN file : file'[i] = file[j]
    BY <1>5, <1>10
  <2>2. \A p, q \in DOMAIN file : file[p].id = file[q].id => p = q
    BY DEF SchedInv, Filed
  <2> QED
    BY <1>10, <2>1, <2>2
<1> QED
  BY <1>6, <1>7, <1>8, <1>9, <1>10 DEF SchedInv

\* The schedule loop up to the claim.
LEMMA SchedSweeps ==
    ASSUME SchedInv, Sched!SweepBegins \/ Sched!SweepLooks
    PROVE  SchedInv'
<1>1. /\ UNCHANGED <<file, claims, turn, events, active, seen, ending, turns, done, created, now>>
      /\ sweep' \in Sweeps /\ sweep'.time <= now /\ sweep'.id \in {0, sweep.id}
      /\ sweep'.at \in {"idle", "look", "claim"} /\ (sweep'.at = "claim" => active = 0)
  <2>1. CASE Sched!SweepBegins
    <3>1. sweep' = [at |-> "look", id |-> 0, time |-> now, slot |-> 0]
      BY <2>1 DEF Sched!SweepBegins, Sched!SweepIdle
    <3>2. sweep' \in Sweeps /\ sweep'.time = now /\ sweep'.id = 0 /\ sweep'.at = "look"
      BY <3>1 DEF SchedInv, SchedType, Sweeps
    <3> QED
      BY <2>1, <3>2 DEF SchedInv, SchedType, Sched!SweepBegins, Sched!editVars
  <2>2. CASE Sched!SweepLooks
    <3>1. /\ UNCHANGED <<file, claims, turn, events, active, seen, ending, turns, done,
                         created, now>>
          /\ sweep' = IF active > 0 THEN Sched!SweepIdle ELSE [sweep EXCEPT !.at = "claim"]
      BY <2>2 DEF Sched!SweepLooks, Sched!editVars
    <3>2. CASE active > 0
      BY <3>1, <3>2 DEF SchedInv, SchedType, Sweeps, Sched!SweepIdle
    <3>3. CASE active = 0
      BY <3>1, <3>3 DEF SchedInv, SchedType, Sweeps
    <3> QED
      BY <3>1, <3>2, <3>3 DEF SchedInv, SchedType
  <2> QED
    BY <2>1, <2>2
<1>2. Numbered' /\ Counted' /\ Backed' /\ \A x : Open(x)' <=> Open(x)
  BY <1>1, PipeKept DEF Pipe
<1>3. ASSUME NEW x \in Nat, Open(x) PROVE active > 0
  <2>1. CASE turn.id = x
    BY <1>3, <2>1 DEF SchedInv, SchedType, Started, Open, Numbered, Counted, Low, Sched!NoTurn
  <2>2. CASE \E j \in DOMAIN events : Ends(j) /\ events[j].id = x
    <3>1. PICK j \in DOMAIN events : Ends(j) /\ events[j].id = x
      BY <2>2
    <3>2. events[j].n > Low /\ events[j].n <= turns /\ events[j].n \in Nat
      BY <3>1, EventTyped DEF SchedInv, Numbered, Counted
    <3> QED
      BY <3>2 DEF Low, SchedInv, SchedType
  <2> QED
    BY <1>3, <2>1, <2>2 DEF Open
<1>4. OneOpen'
  <2>1. \A x \in Nat : Open(x)' => sweep'.at \in {"idle", "look"}
    BY <1>1, <1>2, <1>3
  <2> QED
    BY <1>1, <2>1 DEF SchedInv, OneOpen, Ends
<1>5. SchedType'
  BY <1>1 DEF SchedInv, SchedType
<1>6. Filed'
  BY <1>1 DEF SchedInv, SchedType, Filed
<1>7. Slots'
  BY <1>1, <1>2 DEF SchedInv, Slots, SlotAt
<1> QED
  BY <1>2, <1>4, <1>5, <1>6, <1>7 DEF SchedInv

LEMMA SchedClaims ==
    ASSUME SchedInv, Sched!SweepClaims
    PROVE  SchedInv' /\ \A i \in DOMAIN file : i \in DOMAIN file' /\ file'[i].next = file[i].next
<1> DEFINE chosen(first) ==
             /\ first \in DOMAIN file /\ file[first].enabled /\ file[first].next <= sweep.time
             /\ sweep' = [at |-> "start", id |-> file[first].id, time |-> sweep.time,
                          slot |-> file[first].next]
<1>2. file \in Seq(Entry) /\ DOMAIN file = 1..Len(file) /\ Len(file) \in Nat
  BY DEF SchedInv, Filed
<1>1. /\ sweep.at = "claim"
      /\ \E on \in [DOMAIN file -> BOOLEAN] :
           file' = [i \in 1..Len(file) |-> [file[i] EXCEPT !.enabled = @ /\ ~on[i]]]
      /\ sweep' = Sched!SweepIdle \/ \E first \in DOMAIN file : chosen(first)
      /\ UNCHANGED <<claims, turn, events, active, seen, ending, turns, done, created, now>>
  <2> DEFINE on(first) == [i \in DOMAIN file |->
                             i < first /\ Sched!Due(file[i]) /\ Sched!Unavailable(file[i])]
             pauses(first) == file' = [i \in 1..Len(file) |-> [file[i] EXCEPT !.enabled =
                @ /\ ~(i < first /\ Sched!Due(file[i]) /\ Sched!Unavailable(file[i]))]]
  <2>1. /\ sweep.at = "claim"
        /\ UNCHANGED <<claims, turn, events, active, seen, ending, turns, done, created, now>>
        /\ \E first : pauses(first)
        /\ sweep' = Sched!SweepIdle \/ \E first \in DOMAIN file : chosen(first)
    BY <1>2 DEF Sched!SweepClaims, Sched!editVars, Sched!Due
  <2>2. PICK first : pauses(first)
    BY <2>1
  <2>3. on(first) \in [DOMAIN file -> BOOLEAN]
    OBVIOUS
  <2>4. file' = [i \in 1..Len(file) |-> [file[i] EXCEPT !.enabled = @ /\ ~on(first)[i]]]
    BY <1>2, <2>2
  <2> QED
    BY <2>1, <2>3, <2>4
<1>3. ASSUME NEW i \in DOMAIN file
      PROVE  /\ file'[i] \in Entry /\ file'[i].id = file[i].id /\ file'[i].next = file[i].next
             /\ file'[i].enabled => file[i].enabled
  <2>1. file[i] \in Entry
    BY <1>2
  <2>2. PICK on \in [DOMAIN file -> BOOLEAN] :
          file' = [j \in 1..Len(file) |-> [file[j] EXCEPT !.enabled = @ /\ ~on[j]]]
    BY <1>1
  <2>3. file'[i] = [file[i] EXCEPT !.enabled = @ /\ ~on[i]] /\ on[i] \in BOOLEAN
    BY <1>2, <2>2
  <2> QED
    BY <2>1, <2>3 DEF Entry
<1>4. DOMAIN file' = DOMAIN file /\ file' \in Seq(Entry)
  <2>1. file' = [i \in 1..Len(file) |-> file'[i]]
    BY <1>1
  <2> QED
    BY <1>2, <1>3, <2>1
<1>6. Numbered' /\ Counted' /\ Backed' /\ \A x : Open(x)' <=> Open(x)
  BY <1>1, PipeKept DEF Pipe
<1>7. \A x \in Nat : ~Open(x)
  BY <1>1 DEF SchedInv, OneOpen
<1>8. OneOpen'
  BY <1>1, <1>6, <1>7 DEF SchedInv, OneOpen, Ends
<1>9. sweep' \in Sweeps /\ sweep'.time <= now /\ sweep'.id <= created
  <2>1. CASE sweep' = Sched!SweepIdle
    BY <2>1 DEF SchedInv, SchedType, Sweeps, Sched!SweepIdle
  <2>2. ASSUME NEW first \in DOMAIN file, chosen(first)
        PROVE  sweep' \in Sweeps /\ sweep'.time <= now /\ sweep'.id <= created
    <3>1. file[first] \in Entry /\ file[first].id <= created
      BY <1>2 DEF SchedInv, Filed
    <3>2. file[first].id \in Nat /\ file[first].next \in Nat
      BY <3>1 DEF Entry
    <3> QED
      BY <2>2, <3>1, <3>2 DEF SchedInv, SchedType, Sweeps
  <2> QED
    BY <1>1, <2>1, <2>2
<1>10. SchedType'
  BY <1>1, <1>9 DEF SchedInv, SchedType
<1>11. Filed'
  <2>1. \A i \in DOMAIN file' : file'[i].id \in 1..created'
    BY <1>1, <1>3, <1>4 DEF SchedInv, Filed
  <2>2. \A i, j \in DOMAIN file' : file'[i].id = file'[j].id => i = j
    BY <1>3, <1>4 DEF SchedInv, Filed
  <2> QED
    BY <1>1, <1>4, <1>9, <2>1, <2>2 DEF SchedInv, Filed
<1>12. ASSUME sweep'.at = "start"
       PROVE  \E first \in DOMAIN file :
                /\ sweep'.id = file[first].id /\ sweep'.slot = file[first].next
                /\ sweep'.time = sweep.time /\ file[first].enabled
                /\ file[first].next <= sweep.time
  <2>1. sweep' # Sched!SweepIdle
    BY <1>12 DEF Sched!SweepIdle
  <2> QED
    BY <1>1, <2>1
<1>13. \A i \in DOMAIN file : file[i].id \in Nat /\ ~Open(file[i].id)
  BY <1>7 DEF SchedInv, Filed
<1>14. Slots'
  <2>1. sweep'.at = "start" => /\ <<sweep'.id, sweep'.slot>> \notin done'
                               /\ sweep'.slot <= sweep'.time /\ sweep'.id > 0
    BY <1>1, <1>12, <1>13 DEF SchedInv, Slots, SlotAt, Filed
  <2>2. ASSUME NEW i \in DOMAIN file' PROVE SlotAt(i)'
    <3>1. i \in DOMAIN file /\ SlotAt(i)
      BY <1>4 DEF SchedInv, Slots
    <3>2. /\ file'[i].enabled /\ <<file'[i].id, file'[i].next>> \in done' => Open(file[i].id)'
          /\ \A d \in done' : d[1] = file'[i].id => d[2] <= file'[i].next
          /\ Open(file[i].id)' => file'[i].next <= now'
          /\ turn'.id = file'[i].id => turn'.slot <= file'[i].next
      BY <1>1, <1>3, <1>6, <3>1 DEF SlotAt
    <3>3. ASSUME sweep'.at = "start", file'[i].id = sweep'.id PROVE file'[i].next = sweep'.slot
      <4>1. PICK first \in DOMAIN file :
                   sweep'.id = file[first].id /\ sweep'.slot = file[first].next
        BY <1>12, <3>3
      <4>2. i = first
        BY <1>3, <3>1, <3>3, <4>1 DEF SchedInv, Filed
      <4> QED
        BY <1>3, <3>1, <4>1, <4>2
    <3>4. file'[i].id = file[i].id
      BY <1>3, <3>1
    <3> QED
      BY <3>2, <3>3, <3>4 DEF SlotAt
  <2> QED
    BY <2>1, <2>2 DEF Slots
<1> QED
  BY <1>3, <1>4, <1>6, <1>8, <1>10, <1>11, <1>14 DEF SchedInv

\* A turn begins, for a schedule or for a user.
LEMMA TurnBegins ==
    ASSUME SchedInv, turn = Sched!NoTurn, NEW x \in Nat, NEW s \in Nat,
           turn' = Sched!NewTurn(x, s), turns' = turns + 1, active' = active + 1,
           UNCHANGED <<events, seen, ending>>
    PROVE  /\ Numbered' /\ Counted' /\ turn' \in Started /\ turn'.id = x /\ turn'.slot = s
           /\ turn'.n = turns + 1
           /\ \A y : Open(y)' <=> Open(y) \/ (y = x /\ x > 0)
           /\ claims' = claims => Backed'
<1>1. /\ turn'.n = turns + 1 /\ turn'.id = x /\ turn'.slot = s /\ turn'.told = FALSE
      /\ turn' \in Started
  BY DEF Sched!NewTurn, Started, SchedInv, SchedType
<1>2. turn.n = 0 /\ turn.id = 0 /\ turn.told = FALSE
  BY DEF Sched!NoTurn
<1>3. turns \in Nat /\ active \in Nat /\ ending \in BOOLEAN
  BY DEF SchedInv, SchedType
<1>4. \A i \in DOMAIN events : events[i].n \in 1..turns
  BY DEF SchedInv, Numbered
<1>5. Numbered'
  BY <1>1, <1>3, <1>4 DEF SchedInv, Numbered, Ends, Tells
<1>6. Low' = Low
  BY <1>3 DEF Low
<1>7. Counted'
  <2>1. turns + 1 > Low
    BY <1>3 DEF SchedInv, Counted, Low
  <2> QED
    BY <1>1, <1>3, <1>6, <2>1 DEF SchedInv, Counted, Ends
<1>8. \A y : Open(y)' <=> Open(y) \/ (y = x /\ x > 0)
  BY <1>1, <1>2 DEF Open, Ends
<1>9. claims' = claims => Backed'
  <2> SUFFICES ASSUME claims' = claims PROVE Backed'
    OBVIOUS
  <2>1. \A n \in DOMAIN seen : \E j \in DOMAIN events : Ends(j) /\ events[j].n = n
    BY <1>2 DEF SchedInv, Backed
  <2>2. \A i \in DOMAIN events : Tells(i) /\ events[i].id > 0 =>
          \E j \in DOMAIN events : Ends(j) /\ events[j].n = events[i].n
    BY <1>2 DEF SchedInv, Backed
  <2> QED
    BY <1>1, <1>8, <2>1, <2>2 DEF SchedInv, Backed, Ends, Tells
<1> QED
  BY <1>1, <1>5, <1>7, <1>8, <1>9

\* Past its look a sweep finds no scheduled turn open, and no claim.
LEMMA NothingOpen ==
    ASSUME SchedInv, sweep.at \in {"claim", "start"}
    PROVE  (\A x \in Nat : ~Open(x)) /\ DOMAIN claims = {}
  BY DEF SchedInv, OneOpen, Backed, SchedType

LEMMA SchedStarts ==
    ASSUME SchedInv, Sched!SweepStarts
    PROVE  SchedInv' /\ <<turn'.id, turn'.slot>> \notin done
<1>1. /\ sweep.at = "start" /\ turn = Sched!NoTurn
      /\ claims' = Sched!Remember(claims, sweep.id, sweep.time)
      /\ turn' = Sched!NewTurn(sweep.id, sweep.slot) /\ turns' = turns + 1 /\ active' = active + 1
      /\ sweep' = Sched!SweepIdle
      /\ UNCHANGED <<file, events, seen, ending, done, created, now>>
  BY DEF Sched!SweepStarts, Sched!editVars
<1>2. /\ sweep.id \in Nat /\ sweep.slot \in Nat /\ sweep.time \in Nat /\ sweep.time <= now
      /\ sweep.id > 0 /\ sweep.id <= created /\ <<sweep.id, sweep.slot>> \notin done
      /\ sweep.slot <= sweep.time
  BY <1>1 DEF SchedInv, SchedType, Sweeps, Slots, Filed
<1>3. (\A x \in Nat : ~Open(x)) /\ DOMAIN claims = {}
  BY <1>1, NothingOpen
<1>4. /\ Numbered' /\ Counted' /\ turn' \in Started /\ turn'.n = turns + 1
      /\ turn'.id = sweep.id /\ turn'.slot = sweep.slot
      /\ \A y : Open(y)' <=> Open(y) \/ (y = sweep.id /\ sweep.id > 0)
  BY <1>1, <1>2, TurnBegins
<1>5. DOMAIN claims' = {sweep.id} /\ claims'[sweep.id] = sweep.time
      /\ claims' = [x \in DOMAIN claims' |-> claims'[x]]
  BY <1>1, <1>3 DEF Sched!Remember
<1>6. sweep' \in Sweeps /\ sweep'.at = "idle" /\ sweep'.id = 0 /\ sweep'.time = 0
  BY <1>1 DEF Sched!SweepIdle, Sweeps
<1>7. SchedType'
  BY <1>1, <1>2, <1>4, <1>5, <1>6 DEF SchedInv, SchedType
<1>8. \A i \in DOMAIN events : Ends(i) => events[i].id = 0
  BY <1>3, EventTyped DEF Open
<1>a. turn.told = FALSE /\ turn.n = 0 /\ turn.id = 0
  BY <1>1 DEF Sched!NoTurn
<1>9. DOMAIN seen = {}
  <2> SUFFICES ASSUME NEW n \in DOMAIN seen PROVE FALSE
    OBVIOUS
  <2>1. PICK j \in DOMAIN events : Ends(j) /\ events[j].n = n
    BY <1>a DEF SchedInv, Backed
  <2>2. events[j].id = seen[n].id /\ seen[n].id > 0
    BY <2>1 DEF SchedInv, Numbered
  <2> QED
    BY <1>8, <2>1, <2>2
<1>b. \A i \in DOMAIN events : Tells(i) => events[i].id = 0
  <2> SUFFICES ASSUME NEW i \in DOMAIN events, Tells(i), events[i].id > 0 PROVE FALSE
    BY EventTyped
  <2>1. PICK j \in DOMAIN events : Ends(j) /\ events[j].n = events[i].n
    BY <1>a DEF SchedInv, Backed
  <2>2. events[j].id = events[i].id
    BY <2>1 DEF SchedInv, Numbered
  <2> QED
    BY <1>8, <2>1, <2>2
<1>c. turn'.told = FALSE
  BY <1>1 DEF Sched!NewTurn
<1>10. Backed'
  BY <1>1, <1>2, <1>4, <1>5, <1>8, <1>9, <1>b, <1>c DEF Backed, Ends, Tells
<1>11. OneOpen'
  BY <1>1, <1>6, <1>8 DEF OneOpen, Ends
<1>12. Filed'
  BY <1>1, <1>2, <1>4, <1>6 DEF SchedInv, SchedType, Filed
<1>13. Slots'
  <2>1. ASSUME NEW i \in DOMAIN file PROVE SlotAt(i)'
    <3>1. SlotAt(i) /\ file[i].id \in Nat
      BY DEF SchedInv, Slots, Filed
    <3>2. file[i].id = sweep.id => file[i].next = sweep.slot
      BY <1>1, <3>1 DEF SlotAt
    <3>3. ~Open(file[i].id)
      BY <1>3, <3>1
    <3>4. now \in Nat
      BY DEF SchedInv, SchedType
    <3> QED
      BY <1>1, <1>2, <1>4, <1>6, <3>1, <3>2, <3>3, <3>4 DEF SlotAt
  <2> QED
    BY <1>1, <1>6, <2>1 DEF Slots
<1> QED
  BY <1>2, <1>4, <1>7, <1>10, <1>11, <1>12, <1>13 DEF SchedInv

LEMMA SchedUserTurn ==
    ASSUME SchedInv, Sched!UserTurn
    PROVE  SchedInv' /\ turn'.id = 0
<1>1. /\ turn = Sched!NoTurn /\ turn' = Sched!NewTurn(0, 0)
      /\ turns' = turns + 1 /\ active' = active + 1
      /\ UNCHANGED <<file, sweep, claims, events, seen, ending, done, created, now>>
  BY DEF Sched!UserTurn, Sched!editVars
<1>2. /\ Numbered' /\ Counted' /\ Backed' /\ turn' \in Started /\ turn'.id = 0
      /\ \A y : Open(y)' <=> Open(y)
  BY <1>1, TurnBegins
<1>3. SchedType'
  BY <1>1, <1>2 DEF SchedInv, SchedType
<1>4. OneOpen'
  BY <1>1, <1>2 DEF SchedInv, OneOpen, Ends
<1>5. Filed'
  BY <1>1, <1>2 DEF SchedInv, SchedType, Filed
<1>6. Slots'
  <2>1. ASSUME NEW i \in DOMAIN file PROVE SlotAt(i)'
    BY <1>1, <1>2 DEF SchedInv, Slots, SlotAt, Filed
  <2> QED
    BY <1>1, <2>1 DEF SchedInv, Slots
<1> QED
  BY <1>2, <1>3, <1>4, <1>5, <1>6 DEF SchedInv

\* A failure disables the schedule or sets it a delay ahead.
FailsIn(id, at, reason) ==
    /\ DOMAIN file' = DOMAIN file /\ file' \in Seq(Entry)
    /\ \A i \in DOMAIN file :
         /\ file'[i].id = file[i].id
         /\ file[i].id # id => file'[i] = file[i]
         /\ file[i].id = id /\ reason = "cancelled" =>
              ~file'[i].enabled /\ file'[i].next = file[i].next
         /\ file[i].id = id /\ reason # "cancelled" => file'[i].next = at + RetryDelay

LEMMA FailedFile ==
    ASSUME Sched!ScheduleAssumption, SchedInv, NEW id, NEW at \in Nat, NEW reason,
           Sched!Failed(id, at, reason)
    PROVE  FailsIn(id, at, reason)
<1> DEFINE retry(e) == IF reason = "cancelled" THEN [e EXCEPT !.enabled = FALSE]
                       ELSE [e EXCEPT !.enabled = TRUE, !.next = at + RetryDelay]
<1>1. file' = [i \in 1..Len(file) |-> IF file[i].id = id THEN retry(file[i]) ELSE file[i]]
  BY DEF Sched!Failed, Sched!Change
<1>2. file \in Seq(Entry) /\ DOMAIN file = 1..Len(file) /\ Len(file) \in Nat
  BY DEF SchedInv, Filed
<1>3. \A e \in Entry : /\ retry(e) \in Entry /\ retry(e).id = e.id
                       /\ reason = "cancelled" => ~retry(e).enabled /\ retry(e).next = e.next
                       /\ reason # "cancelled" => retry(e).next = at + RetryDelay
  <2> SUFFICES ASSUME NEW e \in Entry
               PROVE  /\ retry(e) \in Entry /\ retry(e).id = e.id
                      /\ reason = "cancelled" => ~retry(e).enabled /\ retry(e).next = e.next
                      /\ reason # "cancelled" => retry(e).next = at + RetryDelay
    OBVIOUS
  <2>1. CASE reason = "cancelled"
    <3>1. retry(e) = [e EXCEPT !.enabled = FALSE]
      BY <2>1
    <3> HIDE DEF retry
    <3> QED
      BY <2>1, <3>1 DEF Entry
  <2>2. CASE reason # "cancelled"
    <3>1. PICK v \in Nat : v = at + RetryDelay
      BY SchedConstants
    <3>2. retry(e) = [e EXCEPT !.enabled = TRUE, !.next = v]
      BY <2>2, <3>1
    <3> HIDE DEF retry
    <3>3. retry(e) \in Entry /\ retry(e).id = e.id /\ retry(e).next = v
      BY <3>2 DEF Entry
    <3> QED
      BY <2>2, <3>1, <3>3
  <2> QED
    BY <2>1, <2>2
<1> HIDE DEF retry
<1>4. \A i \in DOMAIN file : file[i] \in Entry
  BY <1>2
<1> QED
  BY <1>1, <1>2, <1>3, <1>4 DEF FailsIn

LEMMA SchedFails ==
    ASSUME Sched!ScheduleAssumption, SchedInv, Sched!SweepFails
    PROVE  SchedInv' /\ DOMAIN claims = {}
<1>1. /\ sweep.at = "start" /\ Sched!Failed(sweep.id, sweep.time, "error")
      /\ claims' = Sched!Forget(claims, sweep.id) /\ sweep' = Sched!SweepIdle
      /\ UNCHANGED <<turn, events, active, seen, ending, turns, done, created, now>>
  BY DEF Sched!SweepFails, Sched!ForgetFailed, Sched!editVars
<1>2. (\A x \in Nat : ~Open(x)) /\ DOMAIN claims = {}
  BY <1>1, NothingOpen
<1>3. sweep.time \in Nat /\ sweep.slot <= sweep.time /\ sweep.slot \in Nat
  BY <1>1 DEF SchedInv, SchedType, Sweeps, Slots
<1>4. claims' = claims
  <2>1. claims = [x \in {} |-> claims[x]]
    BY <1>2 DEF SchedInv, SchedType
  <2>2. claims' = [x \in {} |-> claims[x]]
    BY <1>1, <1>2 DEF Sched!Forget
  <2> QED
    BY <2>1, <2>2
<1>5. sweep' \in Sweeps /\ sweep'.at = "idle" /\ sweep'.id = 0 /\ sweep'.time = 0
  BY <1>1 DEF Sched!SweepIdle, Sweeps
<1>6. Numbered' /\ Counted' /\ Backed' /\ OneOpen' /\ \A x : Open(x)' <=> Open(x)
  BY <1>1, <1>4, <1>5, PipeKept DEF Pipe
<1>7. /\ DOMAIN file' = DOMAIN file /\ file' \in Seq(Entry)
      /\ \A i \in DOMAIN file :
           /\ file'[i].id = file[i].id
           /\ file[i].id # sweep.id => file'[i] = file[i]
           /\ file[i].id = sweep.id => file'[i].next = sweep.time + RetryDelay
  BY <1>1, <1>3, FailedFile DEF FailsIn
<1>8. SchedType'
  BY <1>1, <1>4, <1>5 DEF SchedInv, SchedType
<1>9. Filed'
  <2>1. /\ \A i \in DOMAIN file : file[i].id \in 1..created
        /\ \A i, j \in DOMAIN file : file[i].id = file[j].id => i = j
        /\ turn.id <= created /\ created \in Nat
        /\ \A i \in DOMAIN events : events[i].id <= created
        /\ done \subseteq Nat \X Nat /\ \A d \in done : d[1] <= created
    BY DEF SchedInv, SchedType, Filed
  <2>2. file' \in Seq(Entry) /\ \A i \in DOMAIN file' : file'[i].id \in 1..created
    BY <1>7, <2>1
  <2>3. \A i, j \in DOMAIN file' : file'[i].id = file'[j].id => i = j
    BY <1>7, <2>1
  <2>4. sweep'.id <= created
    BY <1>5, <2>1
  <2> QED
    BY <1>1, <2>1, <2>2, <2>3, <2>4 DEF Filed
<1>10. Slots'
  <2>1. ASSUME NEW i \in DOMAIN file PROVE SlotAt(i)'
    <3>1. SlotAt(i) /\ file[i].id \in Nat
      BY DEF SchedInv, Slots, Filed
    <3>2. CASE file[i].id # sweep.id
      BY <1>1, <1>5, <1>6, <1>7, <3>1, <3>2 DEF SlotAt
    <3>3. CASE file[i].id = sweep.id
      <4>1. file'[i].next = sweep.time + RetryDelay /\ file'[i].id = sweep.id
        BY <1>7, <3>3
      <4>2. ~Open(sweep.id) /\ turn.id # sweep.id
        BY <1>1, <1>2, <3>1, <3>3 DEF Open, SchedInv, Slots
      <4>3. \A d \in done : d[1] = sweep.id => d[2] \in Nat /\ d[2] <= sweep.time
        BY <1>1, <1>3, <3>1, <3>3 DEF SlotAt, SchedInv, Filed
      <4>4. <<sweep.id, sweep.time + RetryDelay>> \notin done
        BY <1>3, <4>3, SchedConstants
      <4> QED
        BY <1>1, <1>3, <1>5, <1>6, <4>1, <4>2, <4>3, <4>4, SchedConstants DEF SlotAt
    <3> QED
      BY <3>2, <3>3
  <2> QED
    BY <1>5, <1>7, <2>1 DEF Slots
<1> QED
  BY <1>2, <1>6, <1>8, <1>9, <1>10 DEF SchedInv

\* A turn is announced.
LEMMA SchedTells ==
    ASSUME SchedInv, Sched!PublishUserMessage
    PROVE  SchedInv' /\ turn'.n = turn.n
<1> DEFINE ev == [type |-> "user.message", n |-> turn.n, id |-> turn.id, reason |-> ""]
<1>1. /\ turn # Sched!NoTurn /\ ~turn.told /\ turn' = [turn EXCEPT !.told = TRUE]
      /\ events' = Append(events, ev)
      /\ UNCHANGED <<file, sweep, claims, active, seen, ending, turns, done, created, now>>
  BY DEF Sched!PublishUserMessage, Sched!editVars
<1>2. /\ turn' \in Started /\ turn'.n = turn.n /\ turn'.id = turn.id /\ turn'.slot = turn.slot
      /\ turn'.told /\ turn.n \in Nat /\ turn.id \in Nat
  BY <1>1 DEF SchedInv, SchedType, Started
<1>3. turn.n > 0 /\ turn.n <= turns
  <2>1. turn.n # 0 /\ turn.n <= turns
    BY <1>1 DEF SchedInv, Numbered
  <2> QED
    BY <1>2, <2>1
<1>a. PICK newest \in Nat : newest = Len(events) + 1
  BY EventTyped
<1>4. ev \in Event
  BY <1>2 DEF Event
<1>6. ev.n = turn.n /\ ev.id = turn.id /\ ev.type = "user.message"
  OBVIOUS
<1> HIDE DEF ev
<1>5. /\ events' \in Seq(Event) /\ DOMAIN events' = 1..newest /\ DOMAIN events = 1..Len(events)
      /\ Len(events) \in Nat /\ events'[newest] = ev
      /\ \A i \in DOMAIN events : events'[i] = events[i]
  BY <1>1, <1>4, <1>a, EventTyped, Appended
<1>7. /\ Tells(newest)' /\ ~Ends(newest)'
      /\ \A i \in DOMAIN events : (Tells(i)' <=> Tells(i)) /\ (Ends(i)' <=> Ends(i))
  BY <1>5, <1>6 DEF Tells, Ends
<1>8. \A i \in DOMAIN events' : i \in DOMAIN events \/ i = newest
  BY <1>5, <1>a
<1>9. \A i \in DOMAIN events : i \in DOMAIN events' /\ i < newest
  BY <1>5, <1>a
<1>10. newest \in DOMAIN events'
  BY <1>5, <1>a
<1>11. \A x : Open(x)' <=> Open(x)
  BY <1>2, <1>5, <1>7, <1>8, <1>9 DEF Open
<1>12. Numbered'
  <2>1. turn'.n <= turns' /\ (turn'.n = 0 => turn' = Sched!NoTurn)
    BY <1>1, <1>2, <1>3
  <2>2. \A i \in DOMAIN events' : events'[i].n \in 1..turns'
    BY <1>1, <1>2, <1>3, <1>5, <1>6, <1>8 DEF SchedInv, SchedType, Numbered
  <2>3. \A i, j \in DOMAIN events' : Ends(i)' /\ Ends(j)' /\ i < j => events'[i].n < events'[j].n
    BY <1>5, <1>7, <1>8 DEF SchedInv, Numbered
  <2>4. turn'.n > 0 => \A i \in DOMAIN events' : Ends(i)' => events'[i].n < turn'.n
    BY <1>2, <1>5, <1>7, <1>8 DEF SchedInv, Numbered
  <2>5. \A i, j \in DOMAIN events' : Tells(i)' /\ Ends(j)' /\ events'[i].n = events'[j].n => i < j
    <3>1. \A j \in DOMAIN events : Ends(j) => events[j].n < turn.n /\ events[j].n \in Nat
      BY <1>3, EventTyped DEF SchedInv, Numbered
    <3> QED
      BY <1>2, <1>5, <1>6, <1>7, <1>8, <3>1 DEF SchedInv, Numbered
  <2>6. \A i, j \in DOMAIN events' : events'[i].n = events'[j].n => events'[i].id = events'[j].id
    BY <1>5, <1>6, <1>8 DEF SchedInv, Numbered
  <2>7. \A i \in DOMAIN events' : events'[i].n = turn'.n => events'[i].id = turn'.id
    BY <1>2, <1>5, <1>6, <1>8 DEF SchedInv, Numbered
  <2>8. \A n \in DOMAIN seen' :
         /\ n \in 1..turns' /\ seen'[n].id > 0
         /\ \A i \in DOMAIN events' : events'[i].n = n => events'[i].id = seen'[n].id
         /\ turn'.n = n => turn'.id = seen'[n].id
    BY <1>1, <1>2, <1>5, <1>6, <1>8 DEF SchedInv, Numbered
  <2> QED
    BY <2>1, <2>2, <2>3, <2>4, <2>5, <2>6, <2>7, <2>8 DEF Numbered
<1>13. Counted'
  BY <1>1, <1>2, <1>5, <1>7, <1>8 DEF SchedInv, Counted, Low
<1>14. Backed'
  <2>1. \A i \in DOMAIN events' : Tells(i)' /\ events'[i].id > 0 =>
         \/ turn'.n = events'[i].n /\ turn'.told
         \/ \E j \in DOMAIN events' : Ends(j)' /\ events'[j].n = events'[i].n
    BY <1>1, <1>2, <1>5, <1>6, <1>7, <1>8, <1>9 DEF SchedInv, Backed
  <2>2. \A n \in DOMAIN seen' :
         \/ turn'.n = n /\ turn'.told
         \/ \E j \in DOMAIN events' : Ends(j)' /\ events'[j].n = n
    BY <1>1, <1>5, <1>7, <1>9 DEF SchedInv, Backed
  <2>3. \A j \in DOMAIN events' : Ends(j)' /\ events'[j].id > 0 =>
         \/ events'[j].n \in DOMAIN seen'
         \/ \E i \in DOMAIN events' : Tells(i)' /\ i < j /\ events'[i].n = events'[j].n
    BY <1>1, <1>5, <1>7, <1>8, <1>9 DEF SchedInv, Backed
  <2>4. \E i \in DOMAIN events' : Tells(i)' /\ events'[i].n = turn'.n
    BY <1>2, <1>5, <1>6, <1>7, <1>10
  <2> QED
    BY <1>1, <1>11, <2>1, <2>2, <2>3, <2>4 DEF SchedInv, Backed
<1>15. OneOpen'
  <2>1. \A i, j \in DOMAIN events' :
         Ends(i)' /\ Ends(j)' /\ events'[i].id > 0 /\ events'[j].id > 0 => i = j
    BY <1>5, <1>7, <1>8 DEF SchedInv, OneOpen
  <2>2. turn'.id > 0 => \A j \in DOMAIN events' : Ends(j)' => events'[j].id = 0
    BY <1>2, <1>5, <1>7, <1>8 DEF SchedInv, OneOpen
  <2> QED
    BY <1>1, <1>11, <2>1, <2>2 DEF SchedInv, OneOpen
<1>16. SchedType'
  BY <1>1, <1>2, <1>5 DEF SchedInv, SchedType
<1>17. Filed'
  BY <1>1, <1>2, <1>5, <1>6, <1>8 DEF SchedInv, Filed
<1>18. Slots'
  <2>1. ASSUME NEW i \in DOMAIN file PROVE SlotAt(i)'
    BY <1>1, <1>2, <1>11 DEF SchedInv, Slots, SlotAt
  <2> QED
    BY <1>1, <2>1 DEF SchedInv, Slots
<1> QED
  BY <1>2, <1>12, <1>13, <1>14, <1>15, <1>16, <1>17, <1>18 DEF SchedInv

\* A turn ends.
LEMMA SchedEnds ==
    ASSUME SchedInv, NEW reason \in {"completed", "cancelled", "error"},
           Sched!PublishTurnEnd(reason)
    PROVE  SchedInv' /\ turn'.n = 0
<1> DEFINE ev == [type |-> "turn.end", n |-> turn.n, id |-> turn.id, reason |-> reason]
<1>1. /\ turn # Sched!NoTurn /\ turn.told /\ turn' = Sched!NoTurn
      /\ events' = Append(events, ev)
      /\ done' = IF turn.id > 0 /\ reason = "completed"
                 THEN done \cup {<<turn.id, turn.slot>>} ELSE done
      /\ UNCHANGED <<file, sweep, claims, active, seen, ending, turns, created, now>>
  BY DEF Sched!PublishTurnEnd, Sched!editVars
<1>2. /\ turn' \in Started /\ turn'.n = 0 /\ turn'.id = 0 /\ turn'.told = FALSE
      /\ turn.n \in Nat /\ turn.id \in Nat /\ turn.slot \in Nat
  BY <1>1 DEF SchedInv, SchedType, Started, Sched!NoTurn
<1>3. turn.n > 0 /\ turn.n <= turns /\ turns \in Nat
  <2>1. turn.n # 0 /\ turn.n <= turns
    BY <1>1 DEF SchedInv, Numbered
  <2> QED
    BY <1>2, <2>1 DEF SchedInv, SchedType
<1>a. PICK newest \in Nat : newest = Len(events) + 1
  BY EventTyped
<1>4. ev \in Event
  BY <1>2 DEF Event
<1>6. ev.n = turn.n /\ ev.id = turn.id /\ ev.type = "turn.end"
  OBVIOUS
<1> HIDE DEF ev
<1>5. /\ events' \in Seq(Event) /\ DOMAIN events' = 1..newest /\ DOMAIN events = 1..Len(events)
      /\ Len(events) \in Nat /\ events'[newest] = ev
      /\ \A i \in DOMAIN events : events'[i] = events[i]
  BY <1>1, <1>4, <1>a, EventTyped, Appended
<1>7. /\ Ends(newest)' /\ ~Tells(newest)'
      /\ \A i \in DOMAIN events : (Tells(i)' <=> Tells(i)) /\ (Ends(i)' <=> Ends(i))
  BY <1>5, <1>6 DEF Tells, Ends
<1>8. \A i \in DOMAIN events' : i \in DOMAIN events \/ i = newest
  BY <1>5, <1>a
<1>9. \A i \in DOMAIN events : i \in DOMAIN events' /\ i < newest
  BY <1>5, <1>a
<1>10. newest \in DOMAIN events'
  BY <1>5, <1>a
<1>11. \A x \in Nat : Open(x)' <=> Open(x)
  BY <1>2, <1>5, <1>6, <1>7, <1>8, <1>9, <1>10 DEF Open
<1>b. \A i \in DOMAIN events : events[i].n \in Nat /\ events[i].id \in Nat
  BY EventTyped
<1>12. Numbered'
  <2>1. turn'.n <= turns' /\ (turn'.n = 0 => turn' = Sched!NoTurn)
    BY <1>1, <1>2, <1>3
  <2>2. \A i \in DOMAIN events' : events'[i].n \in 1..turns'
    BY <1>1, <1>2, <1>3, <1>5, <1>6, <1>8 DEF SchedInv, SchedType, Numbered
  <2>3. \A i, j \in DOMAIN events' : Ends(i)' /\ Ends(j)' /\ i < j => events'[i].n < events'[j].n
    BY <1>3, <1>5, <1>6, <1>7, <1>8, <1>9 DEF SchedInv, Numbered
  <2>5. \A i, j \in DOMAIN events' : Tells(i)' /\ Ends(j)' /\ events'[i].n = events'[j].n => i < j
    BY <1>2, <1>5, <1>6, <1>7, <1>8, <1>9 DEF SchedInv, Numbered
  <2>6. \A i, j \in DOMAIN events' : events'[i].n = events'[j].n => events'[i].id = events'[j].id
    BY <1>5, <1>6, <1>8 DEF SchedInv, Numbered
  <2>7. \A i \in DOMAIN events' : events'[i].n = turn'.n => events'[i].id = turn'.id
    BY <1>2, <2>2
  <2>8. \A n \in DOMAIN seen' :
         /\ n \in 1..turns' /\ seen'[n].id > 0
         /\ \A i \in DOMAIN events' : events'[i].n = n => events'[i].id = seen'[n].id
         /\ turn'.n = n => turn'.id = seen'[n].id
    BY <1>1, <1>2, <1>5, <1>6, <1>8 DEF SchedInv, Numbered
  <2> QED
    BY <1>2, <2>1, <2>2, <2>3, <2>5, <2>6, <2>7, <2>8 DEF Numbered
<1>13. Counted'
  BY <1>1, <1>2, <1>3, <1>5, <1>6, <1>7, <1>8 DEF SchedInv, Counted, Low
<1>14. Backed'
  <2>1. \A i \in DOMAIN events' : Tells(i)' /\ events'[i].id > 0 =>
         \/ turn'.n = events'[i].n /\ turn'.told
         \/ \E j \in DOMAIN events' : Ends(j)' /\ events'[j].n = events'[i].n
    BY <1>1, <1>2, <1>5, <1>6, <1>7, <1>8, <1>9, <1>10 DEF SchedInv, Backed
  <2>2. \A n \in DOMAIN seen' :
         \/ turn'.n = n /\ turn'.told
         \/ \E j \in DOMAIN events' : Ends(j)' /\ events'[j].n = n
    BY <1>1, <1>5, <1>6, <1>7, <1>9, <1>10 DEF SchedInv, Backed
  <2>3. \A j \in DOMAIN events' : Ends(j)' /\ events'[j].id > 0 =>
         \/ events'[j].n \in DOMAIN seen'
         \/ \E i \in DOMAIN events' : Tells(i)' /\ i < j /\ events'[i].n = events'[j].n
    <3> SUFFICES ASSUME NEW j \in DOMAIN events', Ends(j)', events'[j].id > 0
                 PROVE  \/ events'[j].n \in DOMAIN seen'
                        \/ \E i \in DOMAIN events' : Tells(i)' /\ i < j /\ events'[i].n = events'[j].n
      OBVIOUS
    <3>1. CASE j \in DOMAIN events
      BY <1>1, <1>5, <1>7, <1>9, <3>1 DEF SchedInv, Backed
    <3>2. CASE j = newest
      BY <1>1, <1>5, <1>6, <1>7, <1>9, <3>2 DEF SchedInv, Backed
    <3> QED
      BY <1>8, <3>1, <3>2
  <2>4. \A x \in DOMAIN claims' : Open(x)'
    BY <1>1, <1>11 DEF SchedInv, SchedType, Backed
  <2> QED
    BY <1>1, <1>2, <2>1, <2>2, <2>3, <2>4 DEF SchedInv, Backed
<1>15. OneOpen'
  <2>1. \A i, j \in DOMAIN events' :
         Ends(i)' /\ Ends(j)' /\ events'[i].id > 0 /\ events'[j].id > 0 => i = j
    BY <1>2, <1>5, <1>6, <1>7, <1>8, <1>b DEF SchedInv, OneOpen
  <2> QED
    BY <1>1, <1>2, <1>11, <2>1 DEF SchedInv, OneOpen
<1>16. SchedType'
  BY <1>1, <1>2, <1>5 DEF SchedInv, SchedType
<1>17. Filed'
  <2>1. \A i \in DOMAIN events' : events'[i].id <= created
    BY <1>5, <1>6, <1>8 DEF SchedInv, Filed
  <2>2. done' \subseteq Nat \X Nat
    BY <1>1, <1>2 DEF SchedInv, Filed
  <2>3. \A d \in done' : d[1] <= created
    BY <1>1, <1>2 DEF SchedInv, Filed
  <2>4. turn'.id <= created'
    BY <1>1, <1>2 DEF SchedInv, SchedType
  <2> QED
    BY <1>1, <2>1, <2>2, <2>3, <2>4 DEF SchedInv, Filed
<1>c. \A d \in done' : d \in done \/ (d = <<turn.id, turn.slot>> /\ turn.id > 0)
  BY <1>1
<1>d. turn.id > 0 => Open(turn.id)
  BY DEF Open
<1>18. Slots'
  <2>1. ASSUME NEW i \in DOMAIN file PROVE SlotAt(i)'
    <3>1. SlotAt(i) /\ file[i].id \in Nat
      BY DEF SchedInv, Slots, Filed
    <3>2. file[i].enabled /\ <<file[i].id, file[i].next>> \in done' => Open(file[i].id)
      BY <1>c, <1>d, <3>1 DEF SlotAt
    <3>3. \A d \in done' : d[1] = file[i].id => d[2] <= file[i].next
      BY <1>c, <3>1 DEF SlotAt
    <3>4. file[i].id > 0
      BY DEF SchedInv, Filed
    <3> QED
      BY <1>1, <1>2, <1>11, <3>1, <3>2, <3>3, <3>4 DEF SlotAt
  <2>2. sweep.at = "start" => turn.id = 0
    BY <1>2, <1>d DEF SchedInv, OneOpen
  <2>3. sweep'.at = "start" => <<sweep'.id, sweep'.slot>> \notin done'
    BY <1>1, <1>2, <2>2 DEF SchedInv, Slots
  <2> QED
    BY <1>1, <2>1, <2>3 DEF SchedInv, Slots
<1> QED
  BY <1>2, <1>12, <1>13, <1>14, <1>15, <1>16, <1>17, <1>18 DEF SchedInv

\* The next run of a repeating schedule is later than the last one and later
\* than the instant it was claimed at.
LEMMA NextRun ==
    ASSUME NEW before \in Nat, NEW every \in Nat, every > 0, NEW at \in Nat
    PROVE  LET next == Sched!nextSessionScheduleRunAt(before, every, at)
           IN  next \in Nat /\ next > before /\ next > at
<1> DEFINE m == at - (before + every)
<1>1. CASE before + every > at
  BY <1>1 DEF Sched!nextSessionScheduleRunAt
<1>2. CASE ~(before + every > at)
  <2>1. m \in Nat
    BY <1>2
  <2> HIDE DEF m
  <2>2. PICK k \in Nat : k = m \div every
    BY <2>1
  <2>3. (k + 1) * every > m /\ (k + 1) * every \in Nat
    BY <2>1, <2>2
  <2>4. Sched!nextSessionScheduleRunAt(before, every, at) = (before + every) + (k + 1) * every
    BY <1>2, <2>2 DEF Sched!nextSessionScheduleRunAt, m
  <2>5. at = (before + every) + m
    BY DEF m
  <2> QED
    BY <2>1, <2>3, <2>4, <2>5
<1> QED
  BY <1>1, <1>2

\* A success moves a repeating schedule on and disables the others.
LEMMA SucceededFile ==
    ASSUME SchedInv, NEW id, NEW at \in Nat, Sched!Succeeded(id, at)
    PROVE  /\ DOMAIN file' = DOMAIN file /\ file' \in Seq(Entry)
           /\ \A i \in DOMAIN file :
                /\ file'[i].id = file[i].id
                /\ file[i].id # id => file'[i] = file[i]
                /\ file[i].id = id =>
                     \/ ~file'[i].enabled /\ file'[i].next = file[i].next
                     \/ file'[i].next > file[i].next /\ file'[i].next > at
<1> DEFINE next(e) == Sched!nextSessionScheduleRunAt(e.next, e.every, at)
           advance(e) == IF e.every > 0 THEN [e EXCEPT !.next = next(e), !.enabled = TRUE]
                         ELSE [e EXCEPT !.enabled = FALSE]
<1>1. file' = [i \in 1..Len(file) |-> IF file[i].id = id THEN advance(file[i]) ELSE file[i]]
  BY DEF Sched!Succeeded, Sched!Change
<1>2. file \in Seq(Entry) /\ DOMAIN file = 1..Len(file) /\ Len(file) \in Nat
  BY DEF SchedInv, Filed
<1>3. ASSUME NEW e \in Entry
      PROVE  /\ advance(e) \in Entry /\ advance(e).id = e.id
             /\ \/ ~advance(e).enabled /\ advance(e).next = e.next
                \/ advance(e).next > e.next /\ advance(e).next > at
  <2>1. e.next \in Nat /\ e.every \in Nat
    BY DEF Entry
  <2>2. CASE e.every = 0
    <3>1. advance(e) = [e EXCEPT !.enabled = FALSE]
      BY <2>2
    <3> HIDE DEF advance
    <3> QED
      BY <3>1 DEF Entry
  <2>3. CASE e.every > 0
    <3>1. next(e) \in Nat /\ next(e) > e.next /\ next(e) > at
      BY <2>1, <2>3, NextRun
    <3>2. PICK v \in Nat : v = next(e)
      BY <3>1
    <3>3. advance(e) = [e EXCEPT !.next = v, !.enabled = TRUE]
      BY <2>3, <3>2
    <3> HIDE DEF advance, next
    <3>4. advance(e) \in Entry /\ advance(e).id = e.id /\ advance(e).next = v
      BY <3>3 DEF Entry
    <3> QED
      BY <3>1, <3>2, <3>4
  <2> QED
    BY <2>1, <2>2, <2>3
<1> HIDE DEF advance
<1>4. \A i \in DOMAIN file : file[i] \in Entry
  BY <1>2
<1> QED
  BY <1>1, <1>2, <1>3, <1>4

\* The announcement of a turn is observed.
LEMMA SchedObserves ==
    ASSUME SchedInv, Sched!ObserveUserMessage
    PROVE  SchedInv'
<1> DEFINE n0 == events[1].n
           id0 == events[1].id
<1>1. /\ events # <<>> /\ events' = Tail(events) /\ events[1].type = "user.message"
      /\ seen' = IF id0 = 0 THEN seen
                 ELSE Sched!Remember(seen, n0,
                        [id |-> id0, at |-> IF id0 \in DOMAIN claims THEN claims[id0] ELSE -1])
      /\ UNCHANGED <<file, sweep, claims, turn, active, ending, turns, done, created, now>>
  BY EventTyped, HeadTail DEF Sched!ObserveUserMessage, Sched!editVars
<1>2. /\ events' \in Seq(Event) /\ 1 \in DOMAIN events
      /\ DOMAIN events \subseteq Nat /\ DOMAIN events' \subseteq Nat
      /\ \A i \in DOMAIN events' : i + 1 \in DOMAIN events /\ events'[i] = events[i + 1]
      /\ \A i \in DOMAIN events : i = 1 \/ i - 1 \in DOMAIN events'
  BY <1>1, EventTyped, HeadTail
<1>3. /\ Tells(1) /\ ~Ends(1)
      /\ \A i \in DOMAIN events' : (Tells(i)' <=> Tells(i + 1)) /\ (Ends(i)' <=> Ends(i + 1))
  BY <1>1, <1>2 DEF Tells, Ends
<1>4. \A j \in DOMAIN events : Ends(j) =>
        j - 1 \in DOMAIN events' /\ events'[j - 1] = events[j] /\ Ends(j - 1)'
  BY <1>2, <1>3
<1>5. n0 \in Nat /\ id0 \in Nat
  BY <1>2, EventTyped
<1>6. \A x : Open(x)' <=> Open(x)
  BY <1>1, <1>2, <1>3, <1>4 DEF Open
<1>7. /\ DOMAIN seen' = IF id0 = 0 THEN DOMAIN seen ELSE DOMAIN seen \cup {n0}
      /\ id0 > 0 => /\ seen'[n0].id = id0
                    /\ seen'[n0].at = IF id0 \in DOMAIN claims THEN claims[id0] ELSE -1
      /\ \A n \in DOMAIN seen : seen'[n] = seen[n] \/ (n = n0 /\ id0 > 0)
      /\ seen' = [n \in DOMAIN seen' |-> seen'[n]]
  <2>1. CASE id0 = 0
    BY <1>1, <2>1 DEF SchedInv, SchedType
  <2>2. CASE id0 > 0
    <3> DEFINE v == [id |-> id0, at |-> IF id0 \in DOMAIN claims THEN claims[id0] ELSE -1]
    <3>1. seen' = Sched!Remember(seen, n0, v)
      BY <1>1, <2>2
    <3>2. v.id = id0 /\ v.at = IF id0 \in DOMAIN claims THEN claims[id0] ELSE -1
      OBVIOUS
    <3> HIDE DEF v
    <3>3. seen' = [y \in DOMAIN seen \cup {n0} |-> IF y = n0 THEN v ELSE seen[y]]
      BY <3>1 DEF Sched!Remember
    <3>4. seen'[n0] = v /\ DOMAIN seen' = DOMAIN seen \cup {n0}
      BY <3>3
    <3>5. \A n \in DOMAIN seen : seen'[n] = seen[n] \/ n = n0
      BY <3>3
    <3>6. seen' = [n \in DOMAIN seen' |-> seen'[n]]
      BY <3>3
    <3> QED
      BY <2>2, <3>2, <3>4, <3>5, <3>6
  <2> QED
    BY <1>5, <2>1, <2>2
<1>8. Numbered'
  <2>1. \A i \in DOMAIN events : events[i].n = n0 => events[i].id = id0
    BY <1>2 DEF SchedInv, Numbered
  <2>2. \A n \in DOMAIN seen' :
         /\ n \in 1..turns' /\ seen'[n].id > 0
         /\ \A i \in DOMAIN events' : events'[i].n = n => events'[i].id = seen'[n].id
         /\ turn'.n = n => turn'.id = seen'[n].id
    <3> SUFFICES ASSUME NEW n \in DOMAIN seen'
                 PROVE  /\ n \in 1..turns' /\ seen'[n].id > 0
                        /\ \A i \in DOMAIN events' : events'[i].n = n => events'[i].id = seen'[n].id
                        /\ turn'.n = n => turn'.id = seen'[n].id
      OBVIOUS
    <3>1. CASE n = n0 /\ id0 > 0
      BY <1>1, <1>2, <1>7, <2>1, <3>1 DEF SchedInv, Numbered
    <3>2. CASE n \in DOMAIN seen /\ seen'[n] = seen[n]
      BY <1>1, <1>2, <3>2 DEF SchedInv, Numbered
    <3> QED
      BY <1>5, <1>7, <3>1, <3>2
  <2>3. \A i, j \in DOMAIN events' : Ends(i)' /\ Ends(j)' /\ i < j => events'[i].n < events'[j].n
    BY <1>2, <1>3 DEF SchedInv, Numbered
  <2>4. \A i, j \in DOMAIN events' : Tells(i)' /\ Ends(j)' /\ events'[i].n = events'[j].n => i < j
    BY <1>2, <1>3 DEF SchedInv, Numbered
  <2>5. \A i \in DOMAIN events' : events'[i].n \in 1..turns'
    BY <1>1, <1>2 DEF SchedInv, Numbered
  <2>6. turn'.n > 0 => \A i \in DOMAIN events' : Ends(i)' => events'[i].n < turn'.n
    BY <1>1, <1>2, <1>3 DEF SchedInv, Numbered
  <2>7. /\ \A i, j \in DOMAIN events' : events'[i].n = events'[j].n => events'[i].id = events'[j].id
        /\ \A i \in DOMAIN events' : events'[i].n = turn'.n => events'[i].id = turn'.id
    BY <1>1, <1>2 DEF SchedInv, Numbered
  <2>8. turn'.n <= turns' /\ (turn'.n = 0 => turn' = Sched!NoTurn)
    BY <1>1 DEF SchedInv, Numbered
  <2> QED
    BY <2>2, <2>3, <2>4, <2>5, <2>6, <2>7, <2>8 DEF Numbered
<1>9. Counted'
  BY <1>1, <1>2, <1>3 DEF SchedInv, Counted, Low
<1>10. Backed'
  <2>1. \A i \in DOMAIN events' : Tells(i)' /\ events'[i].id > 0 =>
         \/ turn'.n = events'[i].n /\ turn'.told
         \/ \E j \in DOMAIN events' : Ends(j)' /\ events'[j].n = events'[i].n
    <3> SUFFICES ASSUME NEW i \in DOMAIN events', Tells(i + 1), events[i + 1].id > 0
                 PROVE  \/ turn.n = events[i + 1].n /\ turn.told
                        \/ \E j \in DOMAIN events' : Ends(j)' /\ events'[j].n = events[i + 1].n
      BY <1>1, <1>2, <1>3
    <3>1. CASE turn.n = events[i + 1].n /\ turn.told
      BY <3>1
    <3>2. CASE \E j \in DOMAIN events : Ends(j) /\ events[j].n = events[i + 1].n
      BY <1>4, <3>2
    <3> QED
      BY <1>2, <3>1, <3>2 DEF SchedInv, Backed
  <2>2. \A n \in DOMAIN seen' :
         \/ turn'.n = n /\ turn'.told
         \/ \E j \in DOMAIN events' : Ends(j)' /\ events'[j].n = n
    <3> SUFFICES ASSUME NEW n \in DOMAIN seen'
                 PROVE  \/ turn'.n = n /\ turn'.told
                        \/ \E j \in DOMAIN events' : Ends(j)' /\ events'[j].n = n
      OBVIOUS
    <3>1. CASE n = n0 /\ id0 > 0
      <4>1. (turn.n = n /\ turn.told) \/ \E j \in DOMAIN events : Ends(j) /\ events[j].n = n
        BY <1>2, <1>3, <3>1 DEF SchedInv, Backed
      <4> QED
        BY <1>1, <1>4, <4>1
    <3>2. CASE n \in DOMAIN seen
      <4>1. (turn.n = n /\ turn.told) \/ \E j \in DOMAIN events : Ends(j) /\ events[j].n = n
        BY <3>2 DEF SchedInv, Backed
      <4> QED
        BY <1>1, <1>4, <4>1
    <3> QED
      BY <1>5, <1>7, <3>1, <3>2
  <2>3. \A j \in DOMAIN events' : Ends(j)' /\ events'[j].id > 0 =>
         \/ events'[j].n \in DOMAIN seen'
         \/ \E i \in DOMAIN events' : Tells(i)' /\ i < j /\ events'[i].n = events'[j].n
    <3> SUFFICES ASSUME NEW j \in DOMAIN events', Ends(j + 1), events[j + 1].id > 0
                 PROVE  \/ events[j + 1].n \in DOMAIN seen'
                        \/ \E i \in DOMAIN events' : Tells(i)' /\ i < j /\ events'[i].n = events[j + 1].n
      BY <1>2, <1>3
    <3>1. CASE events[j + 1].n \in DOMAIN seen
      BY <1>7, <3>1
    <3>2. ASSUME NEW i \in DOMAIN events, Tells(i), i < j + 1, events[i].n = events[j + 1].n
          PROVE  \/ events[j + 1].n \in DOMAIN seen'
                 \/ \E k \in DOMAIN events' : Tells(k)' /\ k < j /\ events'[k].n = events[j + 1].n
      <4>1. CASE i = 1
        <5>1. id0 = events[j + 1].id
          BY <1>2, <3>2, <4>1 DEF SchedInv, Numbered
        <5> QED
          BY <1>5, <1>7, <3>2, <4>1, <5>1
      <4>2. CASE i # 1
        <5>1. i - 1 \in DOMAIN events' /\ i - 1 < j /\ (i - 1) + 1 = i
          BY <1>2, <3>2, <4>2
        <5>2. Tells(i - 1)' /\ events'[i - 1].n = events[i].n
          BY <1>2, <1>3, <3>2, <5>1
        <5> QED
          BY <3>2, <5>1, <5>2
      <4> QED
        BY <4>1, <4>2
    <3> QED
      BY <1>2, <3>1, <3>2 DEF SchedInv, Backed
  <2>4. turn'.told /\ turn'.id > 0 =>
         \/ turn'.n \in DOMAIN seen'
         \/ \E i \in DOMAIN events' : Tells(i)' /\ events'[i].n = turn'.n
    <3> SUFFICES ASSUME turn.told, turn.id > 0
                 PROVE  \/ turn.n \in DOMAIN seen'
                        \/ \E i \in DOMAIN events' : Tells(i)' /\ events'[i].n = turn.n
      BY <1>1
    <3>1. CASE turn.n \in DOMAIN seen
      BY <1>7, <3>1
    <3>2. ASSUME NEW i \in DOMAIN events, Tells(i), events[i].n = turn.n
          PROVE  \/ turn.n \in DOMAIN seen'
                 \/ \E k \in DOMAIN events' : Tells(k)' /\ events'[k].n = turn.n
      <4>1. CASE i = 1
        <5>1. id0 = turn.id
          BY <1>2, <3>2, <4>1 DEF SchedInv, Numbered
        <5> QED
          BY <1>5, <1>7, <3>2, <4>1, <5>1
      <4>2. CASE i # 1
        <5>1. i - 1 \in DOMAIN events' /\ (i - 1) + 1 = i
          BY <1>2, <3>2, <4>2
        <5>2. Tells(i - 1)' /\ events'[i - 1].n = events[i].n
          BY <1>2, <1>3, <3>2, <5>1
        <5> QED
          BY <3>2, <5>1, <5>2
      <4> QED
        BY <4>1, <4>2
    <3> QED
      BY <3>1, <3>2 DEF SchedInv, Backed
  <2>5. \A n \in DOMAIN seen' : seen'[n].id \in DOMAIN claims' => seen'[n].at = claims'[seen'[n].id]
    BY <1>1, <1>5, <1>7 DEF SchedInv, Backed
  <2>6. \A x \in DOMAIN claims' : Open(x)'
    BY <1>1, <1>6 DEF SchedInv, Backed
  <2> QED
    BY <2>1, <2>2, <2>3, <2>4, <2>5, <2>6 DEF Backed
<1>11. OneOpen'
  <2>1. \A i, j \in DOMAIN events' :
         Ends(i)' /\ Ends(j)' /\ events'[i].id > 0 /\ events'[j].id > 0 => i = j
    BY <1>2, <1>3 DEF SchedInv, OneOpen
  <2>2. turn'.id > 0 => \A j \in DOMAIN events' : Ends(j)' => events'[j].id = 0
    BY <1>1, <1>2, <1>3 DEF SchedInv, OneOpen
  <2> QED
    BY <1>1, <1>6, <2>1, <2>2 DEF SchedInv, OneOpen
<1>12. SchedType'
  <2>1. \A n \in DOMAIN seen' : n \in Nat /\ seen'[n].id \in Nat /\ seen'[n].at \in Int
    BY <1>5, <1>7 DEF SchedInv, SchedType
  <2> QED
    BY <1>1, <1>2, <1>7, <2>1 DEF SchedInv, SchedType
<1>13. Filed'
  BY <1>1, <1>2 DEF SchedInv, Filed
<1>14. Slots'
  <2>1. ASSUME NEW i \in DOMAIN file PROVE SlotAt(i)'
    BY <1>1, <1>6 DEF SchedInv, Slots, SlotAt
  <2> QED
    BY <1>1, <2>1 DEF SchedInv, Slots
<1> QED
  BY <1>8, <1>9, <1>10, <1>11, <1>12, <1>13, <1>14 DEF SchedInv

\* The end of a turn is observed and its outcome recorded.
LEMMA SchedCompletes ==
    ASSUME Sched!ScheduleAssumption, SchedInv, Sched!CompleteTurn
    PROVE  SchedInv' /\ Sched!MovesPastClaim
<1> DEFINE n0 == events[1].n
           id0 == events[1].id
           at0 == IF seen[n0].at < 0 THEN now ELSE seen[n0].at
<1>1. /\ events # <<>> /\ ~ending /\ events' = Tail(events) /\ events[1].type = "turn.end"
      /\ seen' = Sched!Forget(seen, n0) /\ ending' = TRUE
      /\ n0 \notin DOMAIN seen => UNCHANGED <<file, claims>>
      /\ n0 \in DOMAIN seen =>
           /\ claims' = Sched!Forget(claims, seen[n0].id)
           /\ IF events[1].reason = "completed" THEN Sched!Succeeded(seen[n0].id, at0)
              ELSE Sched!Failed(seen[n0].id, now, events[1].reason)
      /\ UNCHANGED <<sweep, turn, active, turns, done, created, now>>
  BY EventTyped, HeadTail DEF Sched!CompleteTurn, Sched!editVars
<1>2. /\ events' \in Seq(Event) /\ 1 \in DOMAIN events
      /\ DOMAIN events \subseteq Nat /\ DOMAIN events' \subseteq Nat
      /\ \A i \in DOMAIN events' : i + 1 \in DOMAIN events /\ events'[i] = events[i + 1]
      /\ \A i \in DOMAIN events : i = 1 \/ i - 1 \in DOMAIN events'
  BY <1>1, EventTyped, HeadTail
<1>3. /\ Ends(1) /\ ~Tells(1)
      /\ \A i \in DOMAIN events' : (Tells(i)' <=> Tells(i + 1)) /\ (Ends(i)' <=> Ends(i + 1))
  BY <1>1, <1>2 DEF Tells, Ends
<1>4. \A i \in DOMAIN events' : i \in Nat /\ i >= 1
  <2>1. DOMAIN events' = 1..Len(events') /\ Len(events') \in Nat
    BY <1>2
  <2> QED
    BY <2>1
<1>5. n0 \in Nat /\ id0 \in Nat /\ now \in Nat /\ turns \in Nat /\ turn.n \in Nat /\ turn.id \in Nat
  BY <1>2, EventTyped DEF SchedInv, SchedType, Started
<1>6. /\ DOMAIN seen' = DOMAIN seen \ {n0} /\ seen' = [n \in DOMAIN seen' |-> seen'[n]]
      /\ \A n \in DOMAIN seen' : seen'[n] = seen[n]
  BY <1>1 DEF Sched!Forget
\* The turns behind the head are later ones.
<1>7. /\ \A i \in DOMAIN events' : events'[i].n # n0
      /\ \A i \in DOMAIN events' : Ends(i)' => events'[i].n > n0
      /\ turn.n > 0 => turn.n > n0
      /\ turn.id > 0 => turn.n > n0
  <2>1. \A i \in DOMAIN events' : Ends(i)' => events'[i].n > n0
    BY <1>2, <1>3, <1>4 DEF SchedInv, Numbered
  <2>2. \A i \in DOMAIN events' : Tells(i)' => events'[i].n # n0
    BY <1>2, <1>3, <1>4 DEF SchedInv, Numbered
  <2>3. \A i \in DOMAIN events' : Ends(i)' \/ Tells(i)'
    BY <1>2, <1>3, EventTyped
  <2>4. turn.n > 0 => turn.n > n0
    BY <1>2, <1>3 DEF SchedInv, Numbered
  <2>5. turn.id > 0 => turn.n > 0
    BY <1>5 DEF SchedInv, Numbered, Sched!NoTurn
  <2> QED
    BY <1>5, <2>1, <2>2, <2>3, <2>4, <2>5
<1>8. Numbered'
  <2>1. \A n \in DOMAIN seen' :
         /\ n \in 1..turns' /\ seen'[n].id > 0
         /\ \A i \in DOMAIN events' : events'[i].n = n => events'[i].id = seen'[n].id
         /\ turn'.n = n => turn'.id = seen'[n].id
    BY <1>1, <1>2, <1>6 DEF SchedInv, Numbered
  <2>2. \A i, j \in DOMAIN events' : Ends(i)' /\ Ends(j)' /\ i < j => events'[i].n < events'[j].n
    BY <1>2, <1>3 DEF SchedInv, Numbered
  <2>3. \A i, j \in DOMAIN events' : Tells(i)' /\ Ends(j)' /\ events'[i].n = events'[j].n => i < j
    BY <1>2, <1>3 DEF SchedInv, Numbered
  <2>4. \A i \in DOMAIN events' : events'[i].n \in 1..turns'
    BY <1>1, <1>2 DEF SchedInv, Numbered
  <2>5. turn'.n > 0 => \A i \in DOMAIN events' : Ends(i)' => events'[i].n < turn'.n
    BY <1>1, <1>2, <1>3 DEF SchedInv, Numbered
  <2>6. /\ \A i, j \in DOMAIN events' : events'[i].n = events'[j].n => events'[i].id = events'[j].id
        /\ \A i \in DOMAIN events' : events'[i].n = turn'.n => events'[i].id = turn'.id
    BY <1>1, <1>2 DEF SchedInv, Numbered
  <2>7. turn'.n <= turns' /\ (turn'.n = 0 => turn' = Sched!NoTurn)
    BY <1>1 DEF SchedInv, Numbered
  <2> QED
    BY <2>1, <2>2, <2>3, <2>4, <2>5, <2>6, <2>7 DEF Numbered
<1>9. Counted'
  <2>1. active \in Nat
    BY DEF SchedInv, SchedType
  <2>2. n0 > turns - active /\ n0 <= turns /\ active <= turns
    <3>1. Low = turns - active
      BY <1>1, <1>5, <2>1 DEF Low
    <3>2. n0 > Low /\ n0 \in 1..turns /\ active <= turns
      BY <1>2, <1>3 DEF SchedInv, Counted, Numbered
    <3> QED
      BY <3>1, <3>2
  <2>3. Low' = (turns - active) + 1
    BY <1>1 DEF Low
  <2>4. \A i \in DOMAIN events' : events'[i].n \in Nat
    BY <1>2, EventTyped
  <2> QED
    BY <1>1, <1>5, <1>7, <2>1, <2>2, <2>3, <2>4 DEF Counted
<1>10. id0 > 0 => Open(id0) /\ n0 \in DOMAIN seen /\ seen[n0].id = id0
  <2>1. id0 > 0 => Open(id0)
    BY <1>2, <1>3 DEF Open
  <2>2. id0 > 0 => n0 \in DOMAIN seen
    BY <1>2, <1>3, <1>4, EventTyped DEF SchedInv, Backed
  <2> QED
    BY <1>2, <2>1, <2>2 DEF SchedInv, Numbered
<1>11. n0 \in DOMAIN seen => id0 > 0
  BY <1>2, <1>5 DEF SchedInv, Numbered
\* The schedule of the turn is the one that is no longer open.
<1>12. ASSUME NEW x PROVE Open(x)' <=> Open(x) /\ x # id0
  <2>1. ASSUME NEW j \in DOMAIN events, Ends(j), events[j].id = x, x # id0
        PROVE  \E k \in DOMAIN events' : Ends(k)' /\ events'[k].id = x
    <3>1. j - 1 \in DOMAIN events' /\ (j - 1) + 1 = j
      BY <1>2, <2>1
    <3> QED
      BY <1>2, <1>3, <2>1, <3>1
  <2>2. ASSUME NEW k \in DOMAIN events', Ends(k)', events'[k].id = x, x > 0
        PROVE  x # id0 /\ \E j \in DOMAIN events : Ends(j) /\ events[j].id = x
    <3>1. k + 1 \in DOMAIN events /\ k + 1 # 1 /\ Ends(k + 1) /\ events[k + 1].id = x
      BY <1>2, <1>3, <1>4, <2>2
    <3> QED
      BY <1>2, <1>3, <1>5, <2>2, <3>1 DEF SchedInv, OneOpen
  <2>3. turn.id = x /\ x > 0 => x # id0
    BY <1>2, <1>3, <1>5 DEF SchedInv, OneOpen
  <2> QED
    BY <1>1, <2>1, <2>2, <2>3 DEF Open
<1>13. /\ DOMAIN claims' = DOMAIN claims \ {id0} /\ claims' = [x \in DOMAIN claims' |-> claims'[x]]
       /\ \A x \in DOMAIN claims' : claims'[x] = claims[x]
  <2>1. CASE n0 \notin DOMAIN seen
    <3>1. claims' = claims /\ id0 = 0
      BY <1>1, <1>5, <1>10, <2>1
    <3>2. 0 \notin DOMAIN claims
      BY DEF SchedInv, Backed, Open
    <3>3. DOMAIN claims \ {id0} = DOMAIN claims
      BY <3>1, <3>2
    <3> HIDE DEF id0
    <3> QED
      BY <3>1, <3>3 DEF SchedInv, SchedType
  <2>2. CASE n0 \in DOMAIN seen
    <3>1. claims' = Sched!Forget(claims, id0)
      BY <1>1, <1>10, <1>11, <2>2
    <3> QED
      BY <3>1 DEF Sched!Forget
  <2> QED
    BY <2>1, <2>2
<1>14. n0 \in DOMAIN seen =>
         /\ at0 \in Nat
         /\ id0 \in DOMAIN claims => claims[id0] \in Nat /\ claims[id0] <= now /\ at0 = claims[id0]
  <2> SUFFICES ASSUME n0 \in DOMAIN seen
               PROVE  /\ at0 \in Nat
                      /\ id0 \in DOMAIN claims =>
                           claims[id0] \in Nat /\ claims[id0] <= now /\ at0 = claims[id0]
    OBVIOUS
  <2>1. seen[n0].id = id0 /\ seen[n0].at \in Int
    BY <1>10, <1>11 DEF SchedInv, SchedType
  <2>2. id0 \in DOMAIN claims => seen[n0].at = claims[id0]
    BY <2>1 DEF SchedInv, Backed
  <2>3. id0 \in DOMAIN claims => claims[id0] \in Nat /\ claims[id0] <= now
    BY DEF SchedInv, SchedType
  <2> QED
    BY <1>5, <2>1, <2>2, <2>3
<1>f. \A i \in DOMAIN file :
        SlotAt(i) /\ file[i].id \in Nat /\ file[i].id > 0 /\ file[i].next \in Nat
  <2>1. \A i \in DOMAIN file : file[i] \in Entry
    BY DEF SchedInv, Filed
  <2> QED
    BY <2>1 DEF SchedInv, Slots, Filed, Entry
<1>15. /\ DOMAIN file' = DOMAIN file /\ file' \in Seq(Entry)
       /\ \A i \in DOMAIN file :
            /\ file'[i].id = file[i].id
            /\ file[i].id # id0 => file'[i] = file[i]
            /\ file[i].id = id0 =>
                 \/ ~file'[i].enabled /\ file'[i].next = file[i].next
                 \/ /\ file'[i].next > file[i].next
                    /\ id0 \in DOMAIN claims => file'[i].next > claims[id0]
  <2>1. CASE n0 \notin DOMAIN seen
    BY <1>1, <1>10, <1>f, <2>1 DEF SchedInv, Filed
  <2>2. CASE n0 \in DOMAIN seen /\ events[1].reason = "completed"
    <3>1. Sched!Succeeded(id0, at0) /\ at0 \in Nat
      BY <1>1, <1>10, <1>11, <1>14, <2>2
    <3>2. id0 \in DOMAIN claims => at0 = claims[id0]
      BY <1>14, <2>2
    <3> HIDE DEF at0, id0
    <3> QED
      BY <3>1, <3>2, SucceededFile
  <2>3. CASE n0 \in DOMAIN seen /\ events[1].reason # "completed"
    <3>1. Sched!Failed(id0, now, events[1].reason) /\ Open(id0)
      BY <1>1, <1>10, <1>11, <2>3
    <3>2. id0 \in DOMAIN claims => claims[id0] \in Nat /\ claims[id0] <= now
      BY <1>14, <2>3
    <3>3. \A i \in DOMAIN file : file[i].id = id0 => file[i].next <= now
      BY <1>f, <3>1 DEF SlotAt
    <3>4. /\ DOMAIN file' = DOMAIN file /\ file' \in Seq(Entry)
          /\ \A i \in DOMAIN file :
               /\ file'[i].id = file[i].id
               /\ file[i].id # id0 => file'[i] = file[i]
               /\ file[i].id = id0 /\ events[1].reason = "cancelled" =>
                    ~file'[i].enabled /\ file'[i].next = file[i].next
               /\ file[i].id = id0 /\ events[1].reason # "cancelled" =>
                    file'[i].next = now + RetryDelay
      <4> HIDE DEF id0, n0, at0
      <4>1. PICK r : r = events[1].reason
        OBVIOUS
      <4>2. Sched!Failed(id0, now, r)
        BY <3>1, <4>1
      <4>3. /\ DOMAIN file' = DOMAIN file /\ file' \in Seq(Entry)
            /\ \A i \in DOMAIN file :
                 /\ file'[i].id = file[i].id
                 /\ file[i].id # id0 => file'[i] = file[i]
                 /\ file[i].id = id0 /\ r = "cancelled" =>
                      ~file'[i].enabled /\ file'[i].next = file[i].next
                 /\ file[i].id = id0 /\ r # "cancelled" =>
                      file'[i].next = now + RetryDelay
        <5>1. FailsIn(id0, now, r)
          BY <1>5, <4>2, FailedFile
        <5> QED
          BY <5>1 DEF FailsIn
      <4> QED
        BY <4>1, <4>3
    <3> HIDE DEF id0
    <3> QED
      BY <1>5, <1>f, <3>2, <3>3, <3>4, SchedConstants
  <2> QED
    BY <2>1, <2>2, <2>3
<1>16. Backed'
  <2>1. \A i \in DOMAIN events' : Tells(i)' /\ events'[i].id > 0 =>
         \/ turn'.n = events'[i].n /\ turn'.told
         \/ \E j \in DOMAIN events' : Ends(j)' /\ events'[j].n = events'[i].n
    <3> SUFFICES ASSUME NEW i \in DOMAIN events', Tells(i)', events'[i].id > 0
                 PROVE  \/ turn'.n = events'[i].n /\ turn'.told
                        \/ \E j \in DOMAIN events' : Ends(j)' /\ events'[j].n = events'[i].n
      OBVIOUS
    <3>1. Tells(i + 1) /\ events[i + 1].id > 0 /\ events[i + 1].n # n0
      BY <1>2, <1>3, <1>7
    <3>2. ASSUME NEW j \in DOMAIN events, Ends(j), events[j].n = events[i + 1].n
          PROVE  \E k \in DOMAIN events' : Ends(k)' /\ events'[k].n = events'[i].n
      <4>1. j - 1 \in DOMAIN events' /\ (j - 1) + 1 = j
        BY <1>2, <3>1, <3>2
      <4> QED
        BY <1>2, <1>3, <3>2, <4>1
    <3> QED
      BY <1>1, <1>2, <3>1, <3>2 DEF SchedInv, Backed
  <2>2. \A n \in DOMAIN seen' :
         \/ turn'.n = n /\ turn'.told
         \/ \E j \in DOMAIN events' : Ends(j)' /\ events'[j].n = n
    <3> SUFFICES ASSUME NEW n \in DOMAIN seen'
                 PROVE  \/ turn'.n = n /\ turn'.told
                        \/ \E j \in DOMAIN events' : Ends(j)' /\ events'[j].n = n
      OBVIOUS
    <3>1. n \in DOMAIN seen /\ n # n0
      BY <1>6
    <3>2. ASSUME NEW j \in DOMAIN events, Ends(j), events[j].n = n
          PROVE  \E k \in DOMAIN events' : Ends(k)' /\ events'[k].n = n
      <4>1. j - 1 \in DOMAIN events' /\ (j - 1) + 1 = j
        BY <1>2, <3>1, <3>2
      <4> QED
        BY <1>2, <1>3, <3>2, <4>1
    <3> QED
      BY <1>1, <3>1, <3>2 DEF SchedInv, Backed
  <2>3. \A j \in DOMAIN events' : Ends(j)' /\ events'[j].id > 0 =>
         \/ events'[j].n \in DOMAIN seen'
         \/ \E i \in DOMAIN events' : Tells(i)' /\ i < j /\ events'[i].n = events'[j].n
    <3> SUFFICES ASSUME NEW j \in DOMAIN events', Ends(j)', events'[j].id > 0
                 PROVE  \/ events'[j].n \in DOMAIN seen'
                        \/ \E i \in DOMAIN events' : Tells(i)' /\ i < j /\ events'[i].n = events'[j].n
      OBVIOUS
    <3>1. Ends(j + 1) /\ events[j + 1].id > 0 /\ events'[j] = events[j + 1] /\ j + 1 \in DOMAIN events
      BY <1>2, <1>3
    <3>2. CASE events[j + 1].n \in DOMAIN seen
      BY <1>6, <1>7, <3>1, <3>2
    <3>3. ASSUME NEW i \in DOMAIN events, Tells(i), i < j + 1, events[i].n = events[j + 1].n
          PROVE  \E k \in DOMAIN events' : Tells(k)' /\ k < j /\ events'[k].n = events'[j].n
      <4>1. i - 1 \in DOMAIN events' /\ i - 1 < j /\ (i - 1) + 1 = i
        BY <1>2, <1>3, <1>4, <3>3
      <4>2. Tells(i - 1)' /\ events'[i - 1].n = events'[j].n
        BY <1>2, <1>3, <3>1, <3>3, <4>1
      <4> QED
        BY <4>1, <4>2
    <3> QED
      BY <3>1, <3>2, <3>3 DEF SchedInv, Backed
  <2>4. turn'.told /\ turn'.id > 0 =>
         \/ turn'.n \in DOMAIN seen'
         \/ \E i \in DOMAIN events' : Tells(i)' /\ events'[i].n = turn'.n
    <3> SUFFICES ASSUME turn.told, turn.id > 0
                 PROVE  \/ turn.n \in DOMAIN seen'
                        \/ \E i \in DOMAIN events' : Tells(i)' /\ events'[i].n = turn.n
      BY <1>1
    <3>1. CASE turn.n \in DOMAIN seen
      BY <1>5, <1>6, <1>7, <3>1
    <3>2. ASSUME NEW i \in DOMAIN events, Tells(i), events[i].n = turn.n
          PROVE  \E k \in DOMAIN events' : Tells(k)' /\ events'[k].n = turn.n
      <4>1. i - 1 \in DOMAIN events' /\ (i - 1) + 1 = i
        BY <1>2, <1>3, <3>2
      <4> QED
        BY <1>2, <1>3, <3>2, <4>1
    <3> QED
      BY <3>1, <3>2 DEF SchedInv, Backed
  <2>5. \A x \in DOMAIN claims' : Open(x)'
    BY <1>12, <1>13 DEF SchedInv, Backed
  <2>6. \A n \in DOMAIN seen' : seen'[n].id \in DOMAIN claims' => seen'[n].at = claims'[seen'[n].id]
    BY <1>6, <1>13 DEF SchedInv, Backed
  <2> QED
    BY <2>1, <2>2, <2>3, <2>4, <2>5, <2>6 DEF Backed
<1>17. OneOpen'
  <2>1. \A i, j \in DOMAIN events' :
         Ends(i)' /\ Ends(j)' /\ events'[i].id > 0 /\ events'[j].id > 0 => i = j
    BY <1>2, <1>3 DEF SchedInv, OneOpen
  <2>2. turn'.id > 0 => \A j \in DOMAIN events' : Ends(j)' => events'[j].id = 0
    BY <1>1, <1>2, <1>3 DEF SchedInv, OneOpen
  <2> QED
    BY <1>1, <1>12, <2>1, <2>2 DEF SchedInv, OneOpen
<1>18. SchedType'
  <2>1. \A n \in DOMAIN seen' : n \in Nat /\ seen'[n].id \in Nat /\ seen'[n].at \in Int
    BY <1>6 DEF SchedInv, SchedType
  <2>2. \A x \in DOMAIN claims' : x \in Nat /\ claims'[x] \in Nat /\ claims'[x] <= now
    BY <1>13 DEF SchedInv, SchedType
  <2> QED
    BY <1>1, <1>2, <1>6, <1>13, <2>1, <2>2 DEF SchedInv, SchedType
<1>19. Filed'
  <2>1. \A i \in DOMAIN events' : events'[i].id <= created
    BY <1>2 DEF SchedInv, Filed
  <2> QED
    BY <1>1, <1>15, <2>1 DEF SchedInv, Filed
<1>20. Slots'
  <2>1. ASSUME NEW i \in DOMAIN file PROVE SlotAt(i)'
    <3>1. /\ SlotAt(i) /\ file[i].id \in Nat /\ file[i].id > 0 /\ file[i].next \in Nat
          /\ file'[i].id = file[i].id
      BY <1>f, <1>15
    <3>2. CASE file[i].id # id0
      <4>1. file'[i] = file[i]
        BY <1>15, <3>2
      <4> QED
        BY <1>1, <1>12, <3>1, <3>2, <4>1 DEF SlotAt
    <3>3. CASE file[i].id = id0
      <4>0. PICK x : x = file[i].id
        OBVIOUS
      <4>1. Open(id0) /\ ~Open(x)'
        BY <1>10, <1>12, <3>1, <3>3, <4>0
      <4>2. sweep.at # "start"
        BY <1>5, <4>1 DEF SchedInv, OneOpen
      <4>3. \/ ~file'[i].enabled /\ file'[i].next = file[i].next
            \/ file'[i].next > file[i].next
        BY <1>15, <3>3
      <4>4. file'[i].next \in Nat
        <5>1. file'[i] \in Entry
          BY <1>15
        <5> QED
          BY <5>1 DEF Entry
      <4>5. \A d \in done : d[2] \in Nat
        BY DEF SchedInv, Filed
      <4>6. \A d \in done' : d[1] = file'[i].id => d[2] <= file'[i].next
        BY <1>1, <3>1, <4>3, <4>4, <4>5 DEF SlotAt
      <4>7. ~(file'[i].enabled /\ <<file'[i].id, file'[i].next>> \in done')
        BY <1>1, <3>1, <4>3, <4>4 DEF SlotAt
      <4>8. turn'.id = file'[i].id => turn'.slot <= file'[i].next
        <5>1. turn.slot \in Nat
          BY DEF SchedInv, SchedType, Started
        <5> QED
          BY <1>1, <3>1, <4>3, <4>4, <5>1 DEF SlotAt
      <4>9. ~Open(file[i].id)'
        BY <3>1, <4>0, <4>1 DEF Open
      <4> HIDE DEF id0, n0, at0
      <4> QED
        BY <1>1, <3>1, <4>2, <4>6, <4>7, <4>8, <4>9 DEF SlotAt
    <3> QED
      BY <3>2, <3>3
  <2> QED
    BY <1>1, <1>15, <2>1 DEF SchedInv, Slots
<1>21. Sched!MovesPastClaim
  BY <1>15 DEF Sched!MovesPastClaim, SchedInv, Filed
<1> QED
  BY <1>8, <1>9, <1>16, <1>17, <1>18, <1>19, <1>20, <1>21 DEF SchedInv

\* The turn is counted down; time passes; the loop protocol is switched; the
\* server starts again.
LEMMA SchedEndTurn ==
    ASSUME SchedInv, Sched!EndTurn
    PROVE  SchedInv'
<1>1. /\ ending /\ ending' = FALSE /\ active' = active - 1
      /\ UNCHANGED <<file, sweep, claims, turn, events, seen, turns, done, created, now>>
  BY DEF Sched!EndTurn, Sched!editVars
<1>2. active \in Nat /\ active > 0 /\ turns \in Nat /\ active <= turns
  BY <1>1 DEF SchedInv, SchedType, Counted
<1>3. Low' = Low
  BY <1>1, <1>2 DEF Low
<1>4. Counted'
  BY <1>1, <1>2, <1>3 DEF SchedInv, Counted, Ends
<1>5. SchedType'
  <2>1. active' \in Nat
    BY <1>1, <1>2
  <2>2. ending' \in BOOLEAN
    BY <1>1
  <2> QED
    BY <1>1, <2>1, <2>2 DEF SchedInv, SchedType
<1>c. Filed'
  BY <1>1 DEF SchedInv, Filed
<1>a. Numbered'
  BY <1>1 DEF SchedInv, Numbered, Ends, Tells
<1>b. OneOpen'
  BY <1>1 DEF SchedInv, OneOpen, Open, Ends
<1>6. Backed'
  BY <1>1 DEF SchedInv, Backed, Open, Ends, Tells
<1>7. Slots'
  <2>1. ASSUME NEW i \in DOMAIN file PROVE SlotAt(i)'
    BY <1>1 DEF SchedInv, Slots, SlotAt, Open, Ends
  <2> QED
    BY <1>1, <2>1 DEF SchedInv, Slots
<1> QED
  BY <1>4, <1>5, <1>6, <1>7, <1>a, <1>b, <1>c DEF SchedInv

LEMMA SchedTick ==
    ASSUME SchedInv, Sched!Tick
    PROVE  SchedInv'
<1>1. /\ now' = now + 1
      /\ UNCHANGED <<file, sweep, claims, turn, events, active, seen, ending, turns, done, created>>
  BY DEF Sched!Tick
<1>2. now \in Nat /\ sweep.time \in Nat
  BY DEF SchedInv, SchedType, Sweeps
<1>3. Numbered' /\ Counted' /\ Backed' /\ OneOpen' /\ \A x : Open(x)' <=> Open(x)
  BY <1>1, PipeKept DEF Pipe
<1>4. SchedType' /\ Filed'
  BY <1>1, <1>2 DEF SchedInv, SchedType, Filed
<1>5. Slots'
  <2>1. ASSUME NEW i \in DOMAIN file PROVE SlotAt(i)'
    <3>1. SlotAt(i) /\ file[i].next \in Nat
      <4>1. file[i] \in Entry
        BY DEF SchedInv, Filed
      <4> QED
        BY <4>1 DEF SchedInv, Slots, Entry
    <3> QED
      BY <1>1, <1>2, <3>1 DEF SlotAt, Open, Ends
  <2> QED
    BY <1>1, <2>1 DEF SchedInv, Slots
<1> QED
  BY <1>3, <1>4, <1>5 DEF SchedInv

LEMMA SchedSame ==
    ASSUME SchedInv,
           UNCHANGED <<file, created, now, sweep, claims, turn, events, active, seen, ending,
                       turns, done>>
    PROVE  SchedInv'
<1>1. Numbered' /\ Counted' /\ Backed' /\ OneOpen' /\ \A x : Open(x)' <=> Open(x)
  BY PipeKept DEF Pipe
<1>2. SchedType' /\ Filed'
  BY DEF SchedInv, SchedType, Filed
<1>3. Slots'
  <2>1. ASSUME NEW i \in DOMAIN file PROVE SlotAt(i)'
    BY DEF SchedInv, Slots, SlotAt, Open, Ends
  <2> QED
    BY <2>1 DEF SchedInv, Slots
<1> QED
  BY <1>1, <1>2, <1>3 DEF SchedInv

\* A server that starts knows the file and nothing else.
LEMMA SchedFresh ==
    ASSUME file \in Seq(Entry), created \in Nat, now \in Nat, turns \in Nat,
           \A i \in DOMAIN file : file[i].id \in 1..created,
           \A i, j \in DOMAIN file : file[i].id = file[j].id => i = j,
           sweep = Sched!SweepIdle, claims = Sched!Nothing, turn = Sched!NoTurn,
           events = <<>>, active = 0, seen = Sched!Nothing, ending = FALSE, done = {}
    PROVE  SchedInv
<1>1. /\ turn.n = 0 /\ turn.id = 0 /\ turn.slot = 0 /\ turn.told = FALSE
      /\ turn \in Started
  BY DEF Sched!NoTurn, Started
<1>2. sweep.at = "idle" /\ sweep.id = 0 /\ sweep.time = 0 /\ sweep \in Sweeps
  BY DEF Sched!SweepIdle, Sweeps
<1>3. DOMAIN events = {} /\ events \in Seq(Event)
  OBVIOUS
<1>4. DOMAIN claims = {} /\ DOMAIN seen = {} /\ claims = seen
  BY DEF Sched!Nothing
<1>5. claims = [x \in DOMAIN claims |-> claims[x]] /\ seen = [n \in DOMAIN seen |-> seen[n]]
  BY DEF Sched!Nothing
<1>6. SchedType
  <2>1. active \in Nat /\ sweep.time <= now
    BY <1>2
  <2>2. ending \in BOOLEAN
    OBVIOUS
  <2> QED
    BY <1>1, <1>2, <1>3, <1>4, <1>5, <2>1, <2>2 DEF SchedType
<1>7. Numbered /\ Counted /\ Backed
  BY <1>1, <1>3, <1>4 DEF Numbered, Counted, Low, Backed
<1>8. \A x : ~Open(x)
  BY <1>1, <1>3 DEF Open
<1>9. OneOpen /\ Filed
  BY <1>1, <1>2, <1>3, <1>8 DEF OneOpen, Filed
<1>10. Slots
  <2>1. ASSUME NEW i \in DOMAIN file PROVE SlotAt(i)
    BY <1>1, <1>2, <1>8 DEF SlotAt
  <2> QED
    BY <1>2, <2>1 DEF Slots
<1> QED
  BY <1>6, <1>7, <1>9, <1>10 DEF SchedInv

LEMMA SchedRestarts ==
    ASSUME SchedInv, Sched!Restart
    PROVE  SchedInv'
<1>1. /\ sweep' = Sched!SweepIdle /\ claims' = Sched!Nothing /\ turn' = Sched!NoTurn
      /\ events' = <<>> /\ active' = 0 /\ seen' = Sched!Nothing /\ ending' = FALSE /\ done' = {}
      /\ UNCHANGED <<file, created, now, turns>>
  BY DEF Sched!Restart
<1>2. /\ file \in Seq(Entry) /\ created \in Nat /\ now \in Nat /\ turns \in Nat
      /\ \A i \in DOMAIN file : file[i].id \in 1..created
      /\ \A i, j \in DOMAIN file : file[i].id = file[j].id => i = j
  BY DEF SchedInv, SchedType, Filed
<1>3. /\ turn'.n = 0 /\ turn'.id = 0 /\ turn'.slot = 0 /\ turn'.told = FALSE
      /\ turn' \in Started
  BY <1>1 DEF Sched!NoTurn, Started
<1>4. sweep'.at = "idle" /\ sweep'.id = 0 /\ sweep'.time = 0 /\ sweep' \in Sweeps
  BY <1>1 DEF Sched!SweepIdle, Sweeps
<1>5. DOMAIN events' = {} /\ events' \in Seq(Event)
  BY <1>1
<1>6. DOMAIN claims' = {} /\ DOMAIN seen' = {} /\ claims' = seen'
      /\ claims' = [x \in DOMAIN claims' |-> claims'[x]]
      /\ seen' = [n \in DOMAIN seen' |-> seen'[n]]
  BY <1>1 DEF Sched!Nothing
<1>7. SchedType'
  <2>1. active' \in Nat /\ sweep'.time <= now'
    BY <1>1, <1>2, <1>4
  <2>2. ending' \in BOOLEAN
    BY <1>1
  <2> QED
    BY <1>1, <1>2, <1>3, <1>4, <1>5, <1>6, <2>1, <2>2 DEF SchedType
<1>8. Numbered' /\ Counted' /\ Backed'
  BY <1>1, <1>2, <1>3, <1>5, <1>6 DEF Numbered, Counted, Low, Backed
<1>9. \A x : ~Open(x)'
  BY <1>3, <1>5 DEF Open
<1>10. OneOpen' /\ Filed'
  BY <1>1, <1>2, <1>3, <1>4, <1>5, <1>9 DEF OneOpen, Filed
<1>11. Slots'
  <2>1. ASSUME NEW i \in DOMAIN file PROVE SlotAt(i)'
    BY <1>1, <1>2, <1>3, <1>4, <1>5 DEF SlotAt, Open
  <2> QED
    BY <1>1, <1>4, <2>1 DEF Slots
<1> QED
  BY <1>7, <1>8, <1>10, <1>11 DEF SchedInv

LEMMA SchedInit ==
    ASSUME Sched!ScheduleAssumption, Sched!Init
    PROVE  SchedInv
<1>1. file \in Seq(Entry) /\ DOMAIN file = {}
  BY DEF Sched!Init
<1>2. turns \in Nat /\ created \in Nat /\ now \in Nat
  BY DEF Sched!Init
<1>3. /\ \A i \in DOMAIN file : file[i].id \in 1..created
      /\ \A i, j \in DOMAIN file : file[i].id = file[j].id => i = j
  BY <1>1
<1> QED
  BY <1>1, <1>2, <1>3, SchedFresh DEF Sched!Init

\* A schedule that moves is left alone or the one whose turn is recorded.
LEMMA Unmoved ==
    ASSUME SchedInv,
           \A i \in DOMAIN file : i \in DOMAIN file' /\ file'[i].id = file[i].id
                                    => file'[i].next = file[i].next
    PROVE  Sched!MovesPastClaim
<1>1. DOMAIN file = 1..Len(file)
  BY DEF SchedInv, Filed
<1>2. ASSUME NEW i \in 1..Len(file), file' # file, i \in 1..Len(file'),
             file'[i].id = file[i].id, file'[i].next # file[i].next
      PROVE  FALSE
  BY <1>1, <1>2
<1> QED
  BY <1>2 DEF Sched!MovesPastClaim

\* Every step keeps the invariant, starts no turn for a slot that is done, and
\* moves no schedule behind its claim.
LEMMA SchedSteps ==
    ASSUME Sched!ScheduleAssumption, SchedInv, [Sched!Next]_(Sched!vars)
    PROVE  SchedInv' /\ Sched!SlotRunsOnce /\ Sched!MovesPastClaim
<1>1. ASSUME NEW kind \in Sched!Kinds, NEW every \in Intervals, Sched!Create(kind, every)
      PROVE  SchedInv' /\ Sched!SlotRunsOnce /\ Sched!MovesPastClaim
  <2>1. SchedInv'
    BY <1>1, SchedCreate
  <2>2. UNCHANGED turn
    BY <1>1 DEF Sched!Create
  <2>3. \A i \in DOMAIN file : file'[i] = file[i]
    <3>1. PICK e : file' = Append(file, e)
      BY <1>1 DEF Sched!Create
    <3> QED
      BY <3>1 DEF SchedInv, Filed
  <2> QED
    BY <2>1, <2>2, <2>3, Unmoved DEF Sched!SlotRunsOnce
<1>2. ASSUME NEW id \in Sched!Ids, NEW on \in BOOLEAN, Sched!Update(id, on)
      PROVE  SchedInv' /\ Sched!SlotRunsOnce /\ Sched!MovesPastClaim
  <2>1. SchedInv'
    BY <1>2, SchedUpdate
  <2>2. UNCHANGED turn
    BY <1>2 DEF Sched!Update
  <2>3. \A i \in DOMAIN file : file'[i].next = file[i].next
    <3>1. file' = [i \in 1..Len(file) |->
                     IF file[i].id = id THEN [file[i] EXCEPT !.enabled = on] ELSE file[i]]
      BY <1>2 DEF Sched!Update, Sched!Change
    <3>2. \A e \in Entry : [e EXCEPT !.enabled = on].next = e.next
      BY DEF Entry
    <3>3. DOMAIN file = 1..Len(file) /\ \A i \in DOMAIN file : file[i] \in Entry
      BY DEF SchedInv, Filed
    <3> QED
      BY <3>1, <3>2, <3>3
  <2> QED
    BY <2>1, <2>2, <2>3, Unmoved DEF Sched!SlotRunsOnce
<1>3. ASSUME NEW id \in Sched!Ids, Sched!Delete(id)
      PROVE  SchedInv' /\ Sched!SlotRunsOnce /\ Sched!MovesPastClaim
  <2>1. UNCHANGED turn
    BY <1>3 DEF Sched!Delete
  <2> QED
    BY <1>3, <2>1, SchedDelete, Unmoved DEF Sched!SlotRunsOnce
<1>4. ASSUME Sched!LoopSwitch \/ UNCHANGED Sched!vars
      PROVE  SchedInv' /\ Sched!SlotRunsOnce /\ Sched!MovesPastClaim
  <2>1. UNCHANGED <<file, created, now, sweep, claims, turn, events, active, seen, ending,
                    turns, done>>
    BY <1>4 DEF Sched!LoopSwitch, Sched!vars
  <2> QED
    BY <2>1, SchedSame, Unmoved DEF Sched!SlotRunsOnce
<1>5. ASSUME Sched!Tick PROVE SchedInv' /\ Sched!SlotRunsOnce /\ Sched!MovesPastClaim
  <2>1. UNCHANGED <<turn, file>>
    BY <1>5 DEF Sched!Tick
  <2> QED
    BY <1>5, <2>1, SchedTick, Unmoved DEF Sched!SlotRunsOnce
<1>6. ASSUME Sched!UserTurn PROVE SchedInv' /\ Sched!SlotRunsOnce /\ Sched!MovesPastClaim
  <2>1. UNCHANGED file
    BY <1>6 DEF Sched!UserTurn
  <2> QED
    BY <1>6, <2>1, SchedUserTurn, Unmoved DEF Sched!SlotRunsOnce
<1>7. ASSUME Sched!Restart PROVE SchedInv' /\ Sched!SlotRunsOnce /\ Sched!MovesPastClaim
  <2>1. UNCHANGED file /\ turn' = Sched!NoTurn
    BY <1>7 DEF Sched!Restart
  <2> QED
    BY <1>7, <2>1, SchedRestarts, Unmoved DEF Sched!SlotRunsOnce
<1>8. ASSUME Sched!SweepBegins \/ Sched!SweepLooks
      PROVE  SchedInv' /\ Sched!SlotRunsOnce /\ Sched!MovesPastClaim
  <2>1. UNCHANGED <<turn, file>>
    BY <1>8 DEF Sched!SweepBegins, Sched!SweepLooks
  <2> QED
    BY <1>8, <2>1, SchedSweeps, Unmoved DEF Sched!SlotRunsOnce
<1>9. ASSUME Sched!SweepClaims PROVE SchedInv' /\ Sched!SlotRunsOnce /\ Sched!MovesPastClaim
  <2>1. UNCHANGED turn
    BY <1>9 DEF Sched!SweepClaims
  <2> QED
    BY <1>9, <2>1, SchedClaims, Unmoved DEF Sched!SlotRunsOnce
<1>10. ASSUME Sched!SweepStarts PROVE SchedInv' /\ Sched!SlotRunsOnce /\ Sched!MovesPastClaim
  <2>1. UNCHANGED file
    BY <1>10 DEF Sched!SweepStarts
  <2> QED
    BY <1>10, <2>1, SchedStarts, Unmoved DEF Sched!SlotRunsOnce
<1>11. ASSUME Sched!SweepFails PROVE SchedInv' /\ Sched!SlotRunsOnce /\ Sched!MovesPastClaim
  <2>1. UNCHANGED turn
    BY <1>11 DEF Sched!SweepFails
  <2> QED
    BY <1>11, <2>1, SchedFails DEF Sched!SlotRunsOnce, Sched!MovesPastClaim
<1>12. ASSUME Sched!PublishUserMessage
       PROVE  SchedInv' /\ Sched!SlotRunsOnce /\ Sched!MovesPastClaim
  <2>1. UNCHANGED file
    BY <1>12 DEF Sched!PublishUserMessage
  <2> QED
    BY <1>12, <2>1, SchedTells, Unmoved DEF Sched!SlotRunsOnce
<1>13. ASSUME NEW reason \in {"completed", "cancelled", "error"}, Sched!PublishTurnEnd(reason)
       PROVE  SchedInv' /\ Sched!SlotRunsOnce /\ Sched!MovesPastClaim
  <2>1. UNCHANGED file /\ turn' = Sched!NoTurn
    BY <1>13 DEF Sched!PublishTurnEnd
  <2> QED
    BY <1>13, <2>1, SchedEnds, Unmoved DEF Sched!SlotRunsOnce
<1>14. ASSUME Sched!ObserveUserMessage
       PROVE  SchedInv' /\ Sched!SlotRunsOnce /\ Sched!MovesPastClaim
  <2>1. UNCHANGED <<turn, file>>
    BY <1>14 DEF Sched!ObserveUserMessage
  <2> QED
    BY <1>14, <2>1, SchedObserves, Unmoved DEF Sched!SlotRunsOnce
<1>15. ASSUME Sched!CompleteTurn
       PROVE  SchedInv' /\ Sched!SlotRunsOnce /\ Sched!MovesPastClaim
  <2>1. UNCHANGED turn
    BY <1>15 DEF Sched!CompleteTurn
  <2> QED
    BY <1>15, <2>1, SchedCompletes DEF Sched!SlotRunsOnce
<1>16. ASSUME Sched!EndTurn PROVE SchedInv' /\ Sched!SlotRunsOnce /\ Sched!MovesPastClaim
  <2>1. UNCHANGED <<turn, file>>
    BY <1>16 DEF Sched!EndTurn
  <2> QED
    BY <1>16, <2>1, SchedEndTurn, Unmoved DEF Sched!SlotRunsOnce
<1> QED
  BY <1>1, <1>2, <1>3, <1>4, <1>5, <1>6, <1>7, <1>8, <1>9, <1>10, <1>11, <1>12, <1>13,
     <1>14, <1>15, <1>16 DEF Sched!Next, Sched!Sweep, Sched!Work

\* A slot whose turn completed does not run again, and a schedule that ran
\* moves past the instant it was claimed at (claimNextDueSessionSchedule,
\* completeScheduledTurn and Session.endTurn, whatever comes between them).
THEOREM SlotRunsOnceCorrect ==
    ASSUME Sched!ScheduleAssumption
    PROVE  Sched!Spec => [][Sched!SlotRunsOnce /\ Sched!MovesPastClaim]_(Sched!vars)
<1>1. Sched!Init => SchedInv
  BY SchedInit
<1>2. SchedInv /\ [Sched!Next]_(Sched!vars) => SchedInv'
  BY SchedSteps
<1>3. SchedInv /\ [Sched!Next]_(Sched!vars) => [Sched!SlotRunsOnce /\ Sched!MovesPastClaim]_(Sched!vars)
  BY SchedSteps
<1> QED
  BY <1>1, <1>2, <1>3, PTL DEF Sched!Spec

\* When no turn and no event of one is left, no claim and no half-observed turn
\* is either (scheduleClaims and scheduleTurns, session_schedules.go).
THEOREM QuietIsCleanCorrect ==
    ASSUME Sched!ScheduleAssumption
    PROVE  Sched!Spec => []Sched!QuietIsClean
<1>1. Sched!Init => SchedInv
  BY SchedInit
<1>2. SchedInv /\ [Sched!Next]_(Sched!vars) => SchedInv'
  BY SchedSteps
<1>3. SchedInv => Sched!QuietIsClean
  <2> SUFFICES ASSUME SchedInv, turn = Sched!NoTurn, events = <<>>
               PROVE  claims = Sched!Nothing /\ seen = Sched!Nothing
    BY DEF Sched!QuietIsClean
  <2>1. turn.id = 0 /\ turn.told = FALSE /\ DOMAIN events = {}
    BY DEF Sched!NoTurn
  <2>2. DOMAIN claims = {}
    <3>1. \A x : ~Open(x)
      BY <2>1 DEF Open
    <3> QED
      BY <3>1 DEF SchedInv, Backed
  <2>5. DOMAIN seen = {}
    BY <2>1 DEF SchedInv, Backed
  <2>3. claims = [x \in DOMAIN claims |-> claims[x]] /\ seen = [n \in DOMAIN seen |-> seen[n]]
    BY DEF SchedInv, SchedType
  <2>4. claims = [x \in {} |-> claims[x]] /\ seen = [n \in {} |-> seen[n]]
    BY <2>2, <2>3, <2>5
  <2> QED
    BY <2>4 DEF Sched!Nothing
<1> QED
  BY <1>1, <1>2, <1>3, PTL DEF Sched!Spec
-----------------------------------------------------------------------------
(* The account's SSH key, for any readers R, legacy files L, failures F and *)
(* crashes C.                                                               *)

FileNames == {"priv", "pub", "oldPriv", "oldPub"}

\* A copy of the legacy key is at the new place, or about to be written there.
Held(R) ==
    \/ file["priv"] = 1
    \/ file["priv"] = 0 /\ \E b \in Ensurers \union R : pc[b] = "writePriv" /\ raw[b] = 1

\* There was a key, 1, and no other is made.
MovedType(R) ==
    /\ file \in [FileNames -> {-1, 0, 1}]
    /\ file["oldPriv"] # 0 /\ file["oldPub"] # 0
    /\ pc \in [Ensurers \union R ->
                 {"idle", "checkNew", "checkOld", "copyPriv", "createPriv", "writePriv",
                  "copyPub", "createPub", "writePub", "dropOld",
                  "readPub", "checkPriv", "createOwn", "writeOwn"}]
    /\ raw \in [Ensurers \union R -> Int]

MovedKept(R) ==
    /\ Held(R) \/ file["oldPriv"] = 1
    /\ \A a \in Ensurers \union R :
         /\ pc[a] \in {"copyPub", "createPub", "writePub", "dropOld"} => Held(R)
         /\ pc[a] \in {"createPriv", "writePriv", "createPub", "writePub",
                       "createOwn", "writeOwn"} => raw[a] = 1
         /\ pc[a] \in {"readPub", "checkPriv", "createOwn", "writeOwn"} =>
              file["priv"] # -1

\* With unlocked readers nothing fails, and a new file is the key's copy; else
\* the ensurers work one by one.
MovedFree(R) == file["priv"] # -1 => Held(R)

MovedAlone(R) ==
    \A a \in Ensurers \union R :
      /\ pc[a] # "idle" => mu = a
      /\ pc[a] \in {"checkOld", "copyPriv", "createPriv"} => file["priv"] = -1
      /\ pc[a] \in {"createPriv", "writePriv"} => file["oldPriv"] = 1

MovedInv(R, F, C) ==
    /\ MovedType(R) /\ MovedKept(R)
    /\ \/ ~F /\ ~C /\ MovedFree(R)
       \/ R = {} /\ MovedAlone(R)

LEMMA MovedInit ==
    ASSUME NEW R, NEW L, NEW F, NEW C, Key(R, L, F, C)!AccountsAssumption,
           L # "none", R = {} \/ (~F /\ ~C), Key(R, L, F, C)!Init
    PROVE  MovedInv(R, F, C)
<1>1. /\ file = [priv |-> -1, pub |-> -1, oldPriv |-> 1,
                 oldPub |-> IF L = "pair" THEN 1 ELSE -1]
      /\ pc = [a \in Ensurers \union R |-> "idle"]
      /\ raw = [a \in Ensurers \union R |-> -1]
  BY DEF Key!Init, Key!Absent, Key!Actors
<1>2. MovedType(R)
  BY <1>1 DEF MovedType, FileNames
<1>3. MovedKept(R)
  BY <1>1 DEF MovedKept
<1>4. MovedAlone(R) /\ file["priv"] = -1
  BY <1>1 DEF MovedAlone
<1> QED
  BY <1>2, <1>3, <1>4 DEF MovedInv, MovedFree

\* Readers in between, and nothing fails.
LEMMA MovedFreely ==
    ASSUME NEW R, NEW L, NEW F, NEW C, Key(R, L, F, C)!AccountsAssumption,
           L # "none", ~F, ~C,
           MovedType(R), MovedKept(R), MovedFree(R),
           [Key(R, L, F, C)!Next]_(Key(R, L, F, C)!vars)
    PROVE  MovedType(R)' /\ MovedKept(R)' /\ MovedFree(R)'
<1> USE DEF MovedType, MovedKept, MovedFree, Held, FileNames, Key!Absent, Key!Empty,
            Key!Actors, Key!AccountsAssumption
<1>1. ASSUME NEW a \in Ensurers \union R, Key(R, L, F, C)!Enter(a)
      PROVE  MovedType(R)' /\ MovedKept(R)' /\ (MovedFree(R))'
  BY <1>1 DEF Key!Enter, Key!Go
<1>2. ASSUME NEW a \in Ensurers \union R, Key(R, L, F, C)!CheckNew(a)
      PROVE  MovedType(R)' /\ MovedKept(R)' /\ (MovedFree(R))'
  BY <1>2 DEF Key!CheckNew, Key!Go, Key!Look, Key!Exists, Key!Next1
<1>3. ASSUME NEW a \in Ensurers \union R, Key(R, L, F, C)!CheckOld(a)
      PROVE  MovedType(R)' /\ MovedKept(R)' /\ (MovedFree(R))'
  BY <1>3 DEF Key!CheckOld, Key!Go, Key!Look, Key!Exists, Key!Next1
<1>4. ASSUME NEW a \in Ensurers \union R, Key(R, L, F, C)!CopyPriv(a)
      PROVE  MovedType(R)' /\ MovedKept(R)' /\ (MovedFree(R))'
  BY <1>4 DEF Key!CopyPriv, Key!Copy, Key!Exists, Key!Leave
<1>5. ASSUME NEW a \in Ensurers \union R, Key(R, L, F, C)!CreatePriv(a)
      PROVE  MovedType(R)' /\ MovedKept(R)' /\ (MovedFree(R))'
  BY <1>5 DEF Key!CreatePriv, Key!Create, Key!Exists, Key!Leave, Key!Set
<1>6. ASSUME NEW a \in Ensurers \union R, Key(R, L, F, C)!WritePriv(a)
      PROVE  MovedType(R)' /\ MovedKept(R)' /\ (MovedFree(R))'
  <2>1. CASE Key(R, L, F, C)!Write(a, "writePriv", "priv", "copyPub")
    <3>1. /\ file' = [file EXCEPT !["priv"] = 1] /\ pc[a] = "writePriv"
          /\ pc' = [pc EXCEPT ![a] = "copyPub"] /\ UNCHANGED <<raw, mu>>
      BY <2>1 DEF Key!Write, Key!Go, Key!Set
    <3> QED
      BY <3>1
  <2>2. CASE Key(R, L, F, C)!WriteFails(a, "writePriv", "priv", FALSE)
    <3>1. /\ file' = [file EXCEPT !["priv"] = -1] /\ pc[a] = "writePriv" /\ F
          /\ pc' = [pc EXCEPT ![a] = "idle"] /\ raw' = raw
      BY <2>2 DEF Key!WriteFails
    <3>2. mu' = IF mu = a THEN "none" ELSE mu
      BY <2>2 DEF Key!WriteFails, Key!Leave
    <3> QED
      BY <3>1, <3>2
  <2> QED
    BY <1>6, <2>1, <2>2 DEF Key!WritePriv
<1>7. ASSUME NEW a \in Ensurers \union R, Key(R, L, F, C)!CopyPub(a)
      PROVE  MovedType(R)' /\ MovedKept(R)' /\ (MovedFree(R))'
  BY <1>7 DEF Key!CopyPub, Key!Copy, Key!Exists, Key!Leave, Key!Go,
     Key!Look
<1>8. ASSUME NEW a \in Ensurers \union R, Key(R, L, F, C)!CreatePub(a)
      PROVE  MovedType(R)' /\ MovedKept(R)' /\ (MovedFree(R))'
  BY <1>8 DEF Key!CreatePub, Key!Create, Key!Exists, Key!Leave, Key!Set
<1>9. ASSUME NEW a \in Ensurers \union R, Key(R, L, F, C)!WritePub(a)
      PROVE  MovedType(R)' /\ MovedKept(R)' /\ (MovedFree(R))'
  <2>1. CASE Key(R, L, F, C)!Write(a, "writePub", "pub", "dropOld")
    <3>1. /\ file' = [file EXCEPT !["pub"] = 1] /\ pc[a] = "writePub"
          /\ pc' = [pc EXCEPT ![a] = "dropOld"] /\ UNCHANGED <<raw, mu>>
      BY <2>1 DEF Key!Write, Key!Go, Key!Set
    <3> QED
      BY <3>1
  <2>2. CASE Key(R, L, F, C)!WriteFails(a, "writePub", "pub", FALSE)
    <3>1. /\ file' = [file EXCEPT !["pub"] = -1] /\ pc[a] = "writePub" /\ F
          /\ pc' = [pc EXCEPT ![a] = "idle"] /\ raw' = raw
      BY <2>2 DEF Key!WriteFails
    <3>2. mu' = IF mu = a THEN "none" ELSE mu
      BY <2>2 DEF Key!WriteFails, Key!Leave
    <3> QED
      BY <3>1, <3>2
  <2> QED
    BY <1>9, <2>1, <2>2 DEF Key!WritePub
<1>10. ASSUME NEW a \in Ensurers \union R, Key(R, L, F, C)!DropOld(a)
      PROVE  MovedType(R)' /\ MovedKept(R)' /\ (MovedFree(R))'
  <2>1. /\ file' = [file EXCEPT !["oldPub"] = -1, !["oldPriv"] = -1]
        /\ pc[a] = "dropOld" /\ UNCHANGED <<raw, mu>>
        /\ pc' = [pc EXCEPT ![a] = IF a \in Ensurers THEN "readPub" ELSE "idle"]
    BY <1>10 DEF Key!DropOld, Key!Go, Key!Next1
  <2>2. /\ file' \in [FileNames -> {-1, 0, 1}]
        /\ file'["priv"] = file["priv"] /\ file'["oldPriv"] = -1 /\ file'["oldPub"] = -1
    BY <2>1
  <2> QED
    BY <2>1, <2>2
<1>11. ASSUME NEW a \in Ensurers \union R, Key(R, L, F, C)!ReadPub(a)
      PROVE  MovedType(R)' /\ MovedKept(R)' /\ (MovedFree(R))'
  BY <1>11 DEF Key!ReadPub, Key!Whole, Key!Leave
<1>12. ASSUME NEW a \in Ensurers \union R, Key(R, L, F, C)!CheckPriv(a)
      PROVE  MovedType(R)' /\ MovedKept(R)' /\ (MovedFree(R))'
  BY <1>12 DEF Key!CheckPriv, Key!Exists, Key!Whole, Key!Leave
<1>13. ASSUME NEW a \in Ensurers \union R, Key(R, L, F, C)!Generate(a)
      PROVE  MovedType(R)' /\ MovedKept(R)' /\ (MovedFree(R))'
  BY <1>13 DEF Key!Generate, Key!Go
<1>14. ASSUME NEW a \in Ensurers \union R, Key(R, L, F, C)!CreateNew(a)
      PROVE  MovedType(R)' /\ MovedKept(R)' /\ (MovedFree(R))'
  BY <1>14 DEF Key!CreateNew, Key!Create
<1>15. ASSUME NEW a \in Ensurers \union R, Key(R, L, F, C)!WriteNew(a)
      PROVE  MovedType(R)' /\ MovedKept(R)' /\ (MovedFree(R))'
  BY <1>15 DEF Key!WriteNew, Key!Write, Key!WriteFails, Key!Go
<1>16. ASSUME NEW a \in Ensurers \union R, Key(R, L, F, C)!CreateOwn(a)
      PROVE  MovedType(R)' /\ MovedKept(R)' /\ (MovedFree(R))'
  BY <1>16 DEF Key!CreateOwn, Key!Create, Key!Exists, Key!Leave, Key!Set
<1>17. ASSUME NEW a \in Ensurers \union R, Key(R, L, F, C)!WriteOwn(a)
      PROVE  MovedType(R)' /\ MovedKept(R)' /\ (MovedFree(R))'
  <2>1. PICK new \in BOOLEAN :
          LET here == IF new THEN "writeOwnNew" ELSE "writeOwn" IN
          \/ /\ pc[a] = here /\ pc' = [pc EXCEPT ![a] = "idle"]
             /\ Key(R, L, F, C)!Leave(a) /\ Key(R, L, F, C)!Set("pub", raw[a])
             /\ UNCHANGED raw
          \/ Key(R, L, F, C)!WriteFails(a, here, "pub", new)
    BY <1>17 DEF Key!WriteOwn
  <2>2. ~new /\ pc[a] = "writeOwn"
    BY <2>1 DEF Key!WriteFails
  <2>3. /\ pc' = [pc EXCEPT ![a] = "idle"] /\ raw' = raw
        /\ mu' = IF mu = a THEN "none" ELSE mu
        /\ file' = [file EXCEPT !["pub"] = 1] \/ file' = [file EXCEPT !["pub"] = -1]
    BY <2>1, <2>2 DEF Key!WriteFails, Key!Leave, Key!Set
  <2> QED
    BY <2>2, <2>3
<1>18. CASE Key(R, L, F, C)!Crash
  BY <1>18 DEF Key!Crash
<1>19. CASE UNCHANGED Key(R, L, F, C)!vars
  BY <1>19 DEF Key!vars
<1> HIDE DEF MovedType, MovedKept, MovedFree, Held
<1> QED
  BY <1>1, <1>2, <1>3, <1>4, <1>5, <1>6, <1>7, <1>8, <1>9, <1>10, <1>11,
     <1>12, <1>13, <1>14, <1>15, <1>16, <1>17, <1>18, <1>19 DEF Key!Next,
     Key!Migrate, Key!Ensure, Key!Actors

\* The ensurers alone, and anything may fail.
LEMMA MovedOneByOne ==
    ASSUME NEW R, NEW L, NEW F, NEW C, Key(R, L, F, C)!AccountsAssumption,
           L # "none", R = {},
           MovedType(R), MovedKept(R), MovedAlone(R),
           [Key(R, L, F, C)!Next]_(Key(R, L, F, C)!vars)
    PROVE  MovedType(R)' /\ MovedKept(R)' /\ MovedAlone(R)'
<1> USE DEF MovedType, MovedKept, MovedAlone, Held, FileNames, Key!Absent, Key!Empty,
            Key!Actors, Key!AccountsAssumption
<1>1. ASSUME NEW a \in Ensurers \union R, Key(R, L, F, C)!Enter(a)
      PROVE  MovedType(R)' /\ MovedKept(R)' /\ (MovedAlone(R))'
  BY <1>1 DEF Key!Enter, Key!Go
<1>2. ASSUME NEW a \in Ensurers \union R, Key(R, L, F, C)!CheckNew(a)
      PROVE  MovedType(R)' /\ MovedKept(R)' /\ (MovedAlone(R))'
  BY <1>2 DEF Key!CheckNew, Key!Go, Key!Look, Key!Exists, Key!Next1
<1>3. ASSUME NEW a \in Ensurers \union R, Key(R, L, F, C)!CheckOld(a)
      PROVE  MovedType(R)' /\ MovedKept(R)' /\ (MovedAlone(R))'
  BY <1>3 DEF Key!CheckOld, Key!Go, Key!Look, Key!Exists, Key!Next1
<1>4. ASSUME NEW a \in Ensurers \union R, Key(R, L, F, C)!CopyPriv(a)
      PROVE  MovedType(R)' /\ MovedKept(R)' /\ (MovedAlone(R))'
  BY <1>4 DEF Key!CopyPriv, Key!Copy, Key!Exists, Key!Leave
<1>5. ASSUME NEW a \in Ensurers \union R, Key(R, L, F, C)!CreatePriv(a)
      PROVE  MovedType(R)' /\ MovedKept(R)' /\ (MovedAlone(R))'
  BY <1>5 DEF Key!CreatePriv, Key!Create, Key!Exists, Key!Leave, Key!Set
<1>6. ASSUME NEW a \in Ensurers \union R, Key(R, L, F, C)!WritePriv(a)
      PROVE  MovedType(R)' /\ MovedKept(R)' /\ (MovedAlone(R))'
  <2>1. CASE Key(R, L, F, C)!Write(a, "writePriv", "priv", "copyPub")
    <3>1. /\ file' = [file EXCEPT !["priv"] = 1] /\ pc[a] = "writePriv"
          /\ pc' = [pc EXCEPT ![a] = "copyPub"] /\ UNCHANGED <<raw, mu>>
      BY <2>1 DEF Key!Write, Key!Go, Key!Set
    <3> QED
      BY <3>1
  <2>2. CASE Key(R, L, F, C)!WriteFails(a, "writePriv", "priv", FALSE)
    <3>1. /\ file' = [file EXCEPT !["priv"] = -1] /\ pc[a] = "writePriv" /\ F
          /\ pc' = [pc EXCEPT ![a] = "idle"] /\ raw' = raw
      BY <2>2 DEF Key!WriteFails
    <3>2. mu' = IF mu = a THEN "none" ELSE mu
      BY <2>2 DEF Key!WriteFails, Key!Leave
    <3> QED
      BY <3>1, <3>2
  <2> QED
    BY <1>6, <2>1, <2>2 DEF Key!WritePriv
<1>7. ASSUME NEW a \in Ensurers \union R, Key(R, L, F, C)!CopyPub(a)
      PROVE  MovedType(R)' /\ MovedKept(R)' /\ (MovedAlone(R))'
  BY <1>7 DEF Key!CopyPub, Key!Copy, Key!Exists, Key!Leave, Key!Go,
     Key!Look
<1>8. ASSUME NEW a \in Ensurers \union R, Key(R, L, F, C)!CreatePub(a)
      PROVE  MovedType(R)' /\ MovedKept(R)' /\ (MovedAlone(R))'
  BY <1>8 DEF Key!CreatePub, Key!Create, Key!Exists, Key!Leave, Key!Set
<1>9. ASSUME NEW a \in Ensurers \union R, Key(R, L, F, C)!WritePub(a)
      PROVE  MovedType(R)' /\ MovedKept(R)' /\ (MovedAlone(R))'
  <2>1. CASE Key(R, L, F, C)!Write(a, "writePub", "pub", "dropOld")
    <3>1. /\ file' = [file EXCEPT !["pub"] = 1] /\ pc[a] = "writePub"
          /\ pc' = [pc EXCEPT ![a] = "dropOld"] /\ UNCHANGED <<raw, mu>>
      BY <2>1 DEF Key!Write, Key!Go, Key!Set
    <3> QED
      BY <3>1
  <2>2. CASE Key(R, L, F, C)!WriteFails(a, "writePub", "pub", FALSE)
    <3>1. /\ file' = [file EXCEPT !["pub"] = -1] /\ pc[a] = "writePub" /\ F
          /\ pc' = [pc EXCEPT ![a] = "idle"] /\ raw' = raw
      BY <2>2 DEF Key!WriteFails
    <3>2. mu' = IF mu = a THEN "none" ELSE mu
      BY <2>2 DEF Key!WriteFails, Key!Leave
    <3> QED
      BY <3>1, <3>2
  <2> QED
    BY <1>9, <2>1, <2>2 DEF Key!WritePub
<1>10. ASSUME NEW a \in Ensurers \union R, Key(R, L, F, C)!DropOld(a)
      PROVE  MovedType(R)' /\ MovedKept(R)' /\ (MovedAlone(R))'
  <2>1. /\ file' = [file EXCEPT !["oldPub"] = -1, !["oldPriv"] = -1]
        /\ pc[a] = "dropOld" /\ UNCHANGED <<raw, mu>>
        /\ pc' = [pc EXCEPT ![a] = IF a \in Ensurers THEN "readPub" ELSE "idle"]
    BY <1>10 DEF Key!DropOld, Key!Go, Key!Next1
  <2>2. /\ file' \in [FileNames -> {-1, 0, 1}]
        /\ file'["priv"] = file["priv"] /\ file'["oldPriv"] = -1 /\ file'["oldPub"] = -1
    BY <2>1
  <2> QED
    BY <2>1, <2>2
<1>11. ASSUME NEW a \in Ensurers \union R, Key(R, L, F, C)!ReadPub(a)
      PROVE  MovedType(R)' /\ MovedKept(R)' /\ (MovedAlone(R))'
  BY <1>11 DEF Key!ReadPub, Key!Whole, Key!Leave
<1>12. ASSUME NEW a \in Ensurers \union R, Key(R, L, F, C)!CheckPriv(a)
      PROVE  MovedType(R)' /\ MovedKept(R)' /\ (MovedAlone(R))'
  BY <1>12 DEF Key!CheckPriv, Key!Exists, Key!Whole, Key!Leave
<1>13. ASSUME NEW a \in Ensurers \union R, Key(R, L, F, C)!Generate(a)
      PROVE  MovedType(R)' /\ MovedKept(R)' /\ (MovedAlone(R))'
  BY <1>13 DEF Key!Generate, Key!Go
<1>14. ASSUME NEW a \in Ensurers \union R, Key(R, L, F, C)!CreateNew(a)
      PROVE  MovedType(R)' /\ MovedKept(R)' /\ (MovedAlone(R))'
  BY <1>14 DEF Key!CreateNew, Key!Create
<1>15. ASSUME NEW a \in Ensurers \union R, Key(R, L, F, C)!WriteNew(a)
      PROVE  MovedType(R)' /\ MovedKept(R)' /\ (MovedAlone(R))'
  BY <1>15 DEF Key!WriteNew, Key!Write, Key!WriteFails, Key!Go
<1>16. ASSUME NEW a \in Ensurers \union R, Key(R, L, F, C)!CreateOwn(a)
      PROVE  MovedType(R)' /\ MovedKept(R)' /\ (MovedAlone(R))'
  BY <1>16 DEF Key!CreateOwn, Key!Create, Key!Exists, Key!Leave, Key!Set
<1>17. ASSUME NEW a \in Ensurers \union R, Key(R, L, F, C)!WriteOwn(a)
      PROVE  MovedType(R)' /\ MovedKept(R)' /\ (MovedAlone(R))'
  <2>1. PICK new \in BOOLEAN :
          LET here == IF new THEN "writeOwnNew" ELSE "writeOwn" IN
          \/ /\ pc[a] = here /\ pc' = [pc EXCEPT ![a] = "idle"]
             /\ Key(R, L, F, C)!Leave(a) /\ Key(R, L, F, C)!Set("pub", raw[a])
             /\ UNCHANGED raw
          \/ Key(R, L, F, C)!WriteFails(a, here, "pub", new)
    BY <1>17 DEF Key!WriteOwn
  <2>2. ~new /\ pc[a] = "writeOwn"
    BY <2>1 DEF Key!WriteFails
  <2>3. /\ pc' = [pc EXCEPT ![a] = "idle"] /\ raw' = raw
        /\ mu' = IF mu = a THEN "none" ELSE mu
        /\ file' = [file EXCEPT !["pub"] = 1] \/ file' = [file EXCEPT !["pub"] = -1]
    BY <2>1, <2>2 DEF Key!WriteFails, Key!Leave, Key!Set
  <2> QED
    BY <2>2, <2>3
<1>18. CASE Key(R, L, F, C)!Crash
  BY <1>18 DEF Key!Crash
<1>19. CASE UNCHANGED Key(R, L, F, C)!vars
  BY <1>19 DEF Key!vars
<1> HIDE DEF MovedType, MovedKept, MovedAlone, Held
<1> QED
  BY <1>1, <1>2, <1>3, <1>4, <1>5, <1>6, <1>7, <1>8, <1>9, <1>10, <1>11,
     <1>12, <1>13, <1>14, <1>15, <1>16, <1>17, <1>18, <1>19 DEF Key!Next,
     Key!Migrate, Key!Ensure, Key!Actors

\* There was no key: the readers find nothing to move, the ensurers work one by
\* one, and what was told to be the account's key is the public file.
FreshPlaces == {"idle", "checkNew", "checkOld", "readPub", "checkPriv", "generate",
                "createNew", "writeNew", "createOwn", "createOwnNew", "writeOwn",
                "writeOwnNew"}

FreshType(R) ==
    /\ file \in [FileNames -> Int] /\ \A f \in FileNames : file[f] >= -1
    /\ file["oldPriv"] = -1 /\ file["oldPub"] = -1
    /\ pc \in [Ensurers \union R -> FreshPlaces]
    /\ \A a \in R : pc[a] \in {"idle", "checkNew", "checkOld"}
    /\ raw \in [Ensurers \union R -> Int] /\ born \in Nat

FreshKey(R) ==
    /\ made # {} => file["pub"] > 0 /\ made = {file["pub"]}
    /\ file["pub"] > 0 /\ file["priv"] > 0 => file["pub"] = file["priv"]
    /\ \A a \in Ensurers :
         /\ pc[a] # "idle" => mu = a
         /\ pc[a] \in {"generate", "createNew"} => file["priv"] = -1
         /\ pc[a] = "writeNew" => file["priv"] = 0
         /\ pc[a] \in {"createNew", "writeNew", "createOwn", "createOwnNew", "writeOwn",
                       "writeOwnNew"} => raw[a] > 0
         /\ pc[a] \in {"createOwn", "createOwnNew", "writeOwn", "writeOwnNew"} =>
              file["priv"] = raw[a]
         /\ pc[a] \in {"writeOwn", "writeOwnNew"} => file["pub"] = 0
         /\ pc[a] \notin {"idle", "checkNew", "checkOld", "readPub"} =>
              file["pub"] <= 0

FreshInv(R) == FreshType(R) /\ FreshKey(R)

LEMMA FreshInit ==
    ASSUME NEW R, NEW F, NEW C, Key(R, "none", F, C)!AccountsAssumption,
           Key(R, "none", F, C)!Init
    PROVE  FreshInv(R)
<1>1. /\ file = [priv |-> -1, pub |-> -1, oldPriv |-> -1, oldPub |-> -1]
      /\ pc = [a \in Ensurers \union R |-> "idle"]
      /\ raw = [a \in Ensurers \union R |-> -1]
      /\ born = 0 /\ made = {}
  BY DEF Key!Init, Key!Absent, Key!Actors
<1> QED
  BY <1>1 DEF FreshInv, FreshType, FreshKey, FreshPlaces, FileNames

LEMMA FreshSteps ==
    ASSUME NEW R, NEW F, NEW C, Key(R, "none", F, C)!AccountsAssumption,
           FreshInv(R), [Key(R, "none", F, C)!Next]_(Key(R, "none", F, C)!vars)
    PROVE  FreshInv(R)'
<1> USE DEF FreshInv, FreshType, FreshKey, FreshPlaces, FileNames, Key!Absent,
            Key!Empty, Key!Actors, Key!AccountsAssumption
<1>1. ASSUME NEW a \in Ensurers \union R, Key(R, "none", F, C)!Enter(a)
      PROVE  FreshInv(R)'
  BY <1>1 DEF Key!Enter, Key!Go
<1>2. ASSUME NEW a \in Ensurers \union R, Key(R, "none", F, C)!CheckNew(a)
      PROVE  FreshInv(R)'
  BY <1>2 DEF Key!CheckNew, Key!Go, Key!Look, Key!Exists, Key!Next1
<1>3. ASSUME NEW a \in Ensurers \union R, Key(R, "none", F, C)!CheckOld(a)
      PROVE  FreshInv(R)'
  BY <1>3 DEF Key!CheckOld, Key!Go, Key!Look, Key!Exists, Key!Next1
<1>4. ASSUME NEW a \in Ensurers \union R, Key(R, "none", F, C)!CopyPriv(a)
      PROVE  FreshInv(R)'
  BY <1>4 DEF Key!CopyPriv, Key!Copy, Key!Exists, Key!Leave
<1>5. ASSUME NEW a \in Ensurers \union R, Key(R, "none", F, C)!CreatePriv(a)
      PROVE  FreshInv(R)'
  BY <1>5 DEF Key!CreatePriv, Key!Create, Key!Exists, Key!Leave, Key!Set
<1>6. ASSUME NEW a \in Ensurers \union R, Key(R, "none", F, C)!WritePriv(a)
      PROVE  FreshInv(R)'
  BY <1>6 DEF Key!WritePriv, Key!Write, Key!WriteFails, Key!Go, Key!Set,
     Key!Leave
<1>7. ASSUME NEW a \in Ensurers \union R, Key(R, "none", F, C)!CopyPub(a)
      PROVE  FreshInv(R)'
  BY <1>7 DEF Key!CopyPub, Key!Copy, Key!Exists, Key!Leave, Key!Go,
     Key!Look
<1>8. ASSUME NEW a \in Ensurers \union R, Key(R, "none", F, C)!CreatePub(a)
      PROVE  FreshInv(R)'
  BY <1>8 DEF Key!CreatePub, Key!Create, Key!Exists, Key!Leave, Key!Set
<1>9. ASSUME NEW a \in Ensurers \union R, Key(R, "none", F, C)!WritePub(a)
      PROVE  FreshInv(R)'
  BY <1>9 DEF Key!WritePub, Key!Write, Key!WriteFails, Key!Go, Key!Set,
     Key!Leave
<1>10. ASSUME NEW a \in Ensurers \union R, Key(R, "none", F, C)!DropOld(a)
      PROVE  FreshInv(R)'
  BY <1>10 DEF Key!DropOld, Key!Go, Key!Next1
<1>11. ASSUME NEW a \in Ensurers \union R, Key(R, "none", F, C)!ReadPub(a)
      PROVE  FreshInv(R)'
  BY <1>11 DEF Key!ReadPub, Key!Whole, Key!Leave
<1>12. ASSUME NEW a \in Ensurers \union R, Key(R, "none", F, C)!CheckPriv(a)
      PROVE  FreshInv(R)'
  BY <1>12 DEF Key!CheckPriv, Key!Exists, Key!Whole, Key!Leave
<1>13. ASSUME NEW a \in Ensurers \union R, Key(R, "none", F, C)!Generate(a)
      PROVE  FreshInv(R)'
  BY <1>13 DEF Key!Generate, Key!Go
<1>14. ASSUME NEW a \in Ensurers \union R, Key(R, "none", F, C)!CreateNew(a)
      PROVE  FreshInv(R)'
  BY <1>14 DEF Key!CreateNew, Key!Create, Key!Exists, Key!Leave, Key!Set
<1>15. ASSUME NEW a \in Ensurers \union R, Key(R, "none", F, C)!WriteNew(a)
      PROVE  FreshInv(R)'
  BY <1>15 DEF Key!WriteNew, Key!Write, Key!WriteFails, Key!Go, Key!Set,
     Key!Leave
<1>16. ASSUME NEW a \in Ensurers \union R, Key(R, "none", F, C)!CreateOwn(a)
      PROVE  FreshInv(R)'
  BY <1>16 DEF Key!CreateOwn, Key!Create, Key!Exists, Key!Leave, Key!Set
<1>17. ASSUME NEW a \in Ensurers \union R, Key(R, "none", F, C)!WriteOwn(a)
      PROVE  FreshInv(R)'
  BY <1>17 DEF Key!WriteOwn, Key!WriteFails, Key!Set, Key!Leave
<1>18. CASE Key(R, "none", F, C)!Crash
  BY <1>18 DEF Key!Crash
<1>19. CASE UNCHANGED Key(R, "none", F, C)!vars
  BY <1>19 DEF Key!vars
<1> HIDE DEF FreshInv
<1> QED
  BY <1>1, <1>2, <1>3, <1>4, <1>5, <1>6, <1>7, <1>8, <1>9, <1>10, <1>11,
     <1>12, <1>13, <1>14, <1>15, <1>16, <1>17, <1>18, <1>19 DEF Key!Next,
     Key!Migrate, Key!Ensure, Key!Actors

LEMMA MovedMeans ==
    ASSUME NEW R, NEW L, NEW F, NEW C, MovedInv(R, F, C)
    PROVE  Key(R, L, F, C)!KeyKept /\ Key(R, L, F, C)!PairMatches
  BY DEF MovedInv, MovedType, MovedKept, Held, FileNames, Key!KeyKept, Key!PairMatches,
         Key!Whole, Key!Actors, Key!Empty

LEMMA FreshMeans ==
    ASSUME NEW R, NEW F, NEW C, FreshInv(R)
    PROVE  Key(R, "none", F, C)!PairMatches /\ Key(R, "none", F, C)!OneAccountKey
<1>1. Key(R, "none", F, C)!Cardinality(made) = Cardinality(made)
  BY DEF Key!Cardinality, Cardinality
<1>2. Cardinality(made) <= 1
  <2>1. CASE made = {}
    BY <2>1, FS_EmptySet
  <2>2. CASE made # {}
    <3>1. made = {file["pub"]}
      BY <2>2 DEF FreshInv, FreshKey
    <3>2. Cardinality({file["pub"]}) = 1
      BY FS_Singleton
    <3> QED
      BY <3>1, <3>2
  <2> QED
    BY <2>1, <2>2
<1> QED
  BY <1>1, <1>2 DEF FreshInv, FreshType, FreshKey, FileNames, Key!PairMatches,
                    Key!OneAccountKey, Key!Whole


-----------------------------------------------------------------------------
(* The n-th element of a set of numbers, as the pages of a log use it.     *)

Rank(S, i) == Cardinality({j \in S : j <= i})

LEMMA RankRange ==
    ASSUME NEW S \in SUBSET Nat, IsFiniteSet(S), NEW i \in S
    PROVE  Rank(S, i) \in 1..Cardinality(S)
<1> DEFINE T == {j \in S : j <= i}
<1>1. T \in SUBSET S /\ i \in T
  OBVIOUS
<1>2. /\ IsFiniteSet(T) /\ Cardinality(T) <= Cardinality(S)
      /\ Cardinality(T) \in Nat /\ Cardinality(S) \in Nat
  BY <1>1, FS_Subset, FS_CardinalityType
<1>3. Cardinality(T) # 0
  BY <1>1, <1>2, FS_EmptySet
<1> QED
  BY <1>2, <1>3 DEF Rank

LEMMA RankGrows ==
    ASSUME NEW S \in SUBSET Nat, IsFiniteSet(S), NEW i \in S, NEW k \in S, i < k
    PROVE  Rank(S, i) < Rank(S, k)
<1> DEFINE T == {j \in S : j <= i}
           U == {j \in S : j <= k}
<1>1. T \in SUBSET U /\ U \in SUBSET S /\ k \in U /\ k \notin T
  <2>1. \A j \in S : j \in Nat /\ k \in Nat /\ i \in Nat
    OBVIOUS
  <2>2. \A j \in S : j <= i => j <= k
    BY <2>1
  <2>3. ~(k <= i) /\ k <= k
    BY <2>1
  <2> QED
    BY <2>1, <2>2, <2>3
<1>2. IsFiniteSet(U) /\ IsFiniteSet(T)
  BY <1>1, FS_Subset
<1>3. Cardinality(T) <= Cardinality(U) /\ Cardinality(T) # Cardinality(U)
  BY <1>1, <1>2, FS_Subset
<1>4. Cardinality(T) \in Nat /\ Cardinality(U) \in Nat
  BY <1>2, FS_CardinalityType
<1> QED
  BY <1>3, <1>4 DEF Rank

\* Every rank up to the number of elements is taken.
LEMMA RankTaken ==
    ASSUME NEW S \in SUBSET Nat, IsFiniteSet(S), NEW n \in 1..Cardinality(S)
    PROVE  \E i \in S : Rank(S, i) = n
<1> DEFINE T == 1..Cardinality(S)
           f == [i \in S |-> Rank(S, i)]
<1>1. f \in [S -> T]
  BY RankRange
<1>2. \A i, k \in S : f[i] = f[k] => i = k
  <2>1. SUFFICES ASSUME NEW i \in S, NEW k \in S, i # k
                 PROVE  Rank(S, i) # Rank(S, k)
    OBVIOUS
  <2>2. Rank(S, i) \in Nat /\ Rank(S, k) \in Nat
    BY RankRange
  <2>3. i < k \/ k < i
    BY <2>1
  <2> QED
    BY <2>2, <2>3, RankGrows
<1>3. f \in Injection(S, T)
  BY <1>1, <1>2 DEF Injection, IsInjective
<1>4. Cardinality(S) \in Nat
  BY FS_CardinalityType
<1>5. IsFiniteSet(T) /\ Cardinality(T) = Cardinality(S)
  BY <1>4, FS_Interval
<1>6. f \in Surjection(S, T)
  BY <1>3, <1>5, FS_Injection
<1> QED
  BY <1>6 DEF Surjection

-----------------------------------------------------------------------------
(* The event stream.                                                       *)

Pairs == Nat \X Int

\* The ids of a sequence of events increase.
Ids(s) == \A i, j \in DOMAIN s : i < j => s[i][1] < s[j][1]

\* The client is subscribed to the session that is open.
Listens == pc \in {"replay", "live"} /\ ~closed /\ holds = session

\* The id of the next event that is sent.
NextId == IF sending = {} THEN nextLine ELSE nextLine - 1

EvType ==
    /\ file \in Seq(Int) /\ open \in BOOLEAN
    /\ session \in Nat /\ up \in BOOLEAN /\ nextLine \in Nat /\ stuck \in BOOLEAN
    /\ event \in Nat /\ sending \subseteq Pairs
    /\ pc \in {"off", "found", "replay", "live"} /\ holds \in Nat
    /\ channel \in Seq(Pairs) /\ closed \in BOOLEAN
    /\ replay \in BOOLEAN /\ cursor \in Int /\ last \in Int
    /\ seen \in Seq(Pairs) /\ joined \in BOOLEAN /\ edits \in Nat

\* What InOrder needs: the ids in the channel and at the client increase, and
\* what is still to come lies behind what the client saw, or behind the cursor
\* of its replay only.
OrderInv ==
    /\ holds <= session
    /\ last >= -1 /\ cursor >= -1 /\ (last = -1 => seen = <<>>)
    /\ sending # {} => up /\ nextLine > 0
    /\ \A p \in sending : p[1] = NextId
    /\ Listens => up /\ \A i \in DOMAIN channel : channel[i][1] < NextId
    /\ Ids(channel)
    /\ joined =>
         /\ Ids(seen) /\ \A i \in DOMAIN seen : seen[i][1] <= last
         /\ pc # "off" => replay
         /\ pc \in {"found", "replay"} => cursor = last
         /\ pc = "live" =>
              /\ cursor <= last
              /\ \A i \in DOMAIN channel : channel[i][1] > cursor => channel[i][1] > last
              /\ Listens => last = cursor \/ last < NextId

\* A page holds the lines behind the cursor in order, all of them up to its
\* last one, and all there are when it says there is no more.
PageHolds(f, after, page) ==
    LET r == page.records
    IN  /\ r \in Seq(Pairs)
        /\ Ids(r)
        /\ \A n \in DOMAIN r : /\ r[n][1] > after /\ r[n][1] < Len(f)
                               /\ f[r[n][1] + 1] = r[n][2]
        /\ \A i \in DOMAIN f :
             /\ i - 1 > after /\ f[i] # -1
             /\ ~page.hasMore \/ (r # <<>> /\ i - 1 <= r[Len(r)][1])
             => \E n \in DOMAIN r : r[n] = <<i - 1, f[i]>>

LEMMA PageRecords ==
    ASSUME NEW O, NEW C, NEW E, NEW F, Ev(O, C, E, F)!EventStreamAssumption,
           file \in Seq(Int), NEW after \in Int
    PROVE  PageHolds(file, after, Ev(O, C, E, F)!Page(after))
<1> DEFINE good == {i \in DOMAIN file : i - 1 > after /\ file[i] # -1}
           k == Cardinality(good)
           size == IF k < PageLimit THEN k ELSE PageLimit
           Nth(n) == CHOOSE i \in good : Rank(good, i) = n
           r == [n \in 1..size |-> <<Nth(n) - 1, file[Nth(n)]>>]
<1>1. /\ Ev(O, C, E, F)!Page(after).records = r
      /\ Ev(O, C, E, F)!Page(after).hasMore = (k > PageLimit)
  BY DEF Ev!Page, Ev!Readable, Ev!Nth, Ev!Torn, Rank, Ev!Cardinality, Cardinality,
         Ev!IsFiniteSet, IsFiniteSet
<1>2. PageLimit \in Nat /\ PageLimit > 0 /\ Len(file) \in Nat /\ DOMAIN file = 1..Len(file)
  BY DEF Ev!EventStreamAssumption
<1>3. \A i : i \in good <=> i \in 1..Len(file) /\ i - 1 > after /\ file[i] # -1
  BY <1>2
<1>4. good \in SUBSET Nat /\ IsFiniteSet(good) /\ k \in Nat
  <2>1. good \in SUBSET (1..Len(file)) /\ IsFiniteSet(1..Len(file))
    BY <1>2, FS_Interval
  <2> QED
    BY <2>1, <1>2, FS_Subset, FS_CardinalityType
<1>5. size \in Nat /\ size <= k /\ size <= PageLimit /\ (k <= PageLimit => size = k)
  BY <1>2, <1>4
<1>6. \A n \in 1..size : Nth(n) \in good /\ Rank(good, Nth(n)) = n
  <2>1. SUFFICES ASSUME NEW n \in 1..size
                 PROVE  Nth(n) \in good /\ Rank(good, Nth(n)) = n
    OBVIOUS
  <2>2. n \in 1..Cardinality(good)
    BY <1>4, <1>5
  <2> QED
    BY <2>2, <1>4, RankTaken
<1>7. /\ DOMAIN r = 1..size
      /\ \A n \in 1..size : r[n] = <<Nth(n) - 1, file[Nth(n)]>>
  OBVIOUS
<1>8. \A n \in 1..size : Nth(n) \in 1..Len(file) /\ Nth(n) - 1 > after
  BY <1>6, <1>3
<1>9. r \in Seq(Pairs) /\ Len(r) = size
  <2> HIDE DEF good, size, Nth, r
  <2>1. \A i \in 1..Len(file) : <<i - 1, file[i]>> \in Pairs
    BY <1>2 DEF Pairs
  <2>2. \A n \in 1..size : r[n] \in Pairs
    BY <2>1, <1>7, <1>8
  <2>3. r = [n \in 1..size |-> r[n]]
    BY <1>7 DEF r
  <2>4. r \in [1..size -> Pairs]
    BY <2>2, <2>3
  <2>5. r \in Seq(Pairs)
    BY <2>4, <1>5
  <2>6. Len(r) \in Nat /\ 1..Len(r) = 1..size
    BY <2>5, <1>7
  <2> QED
    BY <2>5, <2>6, <1>5
<1> HIDE DEF good, size, Nth, r
<1>10. \A m, n \in 1..size : m < n => Nth(m) < Nth(n)
  <2>1. SUFFICES ASSUME NEW m \in 1..size, NEW n \in 1..size, m < n, ~(Nth(m) < Nth(n))
                 PROVE  FALSE
    OBVIOUS
  <2>2. Nth(m) \in good /\ Nth(n) \in good /\ Rank(good, Nth(m)) = m /\ Rank(good, Nth(n)) = n
    BY <1>6
  <2>3. Nth(m) \in Nat /\ Nth(n) \in Nat
    BY <2>2, <1>4
  <2>4. Nth(m) = Nth(n) \/ Nth(n) < Nth(m)
    BY <2>1, <2>3
  <2>5. CASE Nth(n) < Nth(m)
    <3>1. Rank(good, Nth(n)) < Rank(good, Nth(m))
      BY <2>2, <2>5, <1>4, RankGrows
    <3> QED
      BY <2>1, <2>2, <3>1, <1>5
  <2>6. CASE Nth(m) = Nth(n)
    BY <2>1, <2>2, <2>6, <1>5
  <2> QED
    BY <2>4, <2>5, <2>6
<1>11. \A i \in good : Rank(good, i) <= size => i = Nth(Rank(good, i))
  <2>1. SUFFICES ASSUME NEW i \in good, Rank(good, i) <= size, i # Nth(Rank(good, i))
                 PROVE  FALSE
    OBVIOUS
  <2> DEFINE n == Rank(good, i)
  <2>2. n \in 1..size
    BY <2>1, <1>4, <1>5, RankRange
  <2>3. Nth(n) \in good /\ Rank(good, Nth(n)) = n
    BY <2>2, <1>6
  <2>4. i \in Nat /\ Nth(n) \in Nat
    BY <2>3, <1>4
  <2>5. i < Nth(n) \/ Nth(n) < i
    BY <2>1, <2>4
  <2>6. n < n
    <3>1. CASE i < Nth(n)
      BY <3>1, <2>3, <1>4, RankGrows
    <3>2. CASE Nth(n) < i
      BY <3>2, <2>3, <1>4, RankGrows
    <3> QED
      BY <2>5, <3>1, <3>2
  <2> QED
    BY <2>2, <2>6, <1>5
<1>12. \A i \in good : k <= PageLimit \/ (size > 0 /\ i <= Nth(size)) => Rank(good, i) <= size
  <2>1. SUFFICES ASSUME NEW i \in good, k <= PageLimit \/ (size > 0 /\ i <= Nth(size))
                 PROVE  Rank(good, i) <= size
    OBVIOUS
  <2>2. Rank(good, i) \in Nat /\ Rank(good, i) <= k
    BY <1>4, RankRange
  <2>3. CASE k <= PageLimit
    BY <2>2, <2>3, <1>5
  <2>4. CASE size > 0 /\ i <= Nth(size)
    <3>1. size \in 1..size
      BY <2>4, <1>5
    <3>2. Nth(size) \in good /\ Rank(good, Nth(size)) = size
      BY <3>1, <1>6
    <3>3. i \in Nat /\ Nth(size) \in Nat
      BY <3>2, <1>4
    <3>4. CASE i = Nth(size)
      BY <3>2, <3>4, <1>5
    <3>5. CASE i < Nth(size)
      <4>1. Rank(good, i) < Rank(good, Nth(size))
        BY <3>2, <3>5, <1>4, RankGrows
      <4> QED
        BY <4>1, <3>2, <2>2, <1>5
    <3> QED
      BY <2>4, <3>3, <3>4, <3>5
  <2> QED
    BY <2>1, <2>3, <2>4
<1>13. Ids(r)
  <2>1. SUFFICES ASSUME NEW i \in 1..size, NEW j \in 1..size, i < j
                 PROVE  r[i][1] < r[j][1]
    BY <1>7 DEF Ids
  <2>2. Nth(i) < Nth(j) /\ Nth(i) \in Nat /\ Nth(j) \in Nat
    BY <2>1, <1>10, <1>6, <1>4
  <2>3. r[i][1] = Nth(i) - 1 /\ r[j][1] = Nth(j) - 1
    BY <1>7
  <2> QED
    BY <2>2, <2>3
<1>14. \A n \in DOMAIN r : /\ r[n][1] > after /\ r[n][1] < Len(file)
                           /\ file[r[n][1] + 1] = r[n][2]
  <2>1. SUFFICES ASSUME NEW n \in 1..size
                 PROVE  /\ Nth(n) - 1 > after /\ Nth(n) - 1 < Len(file)
                        /\ file[(Nth(n) - 1) + 1] = file[Nth(n)]
    BY <1>7
  <2>2. Nth(n) \in 1..Len(file) /\ Nth(n) - 1 > after
    BY <1>8
  <2>3. (Nth(n) - 1) + 1 = Nth(n)
    BY <2>2
  <2> QED
    BY <2>2, <2>3, <1>2
<1>15. ASSUME NEW i \in DOMAIN file, i - 1 > after, file[i] # -1,
              ~(k > PageLimit) \/ (r # <<>> /\ i - 1 <= r[Len(r)][1])
       PROVE  \E n \in DOMAIN r : r[n] = <<i - 1, file[i]>>
  <2>1. i \in good
    BY <1>15, <1>2, <1>3
  <2>2. k <= PageLimit \/ (size > 0 /\ i <= Nth(size))
    <3>1. CASE ~(k > PageLimit)
      BY <3>1, <1>2, <1>4
    <3>2. CASE r # <<>> /\ i - 1 <= r[Len(r)][1]
      <4>1. size > 0
        BY <3>2, <1>9, <1>5, EmptySeq
      <4>2. r[size][1] = Nth(size) - 1 /\ Nth(size) \in Nat
        BY <4>1, <1>5, <1>7, <1>8
      <4>3. i \in Nat /\ i - 1 <= Nth(size) - 1
        BY <3>2, <4>2, <1>9, <2>1, <1>4
      <4> QED
        BY <4>1, <4>2, <4>3
    <3> QED
      BY <1>15, <3>1, <3>2
  <2>3. Rank(good, i) <= size /\ Rank(good, i) \in 1..k
    BY <2>1, <2>2, <1>12, <1>4, RankRange
  <2>4. i = Nth(Rank(good, i)) /\ Rank(good, i) \in 1..size
    BY <2>1, <2>3, <1>11, <1>4, <1>5
  <2>5. r[Rank(good, i)] = <<i - 1, file[i]>>
    BY <2>4, <1>7
  <2> QED
    BY <2>4, <2>5, <1>7
<1>16. \A i \in DOMAIN file :
          /\ i - 1 > after /\ file[i] # -1
          /\ ~(k > PageLimit) \/ (r # <<>> /\ i - 1 <= r[Len(r)][1])
          => \E n \in DOMAIN r : r[n] = <<i - 1, file[i]>>
  BY <1>15
<1> DEFINE p == Ev(O, C, E, F)!Page(after)
<1> HIDE DEF p
<1>17. p.records = r /\ p.hasMore = (k > PageLimit)
  BY <1>1 DEF p
<1> HIDE DEF k
<1> QED
  BY <1>9, <1>13, <1>14, <1>16, <1>17 DEF PageHolds, p

LEMMA ConcatPairs ==
    ASSUME NEW s \in Seq(Pairs), NEW r \in Seq(Pairs)
    PROVE  /\ s \o r \in Seq(Pairs)
           /\ \A m \in DOMAIN (s \o r) :
                \/ m \in DOMAIN s /\ (s \o r)[m] = s[m]
                \/ m > Len(s) /\ m - Len(s) \in DOMAIN r /\ (s \o r)[m] = r[m - Len(s)]
           /\ \A m \in DOMAIN s : m \in DOMAIN (s \o r) /\ (s \o r)[m] = s[m]
           /\ \A m \in DOMAIN r : /\ Len(s) + m \in DOMAIN (s \o r)
                                  /\ (s \o r)[Len(s) + m] = r[m]
           /\ r = <<>> => s \o r = s
<1>1. s \o r \in Seq(Pairs) /\ Len(s \o r) = Len(s) + Len(r)
  BY ConcatProperties
<1>2. /\ DOMAIN (s \o r) = 1..(Len(s) + Len(r))
      /\ DOMAIN s = 1..Len(s) /\ DOMAIN r = 1..Len(r) /\ Len(s) \in Nat /\ Len(r) \in Nat
  BY <1>1
<1>3. \A m \in 1..(Len(s) + Len(r)) :
         (s \o r)[m] = IF m <= Len(s) THEN s[m] ELSE r[m - Len(s)]
  BY ConcatProperties
<1>4. r = <<>> => s \o r = s
  BY ConcatEmptySeq
<1> DEFINE t == s \o r
<1> HIDE DEF t
<1>5. \A m \in DOMAIN t :
        \/ m \in DOMAIN s /\ t[m] = s[m]
        \/ m > Len(s) /\ m - Len(s) \in DOMAIN r /\ t[m] = r[m - Len(s)]
  BY <1>2, <1>3 DEF t
<1>6. \A m \in DOMAIN s : m \in DOMAIN t /\ t[m] = s[m]
  BY <1>2, <1>3 DEF t
<1>7. ASSUME NEW m \in DOMAIN r
      PROVE  Len(s) + m \in DOMAIN t /\ t[Len(s) + m] = r[m]
  <2>1. /\ Len(s) + m \in 1..(Len(s) + Len(r)) /\ ~(Len(s) + m <= Len(s))
        /\ (Len(s) + m) - Len(s) = m
    BY <1>2
  <2> QED
    BY <2>1, <1>2, <1>3 DEF t
<1> QED
  BY <1>1, <1>4, <1>5, <1>6, <1>7 DEF t

LEMMA IdsConcat ==
    ASSUME NEW s \in Seq(Pairs), NEW r \in Seq(Pairs), Ids(s), Ids(r),
           \A i \in DOMAIN s, j \in DOMAIN r : s[i][1] < r[j][1]
    PROVE  Ids(s \o r)
<1> DEFINE t == s \o r
<1>1. /\ \A m \in DOMAIN t : \/ m \in DOMAIN s /\ t[m] = s[m]
                             \/ m > Len(s) /\ m - Len(s) \in DOMAIN r /\ t[m] = r[m - Len(s)]
      /\ Len(s) \in Nat /\ DOMAIN s = 1..Len(s)
      /\ \A m \in DOMAIN t : m \in Nat
  BY ConcatPairs
<1> HIDE DEF t
<1>2. SUFFICES ASSUME NEW i \in DOMAIN t, NEW j \in DOMAIN t, i < j
               PROVE  t[i][1] < t[j][1]
  BY DEF Ids, t
<1>3. i \in Nat /\ j \in Nat
  BY <1>1
<1>4. CASE i \in DOMAIN s /\ t[i] = s[i]
  <2>1. CASE j \in DOMAIN s /\ t[j] = s[j]
    BY <1>2, <1>4, <2>1 DEF Ids
  <2>2. CASE j - Len(s) \in DOMAIN r /\ t[j] = r[j - Len(s)]
    BY <1>4, <2>2
  <2> QED
    BY <1>1, <2>1, <2>2
<1>5. CASE i > Len(s) /\ i - Len(s) \in DOMAIN r /\ t[i] = r[i - Len(s)]
  <2>1. ~(j \in DOMAIN s)
    BY <1>1, <1>2, <1>3, <1>5
  <2>2. j - Len(s) \in DOMAIN r /\ t[j] = r[j - Len(s)]
    BY <1>1, <2>1
  <2>3. i - Len(s) < j - Len(s)
    BY <1>1, <1>2, <1>3
  <2> QED
    BY <1>5, <2>2, <2>3 DEF Ids
<1> QED
  BY <1>1, <1>4, <1>5

LEMMA TailPairs ==
    ASSUME NEW s \in Seq(Pairs), s # <<>>
    PROVE  /\ Tail(s) \in Seq(Pairs) /\ Head(s) = s[1] /\ 1 \in DOMAIN s
           /\ s[1] \in Pairs
           /\ \A k \in DOMAIN Tail(s) : /\ k \in Nat /\ k >= 1 /\ k + 1 \in DOMAIN s
                                        /\ Tail(s)[k] = s[k + 1]
           /\ \A k \in DOMAIN s : k # 1 => k - 1 \in DOMAIN Tail(s) /\ k \in Nat /\ k > 1
<1>1. /\ Tail(s) \in Seq(Pairs) /\ Len(Tail(s)) = Len(s) - 1
      /\ \A k \in 1..(Len(s) - 1) : Tail(s)[k] = s[k + 1]
      /\ Head(s) = s[1] /\ Len(s) \in Nat /\ Len(s) # 0
  BY HeadTailProperties, EmptySeq
<1>2. DOMAIN Tail(s) = 1..(Len(s) - 1) /\ DOMAIN s = 1..Len(s)
  BY <1>1
<1>3. 1 \in DOMAIN s /\ s[1] \in Pairs
  BY <1>1, <1>2
<1> QED
  BY <1>1, <1>2, <1>3

LEMMA IdsTail ==
    ASSUME NEW s \in Seq(Pairs), s # <<>>, Ids(s)
    PROVE  Ids(Tail(s)) /\ \A k \in DOMAIN Tail(s) : s[1][1] < Tail(s)[k][1]
<1> DEFINE t == Tail(s)
<1>1. /\ 1 \in DOMAIN s
      /\ \A k \in DOMAIN t : k \in Nat /\ k >= 1 /\ k + 1 \in DOMAIN s /\ t[k] = s[k + 1]
  BY TailPairs
<1> HIDE DEF t
<1>2. Ids(t)
  <2>1. SUFFICES ASSUME NEW i \in DOMAIN t, NEW j \in DOMAIN t, i < j
                 PROVE  t[i][1] < t[j][1]
    BY DEF Ids
  <2>2. i + 1 < j + 1 /\ i + 1 \in DOMAIN s /\ j + 1 \in DOMAIN s
    BY <1>1, <2>1
  <2> QED
    BY <1>1, <2>2 DEF Ids
<1>3. ASSUME NEW k \in DOMAIN t PROVE s[1][1] < t[k][1]
  <2>1. 1 < k + 1 /\ k + 1 \in DOMAIN s /\ t[k] = s[k + 1]
    BY <1>1
  <2> QED
    BY <1>1, <2>1 DEF Ids
<1> QED
  BY <1>2, <1>3 DEF t

LEMMA AppendPairs ==
    ASSUME NEW s \in Seq(Pairs), NEW p \in Pairs
    PROVE  /\ Append(s, p) \in Seq(Pairs)
           /\ Len(s) + 1 \in DOMAIN Append(s, p) /\ Append(s, p)[Len(s) + 1] = p
           /\ \A k \in DOMAIN s : /\ k \in DOMAIN Append(s, p) /\ k < Len(s) + 1
                                  /\ Append(s, p)[k] = s[k]
           /\ \A k \in DOMAIN Append(s, p) :
                k \in Nat /\ (k \in DOMAIN s \/ k = Len(s) + 1)
<1>1. /\ Append(s, p) \in Seq(Pairs) /\ Len(Append(s, p)) = Len(s) + 1
      /\ \A i \in 1..Len(s) : Append(s, p)[i] = s[i]
      /\ Append(s, p)[Len(s) + 1] = p /\ Len(s) \in Nat
  BY AppendProperties
<1>2. DOMAIN Append(s, p) = 1..(Len(s) + 1) /\ DOMAIN s = 1..Len(s)
  BY <1>1
<1> QED
  BY <1>1, <1>2

LEMMA IdsAppend ==
    ASSUME NEW s \in Seq(Pairs), NEW p \in Pairs, Ids(s),
           \A k \in DOMAIN s : s[k][1] < p[1]
    PROVE  Ids(Append(s, p))
<1> DEFINE t == Append(s, p)
           n == Len(s) + 1
<1>1. /\ n \in DOMAIN t /\ t[n] = p /\ n \in Nat
      /\ \A k \in DOMAIN s : k \in DOMAIN t /\ k < n /\ t[k] = s[k]
      /\ \A k \in DOMAIN t : k \in Nat /\ (k \in DOMAIN s \/ k = n)
  BY AppendPairs
<1> HIDE DEF t, n
<1>2. SUFFICES ASSUME NEW i \in DOMAIN t, NEW j \in DOMAIN t, i < j
               PROVE  t[i][1] < t[j][1]
  BY DEF Ids, t
<1>3. i \in DOMAIN s
  BY <1>1, <1>2
<1>4. CASE j \in DOMAIN s
  BY <1>1, <1>2, <1>3, <1>4 DEF Ids
<1>5. CASE j = n
  BY <1>1, <1>3, <1>5
<1> QED
  BY <1>1, <1>4, <1>5

LEMMA FileOpened ==
    ASSUME NEW f \in Seq(Int), NEW g, g = (IF f = <<>> THEN << 0 >> ELSE f)
    PROVE  /\ g \in Seq(Int) /\ Len(g) \in Nat /\ Len(g) >= Len(f) /\ Len(g) > 0
           /\ \A i \in DOMAIN f : i \in DOMAIN g /\ g[i] = f[i]
           /\ \A i \in DOMAIN g : i \in DOMAIN f \/ g[i] = 0
<1>1. CASE f = <<>>
  <2>1. g = << 0 >> /\ << 0 >> \in Seq(Int) /\ Len(<< 0 >>) = 1 /\ DOMAIN << 0 >> = {1} /\ << 0 >>[1] = 0
    BY <1>1
  <2>2. Len(f) = 0 /\ DOMAIN f = {}
    BY <1>1
  <2> QED
    BY <2>1, <2>2
<1>2. CASE f # <<>>
  BY <1>2, EmptySeq
<1> QED
  BY <1>1, <1>2

LEMMA FileCut ==
    ASSUME NEW f \in Seq(Int), NEW n \in 1..(Len(f) - 1)
    PROVE  SubSeq(f, 1, n) \in Seq(Int)
<1>1. \A i \in 1..n : f[i] \in Int
  OBVIOUS
<1> QED
  BY <1>1, SubSeqProperties

LEMMA FileWritten ==
    ASSUME NEW O, NEW C, NEW E, NEW F, NEW e \in Int, file \in Seq(Int), open \in BOOLEAN,
           stuck \in BOOLEAN, Ev(O, C, E, F)!Write(e)
    PROVE  file' \in Seq(Int) /\ open' \in BOOLEAN /\ stuck' \in BOOLEAN
<1>1. ASSUME NEW x \in Int PROVE Ev(O, C, E, F)!Appended(file, x) \in Seq(Int)
  <2>1. [file EXCEPT ![Len(file)] = -1] \in Seq(Int)
    <3>1. CASE Len(file) = 0
      <4>1. [file EXCEPT ![Len(file)] = -1] = file
        BY <3>1
      <4> QED
        BY <4>1
    <3>2. CASE Len(file) \in 1..Len(file)
      BY <3>2, ExceptSeq, -1 \in Int
    <3> QED
      BY <3>1, <3>2
  <2>2. Append(file, x) \in Seq(Int)
    BY <1>1, AppendProperties
  <2> QED
    BY <2>1, <2>2 DEF Ev!Appended, Ev!Torn
<1>2. -1 \in Int
  OBVIOUS
<1> QED
  BY <1>1, <1>2 DEF Ev!Write, Ev!Torn

\* What each action keeps of the order, whatever the bounds and the faults.
LEMMA OpenOrder ==
    ASSUME NEW O, NEW C, NEW E, NEW F, Ev(O, C, E, F)!EventStreamAssumption,
           EvType, OrderInv, Ev(O, C, E, F)!Open
    PROVE  EvType' /\ OrderInv'
<1>1. /\ ~up /\ up' = TRUE /\ session' = session + 1 /\ stuck' = FALSE /\ open' = open
      /\ file' = (IF file = <<>> THEN << 0 >> ELSE file) /\ nextLine' = Len(file')
      /\ UNCHANGED <<event, sending, pc, holds, channel, closed, replay, cursor, last,
                     seen, joined, edits>>
  BY DEF Ev!Open, Ev!openSessionEventLog, Ev!countJSONLLines, Ev!Meta, Ev!handler, Ev!client
<1>2. file' \in Seq(Int) /\ nextLine' \in Nat /\ session' \in Nat
  <2>1. file' \in Seq(Int) /\ nextLine' \in Nat
    BY <1>1, FileOpened DEF EvType
  <2> QED
    BY <1>1, <2>1 DEF EvType
<1>3. EvType'
  BY <1>1, <1>2 DEF EvType
<1>4. sending = {} /\ sending' = {} /\ ~Listens'
  BY <1>1 DEF OrderInv, EvType, Listens
<1>5. OrderInv'
  BY <1>1, <1>4 DEF OrderInv, EvType
<1> QED
  BY <1>3, <1>5

LEMMA RecordOrder ==
    ASSUME NEW O, NEW C, NEW E, NEW F, Ev(O, C, E, F)!EventStreamAssumption,
           EvType, OrderInv, Ev(O, C, E, F)!Record
    PROVE  EvType' /\ OrderInv'
<1>1. /\ up /\ sending = {} /\ event' = event + 1 /\ nextLine' = nextLine + 1
      /\ sending' = {<<nextLine, event'>>} /\ Ev(O, C, E, F)!Write(event')
      /\ UNCHANGED <<session, up, pc, holds, channel, closed, replay, cursor, last,
                     seen, joined, edits>>
  BY DEF Ev!Record, Ev!handler, Ev!client
<1>2. file' \in Seq(Int) /\ open' \in BOOLEAN /\ stuck' \in BOOLEAN
  <2>1. event' \in Int
    BY <1>1 DEF EvType
  <2> QED
    BY <1>1, <2>1, FileWritten DEF EvType
<1>3. EvType'
  <2>1. event' \in Nat /\ nextLine' \in Nat /\ sending' \subseteq Pairs
    BY <1>1 DEF EvType, Pairs
  <2> QED
    BY <1>1, <1>2, <2>1 DEF EvType
<1>4. NextId' = NextId /\ (Listens' <=> Listens) /\ nextLine' > 0
  <2>1. (nextLine + 1) - 1 = nextLine /\ nextLine + 1 > 0
    BY DEF EvType
  <2> QED
    BY <1>1, <2>1 DEF NextId, Listens
<1>5. \A p \in sending' : p[1] = NextId'
  BY <1>1, <1>4 DEF NextId
<1>6. OrderInv'
  BY <1>1, <1>4, <1>5 DEF OrderInv
<1> QED
  BY <1>3, <1>6

LEMMA SendOrder ==
    ASSUME NEW O, NEW C, NEW E, NEW F, Ev(O, C, E, F)!EventStreamAssumption,
           EvType, OrderInv, Ev(O, C, E, F)!Send
    PROVE  EvType' /\ OrderInv'
<1>1. /\ sending # {} /\ sending' = {}
      /\ \E p \in sending :
           channel' = IF Listens /\ Len(channel) < Buffer THEN Append(channel, p) ELSE channel
      /\ UNCHANGED <<file, open, session, up, nextLine, stuck, event, pc, holds, closed,
                     replay, cursor, last, seen, joined, edits>>
  BY DEF Ev!Send, Ev!Subscribed, Listens, Ev!disk, Ev!writer, Ev!client
<1>2. PICK p \in sending :
        channel' = IF Listens /\ Len(channel) < Buffer THEN Append(channel, p) ELSE channel
  BY <1>1
<1>3. /\ p \in Pairs /\ p[1] = NextId /\ p[1] = nextLine - 1 /\ NextId' = nextLine
      /\ up /\ nextLine > 0 /\ nextLine \in Nat /\ NextId \in Nat
  BY <1>1 DEF OrderInv, EvType, NextId
<1>4. (Listens' <=> Listens) /\ NextId < NextId'
  BY <1>1, <1>3 DEF Listens
<1>5. CASE channel' = channel
  <2>1. EvType'
    BY <1>1, <1>5 DEF EvType
  <2>2. \A k \in DOMAIN channel : channel[k][1] \in Nat
    BY DEF EvType, Pairs
  <2>3. Listens' => up' /\ \A k \in DOMAIN channel' : channel'[k][1] < NextId'
    BY <1>1, <1>3, <1>4, <1>5, <2>2 DEF OrderInv
  <2>4. Listens' /\ joined /\ pc = "live" => last = cursor \/ last < NextId'
    BY <1>3, <1>4 DEF OrderInv, EvType
  <2> QED
    BY <1>1, <1>4, <1>5, <2>1, <2>3, <2>4 DEF OrderInv
<1>6. CASE Listens /\ channel' = Append(channel, p)
  <2>1. /\ channel' \in Seq(Pairs)
        /\ \A k \in DOMAIN channel' :
             \/ k \in DOMAIN channel /\ channel'[k] = channel[k]
             \/ channel'[k] = p
    BY <1>3, <1>6, AppendPairs DEF EvType
  <2>2. Ids(channel) /\ \A k \in DOMAIN channel : channel[k][1] < p[1] /\ channel[k][1] \in Nat
    BY <1>3, <1>6 DEF OrderInv, EvType, Pairs
  <2>3. Ids(channel')
    BY <1>3, <1>6, <2>2, IdsAppend DEF EvType
  <2>4. EvType'
    BY <1>1, <2>1 DEF EvType
  <2>5. \A k \in DOMAIN channel' : channel'[k][1] < NextId'
    BY <1>3, <1>4, <2>1, <2>2
  <2>6. ASSUME joined, pc = "live"
        PROVE  /\ \A k \in DOMAIN channel' : channel'[k][1] > cursor => channel'[k][1] > last
               /\ last = cursor \/ last < NextId'
    <3>1. /\ \A k \in DOMAIN channel : channel[k][1] > cursor => channel[k][1] > last
          /\ last = cursor \/ last < NextId
          /\ last \in Int /\ cursor \in Int
      BY <1>6, <2>6 DEF OrderInv, EvType
    <3>2. p[1] > cursor => p[1] > last
      BY <1>3, <3>1
    <3> QED
      BY <1>3, <1>4, <2>1, <3>1, <3>2
  <2> QED
    BY <1>1, <1>3, <1>4, <2>3, <2>4, <2>5, <2>6 DEF OrderInv
<1> QED
  BY <1>2, <1>5, <1>6

LEMMA CloseOrder ==
    ASSUME NEW O, NEW C, NEW E, NEW F, Ev(O, C, E, F)!EventStreamAssumption,
           EvType, OrderInv, Ev(O, C, E, F)!Close
    PROVE  EvType' /\ OrderInv'
<1>1. /\ up /\ sending = {} /\ up' = FALSE /\ closed' = (closed \/ Listens)
      /\ UNCHANGED <<file, open, session, nextLine, stuck, event, sending, pc, holds,
                     channel, replay, cursor, last, seen, joined, edits>>
  BY DEF Ev!Close, Ev!CloseSession, Ev!Subscribed, Listens, Ev!disk, Ev!client
<1>2. sending' = {} /\ ~Listens'
  BY <1>1 DEF Listens
<1>3. EvType'
  BY <1>1 DEF EvType
<1>4. OrderInv'
  BY <1>1, <1>2 DEF OrderInv
<1> QED
  BY <1>3, <1>4

LEMMA EditOrder ==
    ASSUME NEW O, NEW C, NEW E, NEW F, Ev(O, C, E, F)!EventStreamAssumption,
           EvType, OrderInv, Ev(O, C, E, F)!Edit
    PROVE  EvType' /\ OrderInv'
<1>1. /\ up /\ sending = {} /\ up' = FALSE /\ closed' = (closed \/ Listens)
      /\ edits' = edits + 1 /\ open' = FALSE
      /\ \E n \in 1..(Len(file) - 1) : file' = SubSeq(file, 1, n)
      /\ UNCHANGED <<session, nextLine, stuck, event, sending, pc, holds,
                     channel, replay, cursor, last, seen, joined>>
  BY DEF Ev!Edit, Ev!CloseSession, Ev!Subscribed, Listens, Ev!client
<1>2. sending' = {} /\ ~Listens'
  BY <1>1 DEF Listens
<1>3. file' \in Seq(Int) /\ edits' \in Nat
  <2>1. file' \in Seq(Int)
    BY <1>1, FileCut DEF EvType
  <2> QED
    BY <1>1, <2>1 DEF EvType
<1>4. EvType'
  BY <1>1, <1>3 DEF EvType
<1>5. OrderInv'
  BY <1>1, <1>2 DEF OrderInv
<1> QED
  BY <1>4, <1>5

LEMMA ConnectOrder ==
    ASSUME NEW O, NEW C, NEW E, NEW F, Ev(O, C, E, F)!EventStreamAssumption,
           EvType, OrderInv, NEW withID \in BOOLEAN, Ev(O, C, E, F)!Connect(withID)
    PROVE  EvType' /\ OrderInv'
<1>1. /\ pc = "off" /\ pc' = "found" /\ replay' = withID
      /\ cursor' = (IF withID THEN last ELSE -1)
      /\ joined' = (withID /\ (joined \/ last = -1)) /\ holds' = session'
      /\ \/ up /\ UNCHANGED <<file, open, session, up, nextLine, stuck>>
         \/ /\ ~up /\ up' = TRUE /\ session' = session + 1 /\ stuck' = FALSE /\ open' = open
            /\ file' = (IF file = <<>> THEN << 0 >> ELSE file) /\ nextLine' = Len(file')
      /\ UNCHANGED <<event, sending, channel, closed, last, seen, edits>>
  BY DEF Ev!Connect, Ev!openSessionEventLog, Ev!countJSONLLines, Ev!Meta, Ev!disk, Ev!writer
<1>2. /\ file' \in Seq(Int) /\ nextLine' \in Nat /\ session' \in Nat /\ up' = TRUE
      /\ stuck' \in BOOLEAN /\ open' \in BOOLEAN
  <2>1. CASE up /\ UNCHANGED <<file, open, session, up, nextLine, stuck>>
    BY <2>1 DEF EvType
  <2>2. CASE /\ ~up /\ up' = TRUE /\ session' = session + 1 /\ stuck' = FALSE /\ open' = open
             /\ file' = (IF file = <<>> THEN << 0 >> ELSE file) /\ nextLine' = Len(file')
    <3>1. file' \in Seq(Int) /\ nextLine' \in Nat
      BY <2>2, FileOpened DEF EvType
    <3>2. session' \in Nat /\ open' \in BOOLEAN
      BY <2>2 DEF EvType
    <3> QED
      BY <2>2, <3>1, <3>2
  <2> QED
    BY <1>1, <2>1, <2>2
<1>3. cursor' \in Int /\ cursor' >= -1 /\ joined' \in BOOLEAN
  BY <1>1 DEF EvType, OrderInv
<1>4. EvType'
  BY <1>1, <1>2, <1>3 DEF EvType
<1>5. ~Listens' /\ (sending' # {} => nextLine' > 0 /\ NextId' = NextId)
  BY <1>1 DEF Listens, OrderInv, NextId
<1>6. joined' => Ids(seen) /\ \A i \in DOMAIN seen : seen[i][1] <= last
  <2>1. CASE joined
    BY <2>1 DEF OrderInv
  <2>2. CASE last = -1
    BY <2>2 DEF OrderInv, Ids
  <2> QED
    BY <1>1, <2>1, <2>2
<1>7. joined' => replay' /\ cursor' = last'
  BY <1>1
<1>8. \A p \in sending' : p[1] = NextId'
  BY <1>1, <1>5 DEF OrderInv
<1>9. holds' <= session'
  BY <1>1, <1>2
<1>10. OrderInv'
  BY <1>1, <1>2, <1>3, <1>5, <1>6, <1>7, <1>8, <1>9 DEF OrderInv
<1> QED
  BY <1>4, <1>10

LEMMA RefuseOrder ==
    ASSUME NEW O, NEW C, NEW E, NEW F, Ev(O, C, E, F)!EventStreamAssumption,
           EvType, OrderInv, Ev(O, C, E, F)!RefuseCursor
    PROVE  EvType' /\ OrderInv'
<1>1. UNCHANGED <<file, open, session, up, nextLine, stuck, event, sending, pc, holds,
                  channel, closed, replay, cursor, last, seen, joined, edits>>
  BY DEF Ev!RefuseCursor, Ev!disk, Ev!writer, Ev!handler
<1>2. EvType'
  BY <1>1 DEF EvType
<1>3. OrderInv'
  BY <1>1 DEF OrderInv, NextId, Listens
<1> QED
  BY <1>2, <1>3

LEMMA SubscribeOrder ==
    ASSUME NEW O, NEW C, NEW E, NEW F, Ev(O, C, E, F)!EventStreamAssumption,
           EvType, OrderInv, Ev(O, C, E, F)!Subscribe
    PROVE  EvType' /\ OrderInv'
<1>1. /\ pc = "found" /\ channel' = <<>> /\ closed' = ~(up /\ holds = session)
      /\ pc' = (IF replay THEN "replay" ELSE "live")
      /\ UNCHANGED <<file, open, session, up, nextLine, stuck, event, sending, holds,
                     replay, cursor, last, seen, joined, edits>>
  BY DEF Ev!Subscribe, Ev!disk, Ev!writer, Ev!client
<1>2. channel' \in Seq(Pairs) /\ DOMAIN channel' = {} /\ Ids(channel')
  BY <1>1 DEF Ids
<1>3. EvType'
  BY <1>1, <1>2 DEF EvType
<1>4. NextId' = NextId /\ (Listens' => up')
  BY <1>1 DEF NextId, Listens
<1>5. joined => replay /\ cursor = last /\ pc' = "replay"
  BY <1>1 DEF OrderInv
<1>6. OrderInv'
  BY <1>1, <1>2, <1>4, <1>5 DEF OrderInv
<1> QED
  BY <1>3, <1>6

LEMMA DisconnectOrder ==
    ASSUME NEW O, NEW C, NEW E, NEW F, Ev(O, C, E, F)!EventStreamAssumption,
           EvType, OrderInv, Ev(O, C, E, F)!Disconnect
    PROVE  EvType' /\ OrderInv'
<1>1. /\ pc' = "off" /\ channel' = <<>> /\ closed' = FALSE
      /\ UNCHANGED <<file, open, session, up, nextLine, stuck, event, sending, holds,
                     replay, cursor, last, seen, joined, edits>>
  BY DEF Ev!Disconnect, Ev!Leave, Ev!disk, Ev!writer, Ev!client
<1>2. channel' \in Seq(Pairs) /\ DOMAIN channel' = {} /\ Ids(channel')
  BY <1>1 DEF Ids
<1>3. EvType'
  BY <1>1, <1>2 DEF EvType
<1>4. NextId' = NextId /\ ~Listens'
  BY <1>1 DEF NextId, Listens
<1>5. OrderInv'
  BY <1>1, <1>2, <1>4 DEF OrderInv
<1> QED
  BY <1>3, <1>5

LEMMA EndOrder ==
    ASSUME NEW O, NEW C, NEW E, NEW F, Ev(O, C, E, F)!EventStreamAssumption,
           EvType, OrderInv, Ev(O, C, E, F)!StreamEnds
    PROVE  EvType' /\ OrderInv'
<1>1. /\ pc' = "off" /\ channel' = <<>> /\ closed' = FALSE
      /\ UNCHANGED <<file, open, session, up, nextLine, stuck, event, sending, holds,
                     replay, cursor, last, seen, joined, edits>>
  BY DEF Ev!StreamEnds, Ev!Leave, Ev!disk, Ev!writer, Ev!client
<1>2. channel' \in Seq(Pairs) /\ DOMAIN channel' = {} /\ Ids(channel')
  BY <1>1 DEF Ids
<1>3. EvType'
  BY <1>1, <1>2 DEF EvType
<1>4. NextId' = NextId /\ ~Listens'
  BY <1>1 DEF NextId, Listens
<1>5. OrderInv'
  BY <1>1, <1>2, <1>4 DEF OrderInv
<1> QED
  BY <1>3, <1>5

LEMMA ReplayOrder ==
    ASSUME NEW O, NEW C, NEW E, NEW F, Ev(O, C, E, F)!EventStreamAssumption,
           EvType, OrderInv, Ev(O, C, E, F)!ReplayPage
    PROVE  EvType' /\ OrderInv'
<1> DEFINE page == Ev(O, C, E, F)!Page(cursor)
           r == page.records
<1>1. /\ pc = "replay"
      /\ \/ /\ pc' = "off" /\ channel' = <<>> /\ closed' = FALSE
            /\ UNCHANGED <<cursor, last, seen>>
         \/ /\ seen' = seen \o r
            /\ last' = (IF r = <<>> THEN last ELSE r[Len(r)][1])
            /\ cursor' = (IF r = <<>> THEN cursor ELSE r[Len(r)][1])
            /\ pc' = (IF page.hasMore THEN "replay" ELSE "live")
            /\ UNCHANGED <<channel, closed>>
      /\ UNCHANGED <<file, open, session, up, nextLine, stuck, event, sending, holds,
                     replay, joined, edits>>
  BY DEF Ev!ReplayPage, Ev!Leave, Ev!See, Ev!disk, Ev!writer
<1>2. CASE /\ pc' = "off" /\ channel' = <<>> /\ closed' = FALSE
           /\ UNCHANGED <<cursor, last, seen>>
  <2>1. channel' \in Seq(Pairs) /\ DOMAIN channel' = {} /\ Ids(channel')
    BY <1>2 DEF Ids
  <2>2. EvType'
    BY <1>1, <1>2, <2>1 DEF EvType
  <2>3. NextId' = NextId /\ ~Listens'
    BY <1>1, <1>2 DEF NextId, Listens
  <2> QED
    BY <1>1, <1>2, <2>1, <2>2, <2>3 DEF OrderInv
<1>3. CASE /\ seen' = seen \o r
           /\ last' = (IF r = <<>> THEN last ELSE r[Len(r)][1])
           /\ cursor' = (IF r = <<>> THEN cursor ELSE r[Len(r)][1])
           /\ pc' = (IF page.hasMore THEN "replay" ELSE "live")
           /\ UNCHANGED <<channel, closed>>
  <2>1. r \in Seq(Pairs) /\ Ids(r) /\ \A n \in DOMAIN r : r[n][1] > cursor
    <3>1. PageHolds(file, cursor, page)
      BY PageRecords DEF EvType
    <3> HIDE DEF page
    <3> QED
      BY <3>1 DEF PageHolds
  <2> HIDE DEF page, r
  <2>2. /\ seen \in Seq(Pairs) /\ cursor \in Int /\ last \in Int /\ cursor >= -1 /\ last >= -1
        /\ last = -1 => seen = <<>>
    BY DEF EvType, OrderInv
  <2>3. /\ seen' \in Seq(Pairs)
        /\ \A m \in DOMAIN seen' : \/ m \in DOMAIN seen /\ seen'[m] = seen[m]
                                   \/ m - Len(seen) \in DOMAIN r /\ seen'[m] = r[m - Len(seen)]
        /\ r = <<>> => seen' = seen
    BY <1>3, <2>1, <2>2, ConcatPairs
  <2>4. CASE r = <<>>
    <3>1. last' = last /\ cursor' = cursor /\ seen' = seen
      BY <1>3, <2>3, <2>4
    <3>2. pc' \in {"replay", "live"} /\ (Listens' <=> Listens) /\ NextId' = NextId
      BY <1>1, <1>3 DEF Listens, NextId
    <3>3. EvType'
      BY <1>1, <1>3, <3>1, <3>2 DEF EvType
    <3>4. joined => replay /\ cursor = last
      BY <1>1 DEF OrderInv
    <3> QED
      BY <1>1, <1>3, <2>2, <3>1, <3>2, <3>3, <3>4 DEF OrderInv
  <2>5. CASE r # <<>>
    <3>1. /\ Len(r) \in DOMAIN r /\ last' = r[Len(r)][1] /\ cursor' = last'
          /\ r[Len(r)] \in Pairs
      BY <1>3, <2>1, <2>5, EmptySeq
    <3>2. last' \in Nat /\ last' > cursor
      BY <2>1, <3>1 DEF Pairs
    <3>3. pc' \in {"replay", "live"} /\ (Listens' <=> Listens) /\ NextId' = NextId
      BY <1>1, <1>3 DEF Listens, NextId
    <3>4. EvType'
      BY <1>1, <1>3, <2>3, <3>1, <3>2, <3>3 DEF EvType
    <3>5. \A n \in DOMAIN r : r[n][1] <= last'
      <4>1. SUFFICES ASSUME NEW n \in DOMAIN r PROVE r[n][1] <= r[Len(r)][1]
        BY <3>1
      <4>2. n = Len(r) \/ n < Len(r)
        BY <2>1
      <4>3. r[n][1] \in Nat /\ r[Len(r)][1] \in Nat
        BY <2>1, <3>1 DEF Pairs
      <4>4. CASE n = Len(r)
        BY <4>3, <4>4
      <4>5. CASE n < Len(r)
        BY <2>1, <3>1, <4>3, <4>5 DEF Ids
      <4> QED
        BY <4>2, <4>4, <4>5
    <3>6. ASSUME joined
          PROVE  Ids(seen') /\ \A m \in DOMAIN seen' : seen'[m][1] <= last'
      <4>1. cursor = last /\ Ids(seen) /\ \A i \in DOMAIN seen : seen[i][1] <= last
        BY <1>1, <3>6 DEF OrderInv
      <4>2. /\ \A i \in DOMAIN seen : seen[i][1] \in Nat
            /\ \A j \in DOMAIN r : r[j][1] \in Nat
        BY <2>1, <2>2 DEF Pairs
      <4>3. \A i \in DOMAIN seen, j \in DOMAIN r : seen[i][1] < r[j][1]
        BY <2>1, <2>2, <4>1, <4>2
      <4>4. Ids(seen')
        BY <1>3, <2>1, <2>2, <4>1, <4>3, IdsConcat
      <4>5. \A i \in DOMAIN seen : seen[i][1] <= last'
        BY <2>2, <3>2, <4>1, <4>2
      <4> QED
        BY <2>3, <3>5, <4>4, <4>5
    <3>7. \A k \in DOMAIN channel' : channel'[k][1] > cursor' => channel'[k][1] > last'
      BY <3>1
    <3>8. joined => replay
      BY <1>1 DEF OrderInv
    <3>9. cursor' >= -1 /\ last' >= -1 /\ last' # -1 /\ cursor' <= last' /\ last' = cursor'
      BY <3>1, <3>2
    <3>10. holds' <= session' /\ (sending' # {} => up' /\ nextLine' > 0)
      BY <1>1 DEF OrderInv
    <3>11. (\A p \in sending' : p[1] = NextId') /\ Ids(channel')
      BY <1>1, <1>3, <3>3 DEF OrderInv
    <3>12. Listens' => up' /\ \A i \in DOMAIN channel' : channel'[i][1] < NextId'
      BY <1>1, <1>3, <3>3 DEF OrderInv
    <3>13. OrderInv'
      BY <1>1, <3>3, <3>6, <3>7, <3>8, <3>9, <3>10, <3>11, <3>12 DEF OrderInv
    <3> QED
      BY <3>4, <3>13
  <2> QED
    BY <2>4, <2>5
<1> QED
  BY <1>1, <1>2, <1>3

LEMMA DeliverOrder ==
    ASSUME NEW O, NEW C, NEW E, NEW F, Ev(O, C, E, F)!EventStreamAssumption,
           EvType, OrderInv, Ev(O, C, E, F)!Deliver
    PROVE  EvType' /\ OrderInv'
<1>1. /\ pc = "live" /\ channel # <<>> /\ channel' = Tail(channel)
      /\ \/ replay /\ Head(channel)[1] <= cursor /\ UNCHANGED <<last, seen>>
         \/ /\ ~(replay /\ Head(channel)[1] <= cursor)
            /\ seen' = seen \o <<Head(channel)>>
            /\ last' = <<Head(channel)>>[Len(<<Head(channel)>>)][1]
      /\ UNCHANGED <<file, open, session, up, nextLine, stuck, event, sending, pc, holds,
                     closed, replay, cursor, joined, edits>>
  <2>1. <<Head(channel)>> # <<>>
    OBVIOUS
  <2> QED
    BY <2>1 DEF Ev!Deliver, Ev!See, Ev!disk, Ev!writer
<1> DEFINE h == channel[1]
<1>2. /\ Head(channel) = h /\ h \in Pairs /\ channel' \in Seq(Pairs) /\ 1 \in DOMAIN channel
      /\ \A k \in DOMAIN channel' : k + 1 \in DOMAIN channel /\ channel'[k] = channel[k + 1]
  BY <1>1, TailPairs DEF EvType
<1>3. Ids(channel') /\ \A k \in DOMAIN channel' : h[1] < channel'[k][1]
  BY <1>1, IdsTail DEF EvType, OrderInv
<1>4. /\ h[1] \in Nat /\ \A k \in DOMAIN channel' : channel'[k][1] \in Nat
      /\ cursor \in Int /\ last \in Int /\ cursor >= -1 /\ last >= -1
      /\ seen \in Seq(Pairs)
  BY <1>2 DEF EvType, Pairs, OrderInv
<1>5. (Listens' <=> Listens) /\ NextId' = NextId
  BY <1>1 DEF Listens, NextId
<1>6. Listens => up /\ h[1] < NextId /\ \A k \in DOMAIN channel' : channel'[k][1] < NextId
  BY <1>2 DEF OrderInv
<1> HIDE DEF h
<1>7. CASE replay /\ h[1] <= cursor /\ UNCHANGED <<last, seen>>
  <2>1. EvType'
    BY <1>1, <1>2, <1>7 DEF EvType
  <2>2. joined => \A k \in DOMAIN channel' : channel'[k][1] > cursor => channel'[k][1] > last
    BY <1>1, <1>2 DEF OrderInv
  <2>3. OrderInv'
    BY <1>1, <1>3, <1>5, <1>6, <1>7, <2>2 DEF OrderInv
  <2> QED
    BY <2>1, <2>3
<1>8. CASE /\ ~(replay /\ h[1] <= cursor)
           /\ seen' = seen \o <<h>> /\ last' = <<h>>[Len(<<h>>)][1]
  <2>1. /\ <<h>> \in Seq(Pairs) /\ Len(<<h>>) = 1 /\ DOMAIN <<h>> = {1} /\ <<h>>[1] = h
        /\ Ids(<<h>>)
    BY <1>2 DEF Ids
  <2>2. last' = h[1]
    BY <1>8, <2>1
  <2> DEFINE r == <<h>>
  <2> HIDE DEF r
  <2>3. /\ seen' \in Seq(Pairs)
        /\ \A m \in DOMAIN seen' : \/ m \in DOMAIN seen /\ seen'[m] = seen[m]
                                   \/ m - Len(seen) \in DOMAIN r /\ seen'[m] = r[m - Len(seen)]
    BY <1>4, <1>8, <2>1, ConcatPairs DEF r
  <2>4. EvType'
    BY <1>1, <1>2, <1>4, <2>2, <2>3 DEF EvType
  <2>5. ASSUME joined
        PROVE  /\ Ids(seen') /\ \A i \in DOMAIN seen' : seen'[i][1] <= last'
               /\ replay /\ cursor <= last' /\ last < h[1]
               /\ Listens => last' < NextId
    <3>1. replay /\ h[1] > cursor
      BY <1>1, <1>4, <1>8, <2>5 DEF OrderInv
    <3>2. h[1] > last /\ Ids(seen) /\ \A i \in DOMAIN seen : seen[i][1] <= last
      BY <1>1, <1>2, <2>5, <3>1 DEF OrderInv, h
    <3>3. \A i \in DOMAIN seen : seen[i][1] \in Nat
      BY <1>4 DEF Pairs
    <3>4. \A i \in DOMAIN seen, j \in DOMAIN r : seen[i][1] < r[j][1]
      BY <1>4, <2>1, <3>2, <3>3 DEF r
    <3>5. Ids(seen')
      BY <1>4, <1>8, <2>1, <3>2, <3>4, IdsConcat DEF r
    <3>6. \A i \in DOMAIN seen' : seen'[i][1] <= last'
      BY <1>4, <2>1, <2>2, <2>3, <3>2, <3>3 DEF r
    <3> QED
      BY <1>4, <1>6, <2>2, <3>1, <3>2, <3>5, <3>6
  <2>6. \A k \in DOMAIN channel' : channel'[k][1] > last'
    BY <1>3, <1>4, <2>2
  <2>7. last' >= -1 /\ last' # -1
    BY <1>4, <2>2
  <2>8. OrderInv'
    BY <1>1, <1>3, <1>5, <1>6, <2>5, <2>6, <2>7 DEF OrderInv
  <2> QED
    BY <2>4, <2>8
<1> QED
  BY <1>1, <1>2, <1>7, <1>8

(* Without write faults and message edits: ids are line numbers, and what  *)
(* lies before the client's id has reached it.                             *)

\* The id of an event is the number of its line.
Durable(f, p) == p[1] < Len(f) /\ f[p[1] + 1] = p[2]

LineInv ==
    /\ ~open /\ ~stuck
    /\ \A i \in DOMAIN file : file[i] # -1
    /\ up => nextLine = Len(file)
    /\ last < Len(file) /\ cursor < Len(file)
    /\ \A p \in sending : Durable(file, p)
    /\ \A k \in DOMAIN channel : Durable(file, channel[k])
    /\ \A k \in DOMAIN seen : Durable(file, seen[k])

\* What NoGap needs: a line behind the client's id and before an event of its
\* channel, or before the next one sent, was dropped or stands in the channel.
GapInv ==
    joined =>
      /\ \A i \in DOMAIN file : i - 1 <= last =>
           file[i] \in dropped \/ \E k \in DOMAIN seen : seen[k][2] = file[i]
      /\ pc = "live" => \A k \in DOMAIN channel : \A i \in DOMAIN file :
           last < i - 1 /\ i - 1 < channel[k][1] =>
             \/ file[i] \in dropped
             \/ \E j \in DOMAIN channel : j < k /\ channel[j][1] = i - 1
      /\ pc = "live" /\ Listens => \A i \in DOMAIN file :
           last < i - 1 /\ i - 1 < NextId =>
             file[i] \in dropped \/ \E j \in DOMAIN channel : channel[j][1] = i - 1

LEMMA DurableGrows ==
    ASSUME NEW f \in Seq(Int), NEW g \in Seq(Int), Len(g) >= Len(f),
           \A i \in DOMAIN f : g[i] = f[i]
    PROVE  \A p \in Pairs : Durable(f, p) => Durable(g, p)
<1>1. SUFFICES ASSUME NEW p \in Pairs, p[1] < Len(f), f[p[1] + 1] = p[2]
               PROVE  p[1] < Len(g) /\ g[p[1] + 1] = p[2]
  BY DEF Durable
<1>2. p[1] \in Nat
  BY DEF Pairs
<1>3. p[1] + 1 \in DOMAIN f /\ p[1] < Len(g)
  BY <1>1, <1>2
<1> QED
  BY <1>1, <1>3

\* A step that leaves the log and the client alone, and the channel, or clears it.
LEMMA QuietLines ==
    ASSUME EvType, LineInv, GapInv,
           UNCHANGED <<file, open, stuck, nextLine, last, cursor, sending, seen, dropped, joined>>,
           up' => up, channel' = channel \/ channel' = <<>>,
           joined /\ pc' = "live" => pc = "live" /\ channel' = channel,
           joined /\ pc' = "live" /\ Listens' => Listens
    PROVE  LineInv' /\ GapInv'
<1>1. \A k \in DOMAIN channel' : k \in DOMAIN channel /\ channel'[k] = channel[k]
  <2>1. CASE channel' = <<>>
    BY <2>1
  <2> QED
    BY <2>1
<1>2. LineInv'
  BY <1>1 DEF LineInv
<1>3. NextId' = NextId
  BY DEF NextId
<1>4. GapInv'
  <2>1. SUFFICES ASSUME joined'
                 PROVE  /\ \A i \in DOMAIN file : i - 1 <= last =>
                             file[i] \in dropped \/ \E k \in DOMAIN seen : seen[k][2] = file[i]
                        /\ pc' = "live" => \A k \in DOMAIN channel : \A i \in DOMAIN file :
                             last < i - 1 /\ i - 1 < channel[k][1] =>
                               \/ file[i] \in dropped
                               \/ \E j \in DOMAIN channel : j < k /\ channel[j][1] = i - 1
                        /\ pc' = "live" /\ Listens' => \A i \in DOMAIN file :
                             last < i - 1 /\ i - 1 < NextId =>
                               \/ file[i] \in dropped
                               \/ \E j \in DOMAIN channel : channel[j][1] = i - 1
    BY <1>3 DEF GapInv
  <2> QED
    BY <2>1 DEF GapInv
<1> QED
  BY <1>2, <1>4

\* A session is open, or is opened, and nothing is sent.
LEMMA OpenedLines ==
    ASSUME EvType, OrderInv, LineInv, GapInv,
           \/ up /\ file' = file /\ nextLine' = nextLine
           \/ file' = (IF file = <<>> THEN << 0 >> ELSE file) /\ nextLine' = Len(file'),
           open' = FALSE, stuck' = FALSE,
           UNCHANGED <<last, channel, sending, seen, dropped>>,
           cursor' = cursor \/ cursor' = last \/ cursor' = -1,
           joined' => joined \/ last = -1,
           pc' # "live" \/ (pc' = pc /\ ~Listens' /\ joined' = joined)
    PROVE  LineInv' /\ GapInv'
<1>1. /\ file' \in Seq(Int) /\ Len(file') >= Len(file) /\ nextLine' = Len(file')
      /\ \A i \in DOMAIN file : file'[i] = file[i]
      /\ \A i \in DOMAIN file' : i \in DOMAIN file \/ file'[i] = 0
      /\ Len(file) \in Nat /\ Len(file') \in Nat
  <2>1. CASE up /\ file' = file /\ nextLine' = nextLine
    BY <2>1 DEF LineInv, EvType
  <2>2. CASE file' = (IF file = <<>> THEN << 0 >> ELSE file) /\ nextLine' = Len(file')
    <3>1. file \in Seq(Int) /\ Len(file) \in Nat
      BY DEF EvType
    <3> QED
      BY <2>2, <3>1, FileOpened
  <2> QED
    BY <2>1, <2>2
<1>2. \A p \in Pairs : Durable(file, p) => Durable(file', p)
  BY <1>1, DurableGrows DEF EvType
<1>3. /\ sending \subseteq Pairs /\ channel \in Seq(Pairs) /\ seen \in Seq(Pairs)
      /\ last \in Int /\ cursor \in Int /\ file \in Seq(Int) /\ cursor >= -1 /\ last >= -1
  BY DEF EvType, OrderInv
<1>4. LineInv'
  <2>1. \A i \in DOMAIN file' : file'[i] # -1
    BY <1>1 DEF LineInv
  <2>2. last' < Len(file') /\ cursor' < Len(file')
    BY <1>1, <1>3 DEF LineInv
  <2>3. /\ \A p \in sending' : Durable(file', p)
        /\ \A k \in DOMAIN channel' : Durable(file', channel'[k])
        /\ \A k \in DOMAIN seen' : Durable(file', seen'[k])
    <3>1. /\ \A k \in DOMAIN channel : channel[k] \in Pairs
          /\ \A k \in DOMAIN seen : seen[k] \in Pairs
      BY <1>3
    <3> QED
      BY <1>2, <1>3, <3>1 DEF LineInv
  <2> QED
    BY <1>1, <2>1, <2>2, <2>3 DEF LineInv
<1>5. ASSUME joined'
      PROVE  \A i \in DOMAIN file' : i - 1 <= last =>
                file'[i] \in dropped \/ \E k \in DOMAIN seen : seen[k][2] = file'[i]
  <2>1. SUFFICES ASSUME NEW i \in DOMAIN file', i - 1 <= last
                 PROVE  file'[i] \in dropped \/ \E k \in DOMAIN seen : seen[k][2] = file'[i]
    OBVIOUS
  <2>2. last < Len(file) /\ i \in Nat /\ i >= 1
    BY <1>1 DEF LineInv
  <2>3. i \in DOMAIN file /\ last # -1
    <3>1. DOMAIN file = 1..Len(file) /\ Len(file) \in Nat /\ last \in Int
      BY <1>3
    <3> QED
      BY <2>1, <2>2, <3>1
  <2>4. joined
    BY <1>5, <2>3
  <2>5. file'[i] = file[i]
    BY <1>1, <2>3
  <2> QED
    BY <2>1, <2>3, <2>4, <2>5 DEF GapInv
<1>6. ASSUME joined', pc' = "live", NEW k \in DOMAIN channel, NEW i \in DOMAIN file',
             last < i - 1, i - 1 < channel[k][1]
      PROVE  \/ file'[i] \in dropped
             \/ \E j \in DOMAIN channel : j < k /\ channel[j][1] = i - 1
  <2>1. joined /\ pc = "live"
    BY <1>6
  <2>2. channel[k][1] < Len(file) /\ channel[k][1] \in Nat
    BY <1>3 DEF LineInv, Durable, Pairs
  <2>3. i \in Nat /\ i >= 1
    BY <1>1
  <2>4. i \in DOMAIN file
    <3>1. i - 1 < channel[k][1] /\ DOMAIN file = 1..Len(file) /\ Len(file) \in Nat
      BY <1>3, <1>6
    <3> QED
      BY <2>2, <2>3, <3>1
  <2>5. file'[i] = file[i]
    BY <1>1, <2>4
  <2> QED
    BY <1>6, <2>1, <2>4, <2>5 DEF GapInv
<1>7. GapInv'
  <2>1. ~(joined' /\ pc' = "live" /\ Listens')
    OBVIOUS
  <2> QED
    BY <1>5, <1>6, <2>1 DEF GapInv
<1> QED
  BY <1>4, <1>7

LEMMA OpenLines ==
    ASSUME NEW O, NEW C, Ev(O, C, 0, FALSE)!EventStreamAssumption,
           EvType, OrderInv, LineInv, GapInv, Ev(O, C, 0, FALSE)!Open
    PROVE  LineInv' /\ GapInv'
<1>1. /\ ~up /\ up' = TRUE /\ session' = session + 1 /\ stuck' = FALSE /\ open' = open
      /\ file' = (IF file = <<>> THEN << 0 >> ELSE file) /\ nextLine' = Len(file')
      /\ UNCHANGED <<sending, pc, holds, channel, closed, cursor, last, seen, joined, dropped>>
  BY DEF Ev!Open, Ev!openSessionEventLog, Ev!countJSONLLines, Ev!Meta, Ev!handler, Ev!client
<1>2. ~Listens' /\ open' = FALSE
  BY <1>1 DEF OrderInv, EvType, Listens, LineInv
<1> QED
  BY <1>1, <1>2, OpenedLines

LEMMA ConnectLines ==
    ASSUME NEW O, NEW C, Ev(O, C, 0, FALSE)!EventStreamAssumption,
           EvType, OrderInv, LineInv, GapInv, NEW withID \in BOOLEAN,
           Ev(O, C, 0, FALSE)!Connect(withID)
    PROVE  LineInv' /\ GapInv'
<1>1. /\ pc' = "found" /\ cursor' = (IF withID THEN last ELSE -1)
      /\ joined' = (withID /\ (joined \/ last = -1))
      /\ \/ up /\ UNCHANGED <<file, open, nextLine, stuck>>
         \/ /\ stuck' = FALSE /\ open' = open
            /\ file' = (IF file = <<>> THEN << 0 >> ELSE file) /\ nextLine' = Len(file')
      /\ UNCHANGED <<sending, channel, last, seen, dropped>>
  BY DEF Ev!Connect, Ev!openSessionEventLog, Ev!countJSONLLines, Ev!Meta, Ev!disk, Ev!writer
<1>2. open' = FALSE /\ stuck' = FALSE
  BY <1>1 DEF LineInv, EvType
<1>3. cursor' = cursor \/ cursor' = last \/ cursor' = -1
  BY <1>1
<1>4. (joined' => joined \/ last = -1) /\ pc' # "live"
  BY <1>1
<1>5. \/ up /\ file' = file /\ nextLine' = nextLine
      \/ file' = (IF file = <<>> THEN << 0 >> ELSE file) /\ nextLine' = Len(file')
  BY <1>1
<1> QED
  BY <1>1, <1>2, <1>3, <1>4, <1>5, OpenedLines

LEMMA RecordLines ==
    ASSUME NEW O, NEW C, Ev(O, C, 0, FALSE)!EventStreamAssumption,
           EvType, OrderInv, LineInv, GapInv, Ev(O, C, 0, FALSE)!Record
    PROVE  LineInv' /\ GapInv'
<1>1. /\ up /\ sending = {} /\ event' = event + 1 /\ nextLine' = nextLine + 1
      /\ sending' = {<<nextLine, event'>>} /\ Ev(O, C, 0, FALSE)!Write(event')
      /\ UNCHANGED <<session, up, pc, holds, channel, closed, cursor, last, seen, joined,
                     dropped>>
  BY DEF Ev!Record, Ev!handler, Ev!client
<1>2. file' = Append(file, event') /\ open' = FALSE /\ stuck' = FALSE
  BY <1>1 DEF Ev!Write, Ev!Appended, LineInv
<1>3. /\ file \in Seq(Int) /\ Len(file) = nextLine /\ nextLine \in Nat /\ event' \in Nat
      /\ DOMAIN file = 1..nextLine
  BY <1>1 DEF EvType, LineInv
<1>4. /\ file' \in Seq(Int) /\ Len(file') = nextLine + 1
      /\ \A i \in 1..nextLine : file'[i] = file[i]
      /\ file'[nextLine + 1] = event' /\ DOMAIN file' = 1..(nextLine + 1)
  <2>1. event' \in Int
    BY <1>3
  <2>2. /\ file' \in Seq(Int) /\ Len(file') = Len(file) + 1
        /\ \A i \in 1..Len(file) : file'[i] = file[i]
        /\ file'[Len(file) + 1] = event'
    BY <1>2, <1>3, <2>1, AppendProperties
  <2> QED
    BY <1>3, <2>2
<1>5. \A p \in Pairs : Durable(file, p) => Durable(file', p)
  BY <1>3, <1>4, DurableGrows
<1>6. /\ channel \in Seq(Pairs) /\ seen \in Seq(Pairs) /\ last \in Int /\ cursor \in Int
      /\ NextId = nextLine /\ NextId' = nextLine
  <2>1. (nextLine + 1) - 1 = nextLine
    BY <1>3
  <2> QED
    BY <1>1, <2>1 DEF EvType, NextId
<1>7. LineInv'
  <2>1. \A i \in DOMAIN file' : file'[i] # -1
    <3>1. SUFFICES ASSUME NEW i \in 1..(nextLine + 1) PROVE file'[i] # -1
      BY <1>4
    <3>2. i \in 1..nextLine \/ i = nextLine + 1
      BY <1>3
    <3> QED
      BY <3>2, <1>3, <1>4 DEF LineInv
  <2>2. last' < Len(file') /\ cursor' < Len(file')
    BY <1>1, <1>3, <1>4, <1>6 DEF LineInv
  <2>3. \A p \in sending' : Durable(file', p)
    BY <1>1, <1>3, <1>4 DEF Durable
  <2>4. /\ \A k \in DOMAIN channel' : Durable(file', channel'[k])
        /\ \A k \in DOMAIN seen' : Durable(file', seen'[k])
    <3>1. /\ \A k \in DOMAIN channel : channel[k] \in Pairs
          /\ \A k \in DOMAIN seen : seen[k] \in Pairs
      BY <1>6
    <3> QED
      BY <1>1, <1>5, <3>1 DEF LineInv
  <2> QED
    BY <1>1, <1>2, <1>4, <2>1, <2>2, <2>3, <2>4 DEF LineInv
<1>8. \A i \in DOMAIN file' : i - 1 < nextLine => i \in DOMAIN file /\ file'[i] = file[i]
  BY <1>3, <1>4
<1>9. last < nextLine /\ \A k \in DOMAIN channel : /\ channel[k][1] < nextLine
                                                   /\ channel[k][1] \in Nat
  BY <1>3, <1>6 DEF LineInv, Durable, Pairs
<1>10. Listens' <=> Listens
  BY <1>1 DEF Listens
<1>11. \A i \in DOMAIN file' : i \in Nat
  BY <1>4
<1>12. GapInv'
  <2>1. SUFFICES ASSUME joined
                 PROVE  /\ \A i \in DOMAIN file' : i - 1 <= last =>
                             file'[i] \in dropped \/ \E k \in DOMAIN seen : seen[k][2] = file'[i]
                        /\ pc = "live" => \A k \in DOMAIN channel : \A i \in DOMAIN file' :
                             last < i - 1 /\ i - 1 < channel[k][1] =>
                               \/ file'[i] \in dropped
                               \/ \E j \in DOMAIN channel : j < k /\ channel[j][1] = i - 1
                        /\ pc = "live" /\ Listens => \A i \in DOMAIN file' :
                             last < i - 1 /\ i - 1 < nextLine =>
                               \/ file'[i] \in dropped
                               \/ \E j \in DOMAIN channel : channel[j][1] = i - 1
    BY <1>1, <1>6, <1>10 DEF GapInv
  <2>2. ASSUME NEW i \in DOMAIN file', i - 1 <= last
        PROVE  file'[i] \in dropped \/ \E k \in DOMAIN seen : seen[k][2] = file'[i]
    <3>1. i \in DOMAIN file /\ file'[i] = file[i]
      BY <2>2, <1>3, <1>6, <1>8, <1>9, <1>11
    <3> QED
      BY <2>1, <2>2, <3>1 DEF GapInv
  <2>3. ASSUME pc = "live", NEW k \in DOMAIN channel, NEW i \in DOMAIN file',
               last < i - 1, i - 1 < channel[k][1]
        PROVE  \/ file'[i] \in dropped
               \/ \E j \in DOMAIN channel : j < k /\ channel[j][1] = i - 1
    <3>1. i \in DOMAIN file /\ file'[i] = file[i]
      BY <2>3, <1>3, <1>8, <1>9, <1>11
    <3> QED
      BY <2>1, <2>3, <3>1 DEF GapInv
  <2>4. ASSUME pc = "live", Listens, NEW i \in DOMAIN file', last < i - 1, i - 1 < nextLine
        PROVE  file'[i] \in dropped \/ \E j \in DOMAIN channel : channel[j][1] = i - 1
    <3>1. i \in DOMAIN file /\ file'[i] = file[i]
      BY <2>4, <1>8
    <3> QED
      BY <2>1, <2>4, <3>1, <1>6 DEF GapInv
  <2> QED
    BY <2>2, <2>3, <2>4
<1> QED
  BY <1>7, <1>12

LEMMA SendLines ==
    ASSUME NEW O, NEW C, Ev(O, C, 0, FALSE)!EventStreamAssumption,
           EvType, OrderInv, LineInv, GapInv, Ev(O, C, 0, FALSE)!Send
    PROVE  LineInv' /\ GapInv'
<1>1. /\ sending # {} /\ sending' = {}
      /\ \E p \in sending :
           /\ channel' = IF Listens /\ Len(channel) < Buffer THEN Append(channel, p) ELSE channel
           /\ dropped' = IF Listens /\ Len(channel) >= Buffer
                         THEN dropped \cup {p[2]} ELSE dropped
      /\ UNCHANGED <<file, open, session, up, nextLine, stuck, pc, holds, closed,
                     cursor, last, seen, joined>>
  BY DEF Ev!Send, Ev!Subscribed, Listens, Ev!disk, Ev!writer, Ev!client
<1>2. PICK p \in sending :
        /\ channel' = IF Listens /\ Len(channel) < Buffer THEN Append(channel, p) ELSE channel
        /\ dropped' = IF Listens /\ Len(channel) >= Buffer
                      THEN dropped \cup {p[2]} ELSE dropped
  BY <1>1
<1>3. /\ p \in Pairs /\ p[1] = NextId /\ NextId = nextLine - 1 /\ NextId' = nextLine
      /\ nextLine \in Nat /\ Durable(file, p)
  BY <1>1 DEF OrderInv, EvType, NextId, LineInv
<1>4. Listens' <=> Listens
  BY <1>1 DEF Listens
<1>5. /\ channel \in Seq(Pairs) /\ \A e \in dropped : e \in dropped'
      /\ \A i \in DOMAIN file : i \in Nat /\ i >= 1
  <2>1. \A e \in dropped : e \in dropped'
    BY <1>2
  <2> QED
    BY <2>1 DEF EvType
<1>6. \A i \in DOMAIN file : i - 1 < NextId' => i - 1 < NextId \/ (i - 1 = p[1] /\ file[i] = p[2])
  <2>1. SUFFICES ASSUME NEW i \in DOMAIN file, i - 1 < nextLine, ~(i - 1 < NextId)
                 PROVE  i - 1 = p[1] /\ file[i] = p[2]
    BY <1>3
  <2>2. i - 1 = p[1] /\ p[1] + 1 = i
    BY <2>1, <1>3, <1>5
  <2> QED
    BY <2>2, <1>3 DEF Durable
<1>7. CASE Listens /\ Len(channel) < Buffer
  <2>1. channel' = Append(channel, p) /\ \A e \in dropped' : e \in dropped
    <3>1. Len(channel) \in Nat /\ Buffer \in Nat
      BY <1>5 DEF Ev!EventStreamAssumption
    <3>2. ~(Len(channel) >= Buffer)
      BY <1>7, <3>1
    <3> QED
      BY <1>2, <1>7, <3>2
  <2> DEFINE n == Len(channel) + 1
  <2>2. /\ n \in DOMAIN channel' /\ channel'[n] = p
        /\ \A k \in DOMAIN channel : k \in DOMAIN channel' /\ k < n /\ channel'[k] = channel[k]
        /\ \A k \in DOMAIN channel' : k \in Nat /\ (k \in DOMAIN channel \/ k = n)
    BY <1>3, <1>5, <2>1, AppendPairs
  <2> HIDE DEF n
  <2>3. LineInv'
    <3>1. \A k \in DOMAIN channel' : Durable(file, channel'[k])
      BY <1>3, <2>2 DEF LineInv
    <3> QED
      BY <1>1, <3>1 DEF LineInv
  <2>4. ASSUME joined, pc = "live", NEW k \in DOMAIN channel', NEW i \in DOMAIN file,
               last < i - 1, i - 1 < channel'[k][1]
        PROVE  \/ file[i] \in dropped
               \/ \E j \in DOMAIN channel' : j < k /\ channel'[j][1] = i - 1
    <3>1. CASE k \in DOMAIN channel
      <4>1. \/ file[i] \in dropped
            \/ \E j \in DOMAIN channel : j < k /\ channel[j][1] = i - 1
        BY <2>2, <2>4, <3>1 DEF GapInv
      <4> QED
        BY <2>2, <4>1
    <3>2. CASE k = n
      <4>1. i - 1 < NextId
        BY <1>3, <2>2, <2>4, <3>2
      <4>2. \/ file[i] \in dropped
            \/ \E j \in DOMAIN channel : channel[j][1] = i - 1
        BY <1>7, <2>4, <4>1 DEF GapInv
      <4> QED
        BY <2>2, <3>2, <4>2
    <3> QED
      BY <2>2, <3>1, <3>2
  <2>5. ASSUME joined, pc = "live", NEW i \in DOMAIN file, last < i - 1, i - 1 < NextId'
        PROVE  \/ file[i] \in dropped
               \/ \E j \in DOMAIN channel' : channel'[j][1] = i - 1
    <3>1. CASE i - 1 < NextId
      <4>1. \/ file[i] \in dropped
            \/ \E j \in DOMAIN channel : channel[j][1] = i - 1
        BY <1>7, <2>5, <3>1 DEF GapInv
      <4> QED
        BY <2>2, <4>1
    <3>2. CASE i - 1 = p[1]
      BY <2>2, <3>2
    <3> QED
      BY <2>5, <1>6, <3>1, <3>2
  <2>6. dropped' = dropped
    BY <1>5, <2>1
  <2>7. GapInv'
    <3>1. SUFFICES ASSUME joined
                   PROVE  \A i \in DOMAIN file : i - 1 <= last =>
                             file[i] \in dropped \/ \E k \in DOMAIN seen : seen[k][2] = file[i]
      BY <1>1, <2>4, <2>5, <2>6 DEF GapInv
    <3> QED
      BY <3>1 DEF GapInv
  <2> QED
    BY <2>3, <2>7
<1>8. CASE ~(Listens /\ Len(channel) < Buffer)
  <2>1. channel' = channel
    BY <1>2, <1>8
  <2>2. LineInv'
    BY <1>1, <2>1 DEF LineInv
  <2>3. ASSUME joined, pc = "live", Listens, NEW i \in DOMAIN file, last < i - 1, i - 1 < NextId'
        PROVE  file[i] \in dropped' \/ \E j \in DOMAIN channel : channel[j][1] = i - 1
    <3>1. CASE i - 1 < NextId
      BY <1>5, <2>3, <3>1 DEF GapInv
    <3>2. CASE file[i] = p[2]
      <4>1. Len(channel) \in Nat /\ Buffer \in Nat
        BY <1>5 DEF Ev!EventStreamAssumption
      <4>2. Len(channel) >= Buffer
        BY <1>8, <2>3, <4>1
      <4> QED
        BY <1>2, <2>3, <3>2, <4>2
    <3> QED
      BY <2>3, <1>6, <3>1, <3>2
  <2>4. ASSUME joined, pc = "live", NEW k \in DOMAIN channel, NEW i \in DOMAIN file,
               last < i - 1, i - 1 < channel[k][1]
        PROVE  file[i] \in dropped' \/ \E j \in DOMAIN channel : j < k /\ channel[j][1] = i - 1
    BY <1>5, <2>4 DEF GapInv
  <2>5. ASSUME joined, NEW i \in DOMAIN file, i - 1 <= last
        PROVE  file[i] \in dropped' \/ \E k \in DOMAIN seen : seen[k][2] = file[i]
    BY <1>5, <2>5 DEF GapInv
  <2>6. GapInv'
    BY <1>1, <1>4, <2>1, <2>3, <2>4, <2>5 DEF GapInv
  <2> QED
    BY <2>2, <2>6
<1> QED
  BY <1>7, <1>8

LEMMA CloseLines ==
    ASSUME NEW O, NEW C, Ev(O, C, 0, FALSE)!EventStreamAssumption,
           EvType, OrderInv, LineInv, GapInv, Ev(O, C, 0, FALSE)!Close
    PROVE  LineInv' /\ GapInv'
<1>1. /\ up' = FALSE /\ closed' = (closed \/ Listens)
      /\ UNCHANGED <<file, open, stuck, nextLine, sending, pc, channel, holds, session, cursor,
                     last, seen, joined, dropped>>
  BY DEF Ev!Close, Ev!CloseSession, Ev!Subscribed, Listens, Ev!disk, Ev!client
<1>2. ~Listens'
  BY <1>1 DEF Listens
<1> QED
  BY <1>1, <1>2, QuietLines

LEMMA EditLines ==
    ASSUME NEW O, NEW C, Ev(O, C, 0, FALSE)!EventStreamAssumption,
           EvType, OrderInv, LineInv, GapInv, Ev(O, C, 0, FALSE)!Edit
    PROVE  LineInv' /\ GapInv'
<1>1. edits < 0
  BY DEF Ev!Edit
<1> QED
  BY <1>1 DEF EvType

LEMMA RefuseLines ==
    ASSUME NEW O, NEW C, Ev(O, C, 0, FALSE)!EventStreamAssumption,
           EvType, OrderInv, LineInv, GapInv, Ev(O, C, 0, FALSE)!RefuseCursor
    PROVE  LineInv' /\ GapInv'
<1>1. UNCHANGED <<file, open, session, up, nextLine, stuck, sending, pc, holds,
                  channel, closed, cursor, last, seen, joined, dropped>>
  BY DEF Ev!RefuseCursor, Ev!disk, Ev!writer, Ev!handler
<1>2. Listens' => Listens
  BY <1>1 DEF Listens
<1> QED
  BY <1>1, <1>2, QuietLines

LEMMA SubscribeLines ==
    ASSUME NEW O, NEW C, Ev(O, C, 0, FALSE)!EventStreamAssumption,
           EvType, OrderInv, LineInv, GapInv, Ev(O, C, 0, FALSE)!Subscribe
    PROVE  LineInv' /\ GapInv'
<1>1. /\ pc = "found" /\ channel' = <<>> /\ pc' = (IF replay THEN "replay" ELSE "live")
      /\ UNCHANGED <<file, open, stuck, nextLine, up, sending, cursor, last, seen, joined, dropped>>
  BY DEF Ev!Subscribe, Ev!disk, Ev!writer, Ev!client
<1>2. joined => pc' # "live"
  BY <1>1 DEF OrderInv
<1> QED
  BY <1>1, <1>2, QuietLines

LEMMA DisconnectLines ==
    ASSUME NEW O, NEW C, Ev(O, C, 0, FALSE)!EventStreamAssumption,
           EvType, OrderInv, LineInv, GapInv, Ev(O, C, 0, FALSE)!Disconnect
    PROVE  LineInv' /\ GapInv'
<1>1. /\ pc' = "off" /\ channel' = <<>>
      /\ UNCHANGED <<file, open, stuck, nextLine, up, sending, cursor, last, seen, joined, dropped>>
  BY DEF Ev!Disconnect, Ev!Leave, Ev!disk, Ev!writer, Ev!client
<1> QED
  BY <1>1, QuietLines

LEMMA EndLines ==
    ASSUME NEW O, NEW C, Ev(O, C, 0, FALSE)!EventStreamAssumption,
           EvType, OrderInv, LineInv, GapInv, Ev(O, C, 0, FALSE)!StreamEnds
    PROVE  LineInv' /\ GapInv'
<1>1. /\ pc' = "off" /\ channel' = <<>>
      /\ UNCHANGED <<file, open, stuck, nextLine, up, sending, cursor, last, seen, joined, dropped>>
  BY DEF Ev!StreamEnds, Ev!Leave, Ev!disk, Ev!writer, Ev!client
<1> QED
  BY <1>1, QuietLines

LEMMA ReplayLines ==
    ASSUME NEW O, NEW C, Ev(O, C, 0, FALSE)!EventStreamAssumption,
           EvType, OrderInv, LineInv, GapInv, Ev(O, C, 0, FALSE)!ReplayPage
    PROVE  LineInv' /\ GapInv'
<1> DEFINE page == Ev(O, C, 0, FALSE)!Page(cursor)
           r == page.records
<1>1. /\ pc = "replay"
      /\ \/ /\ pc' = "off" /\ channel' = <<>> /\ closed' = FALSE
            /\ UNCHANGED <<cursor, last, seen>>
         \/ /\ seen' = seen \o r
            /\ last' = (IF r = <<>> THEN last ELSE r[Len(r)][1])
            /\ cursor' = (IF r = <<>> THEN cursor ELSE r[Len(r)][1])
            /\ pc' = (IF page.hasMore THEN "replay" ELSE "live")
            /\ UNCHANGED <<channel, closed>>
      /\ UNCHANGED <<file, open, up, nextLine, stuck, sending, joined, dropped>>
  BY DEF Ev!ReplayPage, Ev!Leave, Ev!See, Ev!disk, Ev!writer
<1>2. CASE /\ pc' = "off" /\ channel' = <<>> /\ UNCHANGED <<cursor, last, seen>>
  BY <1>1, <1>2, QuietLines
<1>3. CASE /\ seen' = seen \o r
           /\ last' = (IF r = <<>> THEN last ELSE r[Len(r)][1])
           /\ cursor' = (IF r = <<>> THEN cursor ELSE r[Len(r)][1])
           /\ pc' = (IF page.hasMore THEN "replay" ELSE "live")
           /\ channel' = channel
  <2> DEFINE more == page.hasMore
  <2>1. /\ r \in Seq(Pairs) /\ Ids(r)
        /\ \A n \in DOMAIN r : /\ r[n][1] > cursor /\ r[n][1] < Len(file)
                               /\ file[r[n][1] + 1] = r[n][2]
        /\ \A i \in DOMAIN file :
             /\ i - 1 > cursor /\ file[i] # -1
             /\ ~more \/ (r # <<>> /\ i - 1 <= r[Len(r)][1])
             => \E n \in DOMAIN r : r[n] = <<i - 1, file[i]>>
    <3>1. cursor \in Int /\ file \in Seq(Int)
      BY DEF EvType
    <3>2. PageHolds(file, cursor, page)
      BY <3>1, PageRecords
    <3> HIDE DEF page
    <3> QED
      BY <3>2 DEF PageHolds
  <2> HIDE DEF page, r, more
  <2>2. /\ seen \in Seq(Pairs) /\ cursor \in Int /\ last \in Int
        /\ channel \in Seq(Pairs) /\ file \in Seq(Int)
    BY DEF EvType
  <2>3. /\ \A m \in DOMAIN seen' : \/ m \in DOMAIN seen /\ seen'[m] = seen[m]
                                   \/ m - Len(seen) \in DOMAIN r /\ seen'[m] = r[m - Len(seen)]
        /\ \A m \in DOMAIN seen : m \in DOMAIN seen' /\ seen'[m] = seen[m]
        /\ \A m \in DOMAIN r : \E k \in DOMAIN seen' : seen'[k] = r[m]
    <3>1. /\ \A m \in DOMAIN seen' :
               \/ m \in DOMAIN seen /\ seen'[m] = seen[m]
               \/ m - Len(seen) \in DOMAIN r /\ seen'[m] = r[m - Len(seen)]
          /\ \A m \in DOMAIN seen : m \in DOMAIN seen' /\ seen'[m] = seen[m]
      BY <1>3, <2>1, <2>2, ConcatPairs
    <3>2. \A m \in DOMAIN r : Len(seen) + m \in DOMAIN seen' /\ seen'[Len(seen) + m] = r[m]
      BY <1>3, <2>1, <2>2, ConcatPairs
    <3> QED
      BY <3>1, <3>2
  <2>4. /\ last' = last \/ \E n \in DOMAIN r : last' = r[n][1]
        /\ cursor' = cursor \/ \E n \in DOMAIN r : cursor' = r[n][1]
    BY <1>3, <2>1, EmptySeq
  <2>5. \A n \in DOMAIN r : Durable(file, r[n])
    BY <2>1 DEF Durable
  <2>6. LineInv'
    <3>1. last' < Len(file) /\ cursor' < Len(file)
      BY <2>1, <2>4 DEF LineInv
    <3>2. \A k \in DOMAIN seen' : Durable(file, seen'[k])
      BY <2>3, <2>5 DEF LineInv
    <3> QED
      BY <1>1, <1>3, <3>1, <3>2 DEF LineInv
  <2>7. ASSUME joined, NEW i \in DOMAIN file, i - 1 <= last'
        PROVE  file[i] \in dropped \/ \E k \in DOMAIN seen' : seen'[k][2] = file[i]
    <3>1. cursor = last /\ i \in Nat /\ file[i] # -1
      BY <1>1, <2>2, <2>7 DEF OrderInv, LineInv
    <3>2. CASE i - 1 <= last
      <4>1. file[i] \in dropped \/ \E k \in DOMAIN seen : seen[k][2] = file[i]
        BY <2>7, <3>2 DEF GapInv
      <4> QED
        BY <2>3, <4>1
    <3>3. CASE i - 1 > last
      <4>1. r # <<>> /\ i - 1 <= r[Len(r)][1]
        <5>1. CASE r = <<>>
          BY <1>3, <2>2, <2>7, <3>1, <3>3, <5>1
        <5>2. CASE r # <<>>
          BY <1>3, <2>7, <5>2
        <5> QED
          BY <5>1, <5>2
      <4>2. PICK n \in DOMAIN r : r[n] = <<i - 1, file[i]>>
        BY <2>1, <3>1, <3>3, <4>1
      <4>3. PICK k \in DOMAIN seen' : seen'[k] = r[n]
        BY <2>3
      <4>4. seen'[k][2] = file[i]
        BY <4>2, <4>3
      <4> QED
        BY <4>4
    <3> QED
      BY <2>2, <3>1, <3>2, <3>3
  <2>8. ASSUME joined, pc' = "live", NEW i \in DOMAIN file PROVE i - 1 <= last'
    <3>1. cursor = last /\ i \in Nat /\ i >= 1 /\ file[i] # -1 /\ ~more /\ cursor' = last'
      BY <1>1, <1>3, <2>2, <2>8 DEF OrderInv, LineInv, more
    <3>2. CASE i - 1 > cursor
      <4>1. PICK n \in DOMAIN r : r[n] = <<i - 1, file[i]>>
        BY <2>1, <3>1, <3>2
      <4>2. r # <<>> /\ last' = r[Len(r)][1] /\ Len(r) \in DOMAIN r /\ n \in Nat /\ n <= Len(r)
            /\ r[n] \in Pairs /\ r[Len(r)] \in Pairs
        <5>1. Len(r) \in Nat /\ DOMAIN r = 1..Len(r) /\ n \in 1..Len(r)
          BY <2>1
        <5>2. Len(r) \in DOMAIN r /\ r # <<>>
          BY <5>1
        <5> QED
          BY <1>3, <2>1, <5>1, <5>2
      <4>3. Ids(r)
        BY <2>1
      <4>4. r[n][1] = i - 1
        BY <4>1
      <4>5. CASE n = Len(r)
        BY <3>1, <4>2, <4>4, <4>5
      <4>6. CASE n < Len(r)
        <5>1. r[n][1] < r[Len(r)][1] /\ r[Len(r)][1] \in Nat
          BY <4>1, <4>2, <4>3, <4>6 DEF Ids, Pairs
        <5> QED
          BY <3>1, <4>2, <4>4, <5>1
      <4>7. Len(r) \in Nat
        BY <2>1
      <4> QED
        BY <4>2, <4>5, <4>6, <4>7
    <3>3. CASE ~(i - 1 > cursor)
      <4>1. last' >= last
        <5>1. \A n \in DOMAIN r : r[n][1] \in Nat /\ r[n][1] > last
          BY <2>1, <3>1 DEF Pairs
        <5> QED
          BY <2>2, <2>4, <5>1
      <4>2. last' \in Int
        BY <2>1, <2>2, <2>4 DEF Pairs
      <4> QED
        BY <2>2, <3>1, <3>3, <4>1, <4>2
    <3> QED
      BY <3>2, <3>3
  <2>9. last' \in Int /\ \A i \in DOMAIN file : i \in Nat
    BY <2>1, <2>2, <2>4 DEF Pairs
  <2>10. ASSUME joined, pc' = "live", NEW i \in DOMAIN file, last' < i - 1 PROVE FALSE
    BY <2>8, <2>9, <2>10
  <2>11. GapInv'
    BY <1>1, <1>3, <2>7, <2>10 DEF GapInv
  <2> QED
    BY <2>6, <2>11
<1> QED
  BY <1>1, <1>2, <1>3

LEMMA DeliverLines ==
    ASSUME NEW O, NEW C, Ev(O, C, 0, FALSE)!EventStreamAssumption,
           EvType, OrderInv, LineInv, GapInv, Ev(O, C, 0, FALSE)!Deliver
    PROVE  LineInv' /\ GapInv'
<1>1. /\ pc = "live" /\ channel # <<>> /\ channel' = Tail(channel)
      /\ \/ replay /\ Head(channel)[1] <= cursor /\ UNCHANGED <<last, seen>>
         \/ /\ ~(replay /\ Head(channel)[1] <= cursor)
            /\ seen' = seen \o <<Head(channel)>>
            /\ last' = <<Head(channel)>>[Len(<<Head(channel)>>)][1]
      /\ UNCHANGED <<file, open, session, up, nextLine, stuck, event, sending, pc, holds,
                     closed, replay, cursor, joined, dropped>>
  <2>1. <<Head(channel)>> # <<>>
    OBVIOUS
  <2> QED
    BY <2>1 DEF Ev!Deliver, Ev!See, Ev!disk, Ev!writer
<1> DEFINE h == channel[1]
           t == Tail(channel)
<1>2. /\ Head(channel) = h /\ h \in Pairs /\ 1 \in DOMAIN channel
      /\ \A k \in DOMAIN t : /\ k \in Nat /\ k >= 1 /\ k + 1 \in DOMAIN channel
                             /\ t[k] = channel[k + 1]
      /\ \A k \in DOMAIN channel : k # 1 => k - 1 \in DOMAIN t /\ k \in Nat /\ k > 1
  BY <1>1, TailPairs DEF EvType
<1>3. h[1] \in Nat /\ Durable(file, h) /\ last \in Int /\ file \in Seq(Int)
  BY <1>2 DEF EvType, Pairs, LineInv
<1>4. (Listens' <=> Listens) /\ NextId' = NextId
  BY <1>1 DEF Listens, NextId
<1>5. ASSUME joined, NEW i \in DOMAIN file, NEW j \in DOMAIN channel, channel[j][1] = i - 1,
             h[1] < i - 1
      PROVE  /\ j - 1 \in DOMAIN t /\ t[j - 1][1] = i - 1
             /\ \A k \in DOMAIN t : j < k + 1 => j - 1 < k
  <2>1. j # 1
    BY <1>3, <1>5 DEF h
  <2>2. j - 1 \in DOMAIN t /\ j \in Nat
    BY <1>2, <2>1
  <2>3. (j - 1) + 1 = j
    BY <2>2
  <2>4. t[j - 1] = channel[j]
    BY <1>2, <2>2, <2>3
  <2>5. \A k \in DOMAIN t : j < k + 1 => j - 1 < k
    BY <1>2, <2>2
  <2> QED
    BY <1>5, <2>2, <2>4, <2>5
<1>6. /\ joined => replay
      /\ joined => cursor <= last
      /\ \A i \in DOMAIN file : i \in Nat
      /\ cursor \in Int
  BY <1>1, <1>3 DEF OrderInv, EvType
<1>7. \A k \in DOMAIN t : Durable(file, t[k])
  BY <1>2 DEF LineInv
<1>8. ASSUME joined, NEW k \in DOMAIN t, NEW i \in DOMAIN file,
             last < i - 1, h[1] < i - 1, i - 1 < t[k][1]
      PROVE  file[i] \in dropped \/ \E j \in DOMAIN t : j < k /\ t[j][1] = i - 1
  <2>1. \/ file[i] \in dropped
        \/ \E j \in DOMAIN channel : j < k + 1 /\ channel[j][1] = i - 1
    BY <1>1, <1>2, <1>8 DEF GapInv
  <2>2. CASE file[i] \notin dropped
    <3>1. PICK j \in DOMAIN channel : j < k + 1 /\ channel[j][1] = i - 1
      BY <2>1, <2>2
    <3>2. j - 1 \in DOMAIN t /\ t[j - 1][1] = i - 1 /\ j - 1 < k
      BY <1>5, <1>8, <3>1
    <3> QED
      BY <3>2
  <2> QED
    BY <2>2
<1>9. ASSUME joined, Listens, NEW i \in DOMAIN file, last < i - 1, h[1] < i - 1, i - 1 < NextId
      PROVE  file[i] \in dropped \/ \E j \in DOMAIN t : t[j][1] = i - 1
  <2>1. file[i] \in dropped \/ \E j \in DOMAIN channel : channel[j][1] = i - 1
    BY <1>1, <1>9 DEF GapInv
  <2>2. CASE file[i] \notin dropped
    <3>1. PICK j \in DOMAIN channel : channel[j][1] = i - 1
      BY <2>1, <2>2
    <3>2. j - 1 \in DOMAIN t /\ t[j - 1][1] = i - 1
      BY <1>5, <1>9, <3>1
    <3> QED
      BY <3>2
  <2> QED
    BY <2>2
<1> HIDE DEF h, t
<1>10. CASE replay /\ h[1] <= cursor /\ UNCHANGED <<last, seen>>
  <2>1. LineInv'
    BY <1>1, <1>7, <1>10 DEF LineInv, t
  <2>2. ASSUME joined, NEW i \in DOMAIN file, last < i - 1 PROVE h[1] < i - 1
    BY <1>3, <1>6, <1>10, <2>2
  <2>3. channel' = t
    BY <1>1 DEF t
  <2>4. joined => \A i \in DOMAIN file : i - 1 <= last =>
           file[i] \in dropped \/ \E k \in DOMAIN seen : seen[k][2] = file[i]
    BY DEF GapInv
  <2>5. GapInv'
    BY <1>1, <1>4, <1>8, <1>9, <1>10, <2>2, <2>3, <2>4 DEF GapInv
  <2> QED
    BY <2>1, <2>5
<1>11. CASE /\ ~(replay /\ h[1] <= cursor)
            /\ seen' = seen \o <<h>> /\ last' = <<h>>[Len(<<h>>)][1]
  <2>1. /\ <<h>> \in Seq(Pairs) /\ Len(<<h>>) = 1 /\ DOMAIN <<h>> = {1} /\ <<h>>[1] = h
    BY <1>2
  <2>2. last' = h[1] /\ channel' = t
    BY <1>1, <1>11, <2>1 DEF t
  <2> DEFINE r == <<h>>
  <2> HIDE DEF r
  <2>3. /\ \A m \in DOMAIN seen' : \/ m \in DOMAIN seen /\ seen'[m] = seen[m]
                                   \/ m - Len(seen) \in DOMAIN r /\ seen'[m] = r[m - Len(seen)]
        /\ \A m \in DOMAIN seen : m \in DOMAIN seen' /\ seen'[m] = seen[m]
        /\ \A m \in DOMAIN r : \E k \in DOMAIN seen' : seen'[k] = r[m]
    <3>1. seen \in Seq(Pairs)
      BY DEF EvType
    <3> QED
      BY <1>11, <2>1, <3>1, ConcatPairs DEF r
  <2>4. LineInv'
    <3>1. \A k \in DOMAIN seen' : Durable(file, seen'[k])
      BY <1>3, <2>1, <2>3 DEF LineInv, r
    <3>2. last' < Len(file)
      BY <1>3, <2>2 DEF Durable
    <3> QED
      BY <1>1, <1>7, <2>2, <3>1, <3>2 DEF LineInv
  <2>5. ASSUME joined, NEW i \in DOMAIN file, i - 1 <= h[1]
        PROVE  file[i] \in dropped \/ \E k \in DOMAIN seen' : seen'[k][2] = file[i]
    <3>1. CASE i - 1 <= last
      <4>1. file[i] \in dropped \/ \E k \in DOMAIN seen : seen[k][2] = file[i]
        BY <2>5, <3>1 DEF GapInv
      <4> QED
        BY <2>3, <4>1
    <3>2. CASE i - 1 = h[1]
      <4>1. h[1] + 1 = i
        BY <1>6, <3>2
      <4>2. h[2] = file[i]
        BY <1>3, <4>1 DEF Durable
      <4>3. PICK k \in DOMAIN seen' : seen'[k] = h
        BY <2>1, <2>3 DEF r
      <4> QED
        BY <4>2, <4>3
    <3>3. CASE last < i - 1 /\ i - 1 < h[1]
      <4>1. \/ file[i] \in dropped
            \/ \E j \in DOMAIN channel : j < 1 /\ channel[j][1] = i - 1
        BY <1>1, <1>2, <2>5, <3>3 DEF GapInv, h
      <4>2. \A j \in DOMAIN channel : ~(j < 1)
        BY <1>2
      <4> QED
        BY <4>1, <4>2
    <3> QED
      BY <1>3, <1>6, <2>5, <3>1, <3>2, <3>3
  <2>6. joined => last < h[1]
    BY <1>1, <1>2, <1>3, <1>6, <1>11 DEF OrderInv, h
  <2>7. ASSUME joined, NEW i \in DOMAIN file, h[1] < i - 1 PROVE last < i - 1
    BY <1>3, <1>6, <2>6, <2>7
  <2>8. GapInv'
    BY <1>1, <1>4, <1>8, <1>9, <2>2, <2>5, <2>7 DEF GapInv
  <2> QED
    BY <2>4, <2>8
<1> QED
  BY <1>1, <1>2, <1>10, <1>11

EvVars == <<file, open, session, up, nextLine, stuck, event, sending, pc, holds,
            channel, closed, replay, cursor, last, seen, joined, dropped, connects, edits>>

LEMMA EventsStart ==
    ASSUME NEW O, NEW C, NEW E, NEW F, Ev(O, C, E, F)!EventStreamAssumption
    PROVE  Ev(O, C, E, F)!Init => EvType /\ OrderInv /\ LineInv /\ GapInv
<1>1. SUFFICES ASSUME Ev(O, C, E, F)!Init
               PROVE  EvType /\ OrderInv /\ LineInv /\ GapInv
  OBVIOUS
<1>2. /\ file = <<>> /\ channel = <<>> /\ seen = <<>> /\ sending = {} /\ ~joined
      /\ ~open /\ ~stuck /\ ~up /\ pc = "off" /\ last = -1 /\ cursor = -1
      /\ nextLine = 0 /\ session = 0 /\ holds = 0 /\ event = 0 /\ edits = 0
      /\ closed = FALSE /\ replay = FALSE /\ open = FALSE /\ stuck = FALSE /\ up = FALSE
      /\ joined = FALSE
  BY <1>1 DEF Ev!Init
<1>3. Len(file) = 0 /\ DOMAIN file = {} /\ DOMAIN channel = {} /\ DOMAIN seen = {}
  BY <1>2
<1>4. EvType
  <2>1. file \in Seq(Int) /\ channel \in Seq(Pairs) /\ seen \in Seq(Pairs)
    BY <1>2
  <2>2. last \in Int /\ cursor \in Int /\ sending \subseteq Pairs
    BY <1>2
  <2> QED
    BY <1>2, <2>1, <2>2 DEF EvType
<1>5. OrderInv
  BY <1>2, <1>3 DEF OrderInv, Ids, Listens
<1>6. LineInv
  BY <1>2, <1>3 DEF LineInv
<1>7. GapInv
  BY <1>2 DEF GapInv
<1> QED
  BY <1>4, <1>5, <1>6, <1>7

LEMMA EventsIdle ==
    /\ EvType /\ OrderInv /\ UNCHANGED EvVars => EvType' /\ OrderInv'
    /\ LineInv /\ GapInv /\ UNCHANGED EvVars => LineInv' /\ GapInv'
<1>1. EvType /\ UNCHANGED EvVars => EvType'
  BY DEF EvType, EvVars
<1>2. OrderInv /\ UNCHANGED EvVars => OrderInv'
  BY DEF OrderInv, EvVars, NextId, Listens
<1>3. LineInv /\ UNCHANGED EvVars => LineInv'
  BY DEF LineInv, EvVars
<1>4. GapInv /\ UNCHANGED EvVars => GapInv'
  BY DEF GapInv, EvVars, NextId, Listens
<1> QED
  BY <1>1, <1>2, <1>3, <1>4

\* Every step keeps the order, whatever fails and however the log is edited.
LEMMA EventsOrdered ==
    ASSUME NEW O, NEW C, NEW E, NEW F, Ev(O, C, E, F)!EventStreamAssumption
    PROVE  EvType /\ OrderInv /\ Ev(O, C, E, F)!Next => EvType' /\ OrderInv'
<1>1. SUFFICES ASSUME EvType, OrderInv, Ev(O, C, E, F)!Next
               PROVE  EvType' /\ OrderInv'
  OBVIOUS
<1>2. CASE Ev(O, C, E, F)!Open
  BY <1>1, <1>2, OpenOrder
<1>3. CASE Ev(O, C, E, F)!Record
  BY <1>1, <1>3, RecordOrder
<1>4. CASE Ev(O, C, E, F)!Send
  BY <1>1, <1>4, SendOrder
<1>5. CASE Ev(O, C, E, F)!Close
  BY <1>1, <1>5, CloseOrder
<1>6. CASE Ev(O, C, E, F)!Edit
  BY <1>1, <1>6, EditOrder
<1>7. CASE \E withID \in BOOLEAN : Ev(O, C, E, F)!Connect(withID)
  BY <1>1, <1>7, ConnectOrder
<1>8. CASE Ev(O, C, E, F)!RefuseCursor
  BY <1>1, <1>8, RefuseOrder
<1>9. CASE Ev(O, C, E, F)!Subscribe
  BY <1>1, <1>9, SubscribeOrder
<1>10. CASE Ev(O, C, E, F)!Disconnect
  BY <1>1, <1>10, DisconnectOrder
<1>11. CASE Ev(O, C, E, F)!ReplayPage
  BY <1>1, <1>11, ReplayOrder
<1>12. CASE Ev(O, C, E, F)!Deliver
  BY <1>1, <1>12, DeliverOrder
<1>13. CASE Ev(O, C, E, F)!StreamEnds
  BY <1>1, <1>13, EndOrder
<1> QED
  BY <1>1, <1>2, <1>3, <1>4, <1>5, <1>6, <1>7, <1>8, <1>9, <1>10, <1>11, <1>12, <1>13 DEF Ev!Next

\* Without faults and edits every step keeps the lines and leaves no gap.
LEMMA EventsNumbered ==
    ASSUME NEW O, NEW C, Ev(O, C, 0, FALSE)!EventStreamAssumption
    PROVE  EvType /\ OrderInv /\ LineInv /\ GapInv /\ Ev(O, C, 0, FALSE)!Next
             => LineInv' /\ GapInv'
<1>1. SUFFICES ASSUME EvType, OrderInv, LineInv, GapInv, Ev(O, C, 0, FALSE)!Next
               PROVE  LineInv' /\ GapInv'
  OBVIOUS
<1>2. CASE Ev(O, C, 0, FALSE)!Open
  BY <1>1, <1>2, OpenLines
<1>3. CASE Ev(O, C, 0, FALSE)!Record
  BY <1>1, <1>3, RecordLines
<1>4. CASE Ev(O, C, 0, FALSE)!Send
  BY <1>1, <1>4, SendLines
<1>5. CASE Ev(O, C, 0, FALSE)!Close
  BY <1>1, <1>5, CloseLines
<1>6. CASE Ev(O, C, 0, FALSE)!Edit
  BY <1>1, <1>6, EditLines
<1>7. CASE \E withID \in BOOLEAN : Ev(O, C, 0, FALSE)!Connect(withID)
  BY <1>1, <1>7, ConnectLines
<1>8. CASE Ev(O, C, 0, FALSE)!RefuseCursor
  BY <1>1, <1>8, RefuseLines
<1>9. CASE Ev(O, C, 0, FALSE)!Subscribe
  BY <1>1, <1>9, SubscribeLines
<1>10. CASE Ev(O, C, 0, FALSE)!Disconnect
  BY <1>1, <1>10, DisconnectLines
<1>11. CASE Ev(O, C, 0, FALSE)!ReplayPage
  BY <1>1, <1>11, ReplayLines
<1>12. CASE Ev(O, C, 0, FALSE)!Deliver
  BY <1>1, <1>12, DeliverLines
<1>13. CASE Ev(O, C, 0, FALSE)!StreamEnds
  BY <1>1, <1>13, EndLines
<1> QED
  BY <1>1, <1>2, <1>3, <1>4, <1>5, <1>6, <1>7, <1>8, <1>9, <1>10, <1>11, <1>12, <1>13 DEF Ev!Next

LEMMA OrderMeans ==
    ASSUME NEW O, NEW C, NEW E, NEW F
    PROVE  EvType /\ OrderInv => Ev(O, C, E, F)!InOrder
<1>1. SUFFICES ASSUME EvType, OrderInv, joined,
                      NEW i \in 1..Len(seen), NEW j \in 1..Len(seen), i < j
               PROVE  seen[i][1] < seen[j][1]
  BY DEF Ev!InOrder
<1>2. DOMAIN seen = 1..Len(seen)
  BY <1>1 DEF EvType
<1> QED
  BY <1>1, <1>2 DEF OrderInv, Ids

LEMMA LinesMean ==
    ASSUME NEW O, NEW C, NEW E, NEW F
    PROVE  /\ LineInv => Ev(O, C, E, F)!DurableIDs
           /\ EvType /\ GapInv => Ev(O, C, E, F)!NoGap
<1>1. ASSUME LineInv PROVE Ev(O, C, E, F)!DurableIDs
  <2>1. SUFFICES ASSUME NEW p \in sending \cup Ev(O, C, E, F)!Range(channel)
                                          \cup Ev(O, C, E, F)!Range(seen)
                 PROVE  Durable(file, p)
    BY DEF Ev!DurableIDs, Durable
  <2>2. \/ p \in sending
        \/ \E k \in DOMAIN channel : p = channel[k]
        \/ \E k \in DOMAIN seen : p = seen[k]
    BY DEF Ev!Range
  <2> QED
    BY <1>1, <2>2 DEF LineInv
<1>2. ASSUME EvType, GapInv PROVE Ev(O, C, E, F)!NoGap
  <2>1. DOMAIN file = 1..Len(file) /\ DOMAIN seen = 1..Len(seen)
    BY <1>2 DEF EvType
  <2>2. SUFFICES ASSUME joined, NEW i \in DOMAIN file, i - 1 <= last
                 PROVE  file[i] \in {seen[k][2] : k \in DOMAIN seen} \cup dropped
    BY <2>1 DEF Ev!NoGap, Ev!Seen
  <2> QED
    BY <1>2, <2>2 DEF GapInv
<1> QED
  BY <1>1, <1>2
-----------------------------------------------------------------------------
(* Memory topics: what the operators make of the entries of a bucket.      *)

\* A bucket says nothing twice.
Distinct(es) == \A i, j \in DOMAIN es : i # j => es[i] # es[j]

\* The characters of the entries of a bucket, and its size.
Chars(es) == UNION {{i} \X (1 .. es[i]) : i \in DOMAIN es}
Size(es) == IF es = <<>> THEN 0 ELSE Cardinality(Chars(es)) + 3 * (Len(es) - 1)

Without(es, i) ==
    [k \in 1 .. (Len(es) - 1) |-> IF k < i THEN es[k] ELSE es[k + 1]]

\* The operators of the model, in the names of this section.
LEMMA MemoryOperators ==
    ASSUME NEW S, NEW T, NEW C, NEW O, NEW N, NEW es, NEW i
    PROVE  /\ Mem(S, T, C, O, N)!joinedLen(es) = Size(es)
           /\ Mem(S, T, C, O, N)!without(es, i) = Without(es, i)
  BY DEF Mem!joinedLen, Mem!chars, Mem!Delim, Size, Chars, Mem!without, Without,
         Mem!Cardinality, Cardinality, Mem!IsFiniteSet, IsFiniteSet

LEMMA CharsFinite ==
    ASSUME NEW es \in Seq(Nat)
    PROVE  IsFiniteSet(Chars(es)) /\ Cardinality(Chars(es)) \in Nat
<1> DEFINE Row(i) == {i} \X (1 .. es[i])
           R == {Row(i) : i \in DOMAIN es}
           f == [i \in DOMAIN es |-> Row(i)]
<1>1. IsFiniteSet(DOMAIN es)
  <2>1. DOMAIN es = 1..Len(es) /\ Len(es) \in Nat
    OBVIOUS
  <2> QED
    BY <2>1, FS_Interval
<1>2. f \in Surjection(DOMAIN es, R)
  BY DEF Surjection
<1>3. IsFiniteSet(R)
  BY <1>1, <1>2, FS_Surjection
<1>4. ASSUME NEW i \in DOMAIN es PROVE IsFiniteSet(Row(i))
  <2>1. es[i] \in Nat
    OBVIOUS
  <2>2. IsFiniteSet(1 .. es[i])
    BY <2>1, FS_Interval
  <2>3. IsFiniteSet({i})
    BY FS_Singleton
  <2> QED
    BY <2>2, <2>3, FS_Product
<1>5. IsFiniteSet(UNION R)
  BY <1>3, <1>4, FS_UNION
<1>6. Chars(es) = UNION R
  BY DEF Chars
<1> QED
  BY <1>5, <1>6, FS_CardinalityType

LEMMA SizeType ==
    ASSUME NEW es \in Seq(Nat)
    PROVE  Size(es) \in Int
<1>1. Cardinality(Chars(es)) \in Nat /\ Len(es) \in Nat
  BY CharsFinite
<1>2. Cardinality(Chars(es)) + 3 * (Len(es) - 1) \in Int
  BY <1>1
<1> QED
  BY <1>2 DEF Size

LEMMA CharsOf ==
    ASSUME NEW es, NEW c
    PROVE  c \in Chars(es) <=> \E i \in DOMAIN es : c \in {i} \X (1 .. es[i])
  BY DEF Chars

\* What w is when it is a bucket less its i-th entry.
Less(es, i, w) ==
    /\ Len(es) \in Nat \ {0} /\ i \in 1..Len(es) /\ \A k \in 1..Len(es) : es[k] \in Nat
    /\ w \in Seq(Nat) /\ Len(w) = Len(es) - 1 /\ DOMAIN w = 1..(Len(es) - 1)
    /\ \A k \in 1..(Len(es) - 1) :
         /\ k < i => w[k] = es[k]
         /\ ~(k < i) => w[k] = es[k + 1]

LEMMA WithoutSeq ==
    ASSUME NEW es \in Seq(Nat), NEW i \in DOMAIN es
    PROVE  Less(es, i, Without(es, i))
<1> DEFINE w == Without(es, i)
           n == Len(es) - 1
<1>1. n \in Nat /\ DOMAIN es = 1..(n + 1) /\ i \in 1..(n + 1) /\ Len(es) = n + 1
  OBVIOUS
<1>2. w = [k \in 1..n |-> IF k < i THEN es[k] ELSE es[k + 1]]
  BY DEF Without
<1> HIDE DEF w, n
<1>3. \A k \in 1..n : k \in DOMAIN es /\ k + 1 \in DOMAIN es /\ es[k] \in Nat /\ es[k + 1] \in Nat
  BY <1>1
<1>4. w \in [1..n -> Nat]
  BY <1>2, <1>3
<1>5. w \in Seq(Nat) /\ DOMAIN w = 1..n
  BY <1>1, <1>4
<1>6. Len(w) = n
  BY <1>1, <1>5
<1>7. Len(es) - 1 = n /\ Len(es) \in Nat \ {0} /\ i \in 1..Len(es)
  BY <1>1
<1>8. \A k \in 1..Len(es) : es[k] \in Nat
  OBVIOUS
<1>9. Less(es, i, w)
  BY <1>2, <1>5, <1>6, <1>7, <1>8 DEF Less
<1> QED
  BY <1>9 DEF w

LEMMA WithoutDistinct ==
    ASSUME NEW es, NEW i, NEW w, Less(es, i, w), DOMAIN es = 1..Len(es), Distinct(es)
    PROVE  Distinct(w)
<1>1. \A k \in DOMAIN w : /\ k \in Nat
                          /\ k < i => k \in DOMAIN es /\ w[k] = es[k]
                          /\ ~(k < i) => k + 1 \in DOMAIN es /\ w[k] = es[k + 1]
  BY DEF Less
<1>2. SUFFICES ASSUME NEW j \in DOMAIN w, NEW k \in DOMAIN w, j # k PROVE w[j] # w[k]
  BY DEF Distinct
<1>3. i \in Nat /\ j \in Nat /\ k \in Nat
  BY <1>1 DEF Less
<1>4. CASE j < i /\ k < i
  BY <1>1, <1>2, <1>4 DEF Distinct
<1>5. CASE j < i /\ ~(k < i)
  <2>1. j # k + 1
    BY <1>3, <1>5
  <2> QED
    BY <1>1, <1>5, <2>1 DEF Distinct
<1>6. CASE ~(j < i) /\ k < i
  <2>1. j + 1 # k
    BY <1>3, <1>6
  <2> QED
    BY <1>1, <1>6, <2>1 DEF Distinct
<1>7. CASE ~(j < i) /\ ~(k < i)
  <2>1. j + 1 # k + 1
    BY <1>2, <1>3
  <2> QED
    BY <1>1, <1>7, <2>1 DEF Distinct
<1> QED
  BY <1>4, <1>5, <1>6, <1>7

LEMMA WithoutKeeps ==
    ASSUME NEW es, NEW i, NEW w, Less(es, i, w), NEW j \in 1..Len(es), j # i
    PROVE  \E k \in DOMAIN w : w[k] = es[j]
<1>1. Len(es) \in Nat /\ i \in 1..Len(es)
  BY DEF Less
<1>2. CASE j < i
  <2>1. j \in 1..(Len(es) - 1)
    BY <1>1, <1>2
  <2> QED
    BY <1>2, <2>1 DEF Less
<1>3. CASE ~(j < i)
  <2>1. PICK k \in 1..(Len(es) - 1) : k = j - 1 /\ ~(k < i) /\ k + 1 = j
    BY <1>1, <1>3
  <2> QED
    BY <2>1 DEF Less
<1> QED
  BY <1>2, <1>3

\* A bucket less one entry is no larger.
LEMMA WithoutSize ==
    ASSUME NEW es \in Seq(Nat), NEW i, NEW w, Less(es, i, w)
    PROVE  Size(w) <= Size(es)
<1> DEFINE g == [c \in Chars(w) |-> <<IF c[1] < i THEN c[1] ELSE c[1] + 1, c[2]>>]
<1>0. DOMAIN es = 1..Len(es)
  OBVIOUS
<1>1. w \in Seq(Nat) /\ Len(w) = Len(es) - 1
  BY DEF Less
<1> DEFINE n == Len(es)
<1>11. /\ n \in Nat /\ DOMAIN w = 1..(n - 1) /\ DOMAIN es = 1..n /\ i \in 1..n
       /\ \A k \in 1..(n - 1) : /\ k < i => w[k] = es[k]
                                /\ ~(k < i) => w[k] = es[k + 1]
  BY <1>0 DEF Less
<1> HIDE DEF n
<1>12. \A k \in 1..(n - 1) : k \in Nat /\ k \in 1..n /\ k + 1 \in 1..n
  BY <1>11
<1>13. \A k \in DOMAIN w : /\ k \in Nat
                           /\ k < i => k \in DOMAIN es /\ w[k] = es[k]
                           /\ ~(k < i) => k + 1 \in DOMAIN es /\ w[k] = es[k + 1]
  BY <1>11, <1>12
<1>14. Len(es) \in Nat /\ i \in Nat
  BY <1>11 DEF n
<1>2. /\ IsFiniteSet(Chars(es)) /\ Cardinality(Chars(es)) \in Nat
      /\ IsFiniteSet(Chars(w)) /\ Cardinality(Chars(w)) \in Nat
  BY <1>1, <1>13, <1>14, CharsFinite
<1>3. ASSUME NEW c \in Chars(w)
      PROVE  /\ c = <<c[1], c[2]>> /\ c[1] \in DOMAIN w /\ c[2] \in 1 .. w[c[1]]
             /\ c[1] \in Nat
  BY <1>1, <1>13, <1>14, CharsOf
<1>4. ASSUME NEW c \in Chars(w) PROVE g[c] \in Chars(es)
  <2>1. CASE c[1] < i
    <3>1. g[c] \in {c[1]} \X (1 .. es[c[1]]) /\ c[1] \in DOMAIN es
      BY <1>1, <1>13, <1>14, <1>3, <2>1
    <3> QED
      BY <3>1, CharsOf
  <2>2. CASE ~(c[1] < i)
    <3>1. g[c] \in {c[1] + 1} \X (1 .. es[c[1] + 1]) /\ c[1] + 1 \in DOMAIN es
      BY <1>1, <1>13, <1>14, <1>3, <2>2
    <3> QED
      BY <3>1, CharsOf
  <2> QED
    BY <2>1, <2>2
<1>5. ASSUME NEW c \in Chars(w), NEW d \in Chars(w), g[c] = g[d] PROVE c = d
  <2>1. /\ c = <<c[1], c[2]>> /\ d = <<d[1], d[2]>> /\ c[1] \in Nat /\ d[1] \in Nat
    BY <1>3
  <2>2. c[2] = d[2]
    BY <1>5
  <2>3. (IF c[1] < i THEN c[1] ELSE c[1] + 1) = (IF d[1] < i THEN d[1] ELSE d[1] + 1)
    BY <1>5
  <2>4. c[1] = d[1]
    <3>1. i \in Nat
      BY <1>14
    <3> QED
      BY <2>1, <2>3, <3>1
  <2> QED
    BY <2>1, <2>2, <2>4
<1>6. g \in Injection(Chars(w), Chars(es))
  BY <1>4, <1>5 DEF Injection, IsInjective
<1>7. Cardinality(Chars(w)) <= Cardinality(Chars(es))
  BY <1>2, <1>6, FS_Injection
<1>8. es # <<>>
  BY DEF Less
<1>9. Size(es) = Cardinality(Chars(es)) + 3 * (Len(es) - 1) /\ Size(es) \in Nat
  <2>1. Len(es) - 1 \in Nat
    BY <1>1, <1>13, <1>14, <1>8
  <2> QED
    BY <1>2, <1>8, <2>1 DEF Size
<1> HIDE DEF g
<1>10. CASE w = <<>>
  BY <1>9, <1>10 DEF Size
<1>15. CASE w # <<>>
  <2>1. Size(w) = Cardinality(Chars(w)) + 3 * (Len(w) - 1)
    BY <1>15 DEF Size
  <2> QED
    BY <1>1, <1>13, <1>14, <1>2, <1>7, <1>9, <2>1
<1> QED
  BY <1>10, <1>15

\* A bucket as the stores keep it.
Tidy(es) == es \in Seq(Nat) /\ Distinct(es) /\ Size(es) <= CharLimit

\* The entries of es other than x are entries of new.
Keeps(es, new, x) ==
    \A j \in 1..Len(es) : es[j] # x => \E k \in 1..Len(new) : new[k] = es[j]

\* What every mutation of a bucket is held to: it stays tidy and loses nothing
\* but the entry to drop; an addition or a replacement does not empty it, and a
\* replacement or a removal does not start one.
Sound(op, old, es, new) ==
    /\ Tidy(new)
    /\ Keeps(es, new, old)
    /\ op # "remove" /\ es # <<>> => new # <<>>
    /\ op # "add" /\ es = <<>> => new = <<>>

LEMMA UnchangedSound ==
    ASSUME NEW op, NEW old, NEW es, Tidy(es)
    PROVE  Sound(op, old, es, es)
<1>1. Keeps(es, es, old)
  BY DEF Keeps
<1> QED
  BY <1>1 DEF Sound

LEMMA AppendedSound ==
    ASSUME NEW old, NEW es, Tidy(es), NEW x \in Nat, \A i \in DOMAIN es : es[i] # x,
           Size(es \o << x >>) <= CharLimit
    PROVE  Sound("add", old, es, es \o << x >>)
<1> DEFINE new == es \o << x >>
<1>0. es \in Seq(Nat)
  BY DEF Tidy
<1>1. PICK n \in Nat : n = Len(es)
  BY <1>0
<1>2. DOMAIN es = 1..n
  BY <1>0, <1>1
<1>3. /\ new \in Seq(Nat) /\ Len(new) = n + 1 /\ DOMAIN new = 1..(n + 1)
      /\ new[n + 1] = x /\ \A i \in 1..n : new[i] = es[i]
  BY <1>0, <1>1
<1>4. \A i \in 1..(n + 1) : i \in 1..n \/ i = n + 1
  OBVIOUS
<1> HIDE DEF new
<1>5. Distinct(new)
  <2>1. SUFFICES ASSUME NEW i \in 1..(n + 1), NEW j \in 1..(n + 1), i # j
                 PROVE  new[i] # new[j]
    BY <1>3 DEF Distinct
  <2>2. CASE i \in 1..n /\ j \in 1..n
    BY <1>2, <1>3, <2>1, <2>2 DEF Tidy, Distinct
  <2>3. CASE i = n + 1 /\ j \in 1..n
    BY <1>2, <1>3, <2>3
  <2>4. CASE i \in 1..n /\ j = n + 1
    BY <1>2, <1>3, <2>4
  <2> QED
    BY <1>4, <2>1, <2>2, <2>3, <2>4
<1>6. Keeps(es, new, old)
  <2>1. \A j \in 1..n : j \in 1..(n + 1)
    OBVIOUS
  <2> QED
    BY <1>1, <1>3, <2>1 DEF Keeps
<1>7. new # <<>>
  BY <1>3
<1>8. Size(new) <= CharLimit
  BY DEF new
<1>9. Sound("add", old, es, new)
  BY <1>3, <1>5, <1>6, <1>7, <1>8 DEF Sound, Tidy
<1> QED
  BY <1>9 DEF new

LEMMA ShortenedSound ==
    ASSUME CharLimit \in Nat, NEW op, NEW es, Tidy(es), NEW i \in DOMAIN es,
           op = "remove" \/ \E k \in DOMAIN es : k # i
    PROVE  Sound(op, es[i], es, Without(es, i))
<1> DEFINE w == Without(es, i)
<1>0. es \in Seq(Nat)
  BY DEF Tidy
<1>1. Less(es, i, w)
  BY <1>0, WithoutSeq
<1> HIDE DEF w
<1>2. DOMAIN es = 1..Len(es) /\ Len(es) \in Nat
  BY <1>0
<1>3. Distinct(w)
  BY <1>1, <1>2, WithoutDistinct DEF Tidy
<1>4. Size(w) <= Size(es)
  BY <1>0, <1>1, WithoutSize
<1>5. Size(w) <= CharLimit
  <2>1. w \in Seq(Nat)
    BY <1>1 DEF Less
  <2>2. Size(w) \in Int /\ Size(es) \in Int
    BY <1>0, <2>1, SizeType
  <2> QED
    BY <1>4, <2>2 DEF Tidy
<1>6. Keeps(es, w, es[i])
  <2>1. SUFFICES ASSUME NEW j \in 1..Len(es), es[j] # es[i]
                 PROVE  \E k \in 1..Len(w) : w[k] = es[j]
    BY DEF Keeps
  <2>2. \E k \in DOMAIN w : w[k] = es[j]
    BY <1>1, <2>1, WithoutKeeps
  <2>3. DOMAIN w = 1..Len(w)
    BY <1>1 DEF Less
  <2> QED
    BY <2>2, <2>3
<1>7. op # "remove" => w # <<>>
  <2>1. SUFFICES ASSUME NEW k \in DOMAIN es, k # i PROVE w # <<>>
    OBVIOUS
  <2>2. Len(es) > 1
    BY <1>2, <2>1
  <2>3. Len(w) > 0
    BY <1>1, <1>2, <2>2 DEF Less
  <2> QED
    BY <2>3
<1>8. es # <<>>
  BY <1>0
<1>9. Sound(op, es[i], es, w)
  BY <1>1, <1>3, <1>5, <1>6, <1>7, <1>8 DEF Sound, Tidy, Less
<1> QED
  BY <1>9 DEF w

LEMMA ReplacedSound ==
    ASSUME NEW es, Tidy(es), NEW i \in DOMAIN es, NEW y \in Nat,
           \A k \in DOMAIN es : k # i => es[k] # y,
           Size([es EXCEPT ![i] = y]) <= CharLimit
    PROVE  Sound("replace", es[i], es, [es EXCEPT ![i] = y])
<1> DEFINE new == [es EXCEPT ![i] = y]
<1>0. es \in Seq(Nat)
  BY DEF Tidy
<1>1. /\ new \in Seq(Nat) /\ DOMAIN new = DOMAIN es /\ Len(new) = Len(es)
      /\ new[i] = y /\ \A k \in DOMAIN es : k # i => new[k] = es[k]
  BY <1>0
<1>2. DOMAIN es = 1..Len(es) /\ es # <<>> /\ new # <<>>
  BY <1>0
<1> HIDE DEF new
<1>3. Distinct(new)
  <2>1. SUFFICES ASSUME NEW j \in DOMAIN es, NEW k \in DOMAIN es, j # k
                 PROVE  new[j] # new[k]
    BY <1>1 DEF Distinct
  <2> QED
    BY <1>1, <2>1 DEF Tidy, Distinct
<1>4. Keeps(es, new, es[i])
  BY <1>1, <1>2 DEF Keeps
<1>5. Size(new) <= CharLimit
  BY DEF new
<1>6. Sound("replace", es[i], es, new)
  BY <1>1, <1>2, <1>3, <1>4, <1>5 DEF Sound, Tidy
<1> QED
  BY <1>6 DEF new

\* An operation of the model, whatever it finds in the bucket.
LEMMA MutatedSound ==
    ASSUME NEW S, NEW T, NEW C, NEW O, NEW N, CharLimit \in Nat,
           NEW s, NEW es, Tidy(es), s.op \in {"add", "replace", "remove"},
           s.op # "remove" => s.new \in Nat
    PROVE  Sound(s.op, s.old, es, Mem(S, T, C, O, N)!Mutated(s, es))
<1> DEFINE Sized(x) == Mem(S, T, C, O, N)!joinedLen(x)
           i0 == Mem(S, T, C, O, N)!findUnique(es, s.old)
<1>0. Sound(s.op, s.old, es, es)
  BY UnchangedSound
<1>1. /\ \A x : Sized(x) = Size(x)
      /\ \A x, i : Mem(S, T, C, O, N)!without(x, i) = Without(x, i)
  BY MemoryOperators
<1>2. Mem(S, T, C, O, N)!Has(es, s.old) => i0 \in DOMAIN es /\ es[i0] = s.old
  BY DEF Mem!Has, Mem!findUnique
<1>3. CASE s.op = "add"
  <2>1. Mem(S, T, C, O, N)!Mutated(s, es) = Mem(S, T, C, O, N)!Added(es, s.new)
    BY <1>3 DEF Mem!Mutated
  <2>2. CASE Mem(S, T, C, O, N)!Has(es, s.new) \/ Sized(es \o << s.new >>) > CharLimit
    BY <1>0, <2>1, <2>2 DEF Mem!Added
  <2>3. CASE ~(Mem(S, T, C, O, N)!Has(es, s.new) \/ Sized(es \o << s.new >>) > CharLimit)
    <3>1. Mem(S, T, C, O, N)!Mutated(s, es) = es \o << s.new >>
      BY <2>1, <2>3 DEF Mem!Added
    <3>2. s.new \in Nat /\ \A i \in DOMAIN es : es[i] # s.new
      BY <1>3, <2>3 DEF Mem!Has
    <3>3. Size(es \o << s.new >>) <= CharLimit
      <4>1. ~(Size(es \o << s.new >>) > CharLimit)
        BY <1>1, <2>3
      <4>2. es \o << s.new >> \in Seq(Nat)
        BY <3>2 DEF Tidy
      <4>3. Size(es \o << s.new >>) \in Int
        BY <4>2, SizeType
      <4> QED
        BY <4>1, <4>3
    <3>4. Sound("add", s.old, es, es \o << s.new >>)
      BY <3>2, <3>3, AppendedSound
    <3> QED
      BY <1>3, <3>1, <3>4
  <2> QED
    BY <2>2, <2>3
<1>4. CASE s.op = "remove"
  <2>1. Mem(S, T, C, O, N)!Mutated(s, es) = Mem(S, T, C, O, N)!Removed(es, s.old)
    BY <1>4 DEF Mem!Mutated
  <2>2. CASE ~Mem(S, T, C, O, N)!Has(es, s.old)
    BY <1>0, <2>1, <2>2 DEF Mem!Removed
  <2>3. CASE Mem(S, T, C, O, N)!Has(es, s.old)
    <3>1. Mem(S, T, C, O, N)!Mutated(s, es) = Without(es, i0)
      BY <1>1, <2>1, <2>3 DEF Mem!Removed
    <3>2. Sound("remove", es[i0], es, Without(es, i0))
      BY <1>2, <2>3, ShortenedSound
    <3> QED
      BY <1>2, <1>4, <2>3, <3>1, <3>2
  <2> QED
    BY <2>2, <2>3
<1>5. CASE s.op = "replace"
  <2> DEFINE next == [es EXCEPT ![i0] = s.new]
  <2>1. Mem(S, T, C, O, N)!Mutated(s, es) = Mem(S, T, C, O, N)!Replaced(es, s.old, s.new)
    BY <1>5 DEF Mem!Mutated
  <2>2. CASE ~Mem(S, T, C, O, N)!Has(es, s.old)
    BY <1>0, <2>1, <2>2 DEF Mem!Replaced
  <2>3. CASE Mem(S, T, C, O, N)!Has(es, s.old)
    <3>0. i0 \in DOMAIN es /\ es[i0] = s.old /\ s.new \in Nat
      BY <1>2, <1>5, <2>3
    <3>1. Mem(S, T, C, O, N)!Mutated(s, es) =
            IF \E k \in DOMAIN es : k # i0 /\ es[k] = s.new THEN Without(es, i0)
            ELSE IF Sized(next) > CharLimit THEN es ELSE next
      BY <1>1, <2>1, <2>3 DEF Mem!Replaced
    <3> HIDE DEF i0, Sized
    <3>2. CASE \E k \in DOMAIN es : k # i0 /\ es[k] = s.new
      <4>1. Sound("replace", es[i0], es, Without(es, i0))
        BY <3>0, <3>2, ShortenedSound
      <4> QED
        BY <1>5, <3>0, <3>1, <3>2, <4>1
    <3>3. CASE /\ ~\E k \in DOMAIN es : k # i0 /\ es[k] = s.new
               /\ Sized(next) > CharLimit
      BY <1>0, <3>1, <3>3
    <3>4. CASE /\ ~\E k \in DOMAIN es : k # i0 /\ es[k] = s.new
               /\ ~(Sized(next) > CharLimit)
      <4>1. next \in Seq(Nat)
        BY <3>0 DEF Tidy
      <4>2. Size(next) <= CharLimit
        <5>1. Size(next) \in Int
          BY <4>1, SizeType
        <5>2. ~(Size(next) > CharLimit)
          BY <1>1, <3>4
        <5> QED
          BY <5>1, <5>2
      <4>3. Sound("replace", es[i0], es, next)
        BY <3>0, <3>4, <4>2, ReplacedSound
      <4> QED
        BY <1>5, <3>0, <3>1, <3>4, <4>3
    <3> QED
      BY <3>2, <3>3, <3>4
  <2> QED
    BY <2>2, <2>3
<1> QED
  BY <1>3, <1>4, <1>5

Busy == {"open", "flock", "read", "write", "unlink", "unlock"}

\* Where a store is in its operation: locks are numbered, and so are entries.
Place(T, N) ==
    [pc : Busy \cup {"fresh", "idle"}, op : {"none", "add", "replace", "remove"},
     t : T, old : Nat, new : Nat, inode : 0..N, snap : Seq(Nat)]

MemType(S, T, N) ==
    /\ file \in [T -> Seq(Nat)] /\ legacy \in Seq(Nat)
    /\ lockAt \in [T -> 0..N] /\ inodes \in 0..N
    /\ holder \in [1..N -> S \cup {"none"}]
    /\ store \in [S -> Place(T, N)]
    /\ saved \in [T -> SUBSET Nat]

Said(es) == {es[i] : i \in DOMAIN es}

\* The buckets are tidy; the old layout is there only before the first store
\* looked; a store that is about to write has read what the file still says;
\* and what was confirmed is on disk.
MemCore(S, T) ==
    /\ \A t \in T : Tidy(file[t])
    /\ Tidy(legacy)
    /\ legacy # <<>> => /\ \A p \in S : store[p].pc = "fresh"
                        /\ \A t \in T : file[t] = <<>>
    /\ \A p \in S : store[p].pc \in Busy => store[p].op \in {"add", "replace", "remove"}
    /\ \A p \in S : store[p].pc = "write" => store[p].snap = file[store[p].t]
    /\ \A t \in T : \A x \in saved[t] :
         x \in Said(file[t]) \/ (t = General /\ x \in Said(legacy))

\* Only one store moves.
LEMMA OneMoves ==
    ASSUME NEW S, NEW T, NEW N, store \in [S -> Place(T, N)], NEW p \in S,
           NEW rec \in Place(T, N), store' = [store EXCEPT ![p] = rec]
    PROVE  /\ store' \in [S -> Place(T, N)]
           /\ store'[p] = rec
           /\ \A r \in S : r # p => store'[r] = store[r]
  OBVIOUS

\* A step that touches neither the files nor the history.
LEMMA CoreFrame ==
    ASSUME NEW S, NEW T, NEW N, MemType(S, T, N), MemCore(S, T), NEW p \in S,
           NEW rec \in Place(T, N), store' = [store EXCEPT ![p] = rec],
           UNCHANGED <<file, legacy, saved>>,
           legacy # <<>> => rec.pc = "fresh",
           rec.pc \in Busy => rec.op \in {"add", "replace", "remove"},
           rec.pc = "write" => rec.snap = file[rec.t]
    PROVE  MemCore(S, T)' /\ store' \in [S -> Place(T, N)]
<1>1. /\ store' \in [S -> Place(T, N)] /\ store'[p] = rec
      /\ \A r \in S : r # p => store'[r] = store[r]
  BY OneMoves DEF MemType
<1>2. /\ (\A t \in T : Tidy(file[t]))' /\ Tidy(legacy)'
      /\ (\A t \in T : \A x \in saved[t] :
            x \in Said(file[t]) \/ (t = General /\ x \in Said(legacy)))'
  BY DEF MemCore
<1>3. legacy' # <<>> => /\ \A r \in S : store'[r].pc = "fresh"
                        /\ \A t \in T : file'[t] = <<>>
  BY <1>1 DEF MemCore
<1>4. \A r \in S : store'[r].pc \in Busy => store'[r].op \in {"add", "replace", "remove"}
  BY <1>1 DEF MemCore
<1>5. \A r \in S : store'[r].pc = "write" => store'[r].snap = file'[store'[r].t]
  BY <1>1 DEF MemCore
<1> QED
  BY <1>1, <1>2, <1>3, <1>4, <1>5 DEF MemCore

\* The records the actions write.
LEMMA Records ==
    ASSUME NEW S, NEW T, NEW C, NEW O, NEW N, Mem(S, T, C, O, N)!MemoryBounds
    PROVE  /\ Mem(S, T, C, O, N)!Idle \in Place(T, N)
           /\ Mem(S, T, C, O, N)!Fresh \in Place(T, N)
           /\ Mem(S, T, C, O, N)!Idle.pc = "idle" /\ Mem(S, T, C, O, N)!Fresh.pc = "fresh"
           /\ Mem(S, T, C, O, N)!Idle.op = "none" /\ Mem(S, T, C, O, N)!Fresh.op = "none"
<1>1. 0 \in 0..N /\ << >> \in Seq(Nat) /\ General \in T
  BY DEF Mem!MemoryBounds
<1> QED
  BY <1>1 DEF Mem!Idle, Mem!Fresh, Mem!None, Place, Busy

\* The old layout becomes the general topic.
LEMMA MemMigrate ==
    ASSUME NEW S, NEW T, NEW C, NEW O, NEW N, Mem(S, T, C, O, N)!MemoryBounds,
           MemType(S, T, N), MemCore(S, T), NEW p \in S,
           Mem(S, T, C, O, N)!migrateLegacyLocked(p)
    PROVE  MemType(S, T, N)' /\ MemCore(S, T)'
<1> PICK rec : rec = Mem(S, T, C, O, N)!Idle
  OBVIOUS
<1>1. rec \in Place(T, N) /\ rec.pc = "idle" /\ store' = [store EXCEPT ![p] = rec]
  BY Records DEF Mem!migrateLegacyLocked
<1>2. UNCHANGED <<lockAt, inodes, holder, saved>>
  BY DEF Mem!migrateLegacyLocked
<1>3. CASE legacy = <<>>
  <2>1. UNCHANGED <<file, legacy>>
    BY <1>3 DEF Mem!migrateLegacyLocked
  <2>2. MemCore(S, T)' /\ store' \in [S -> Place(T, N)]
    <3>1. rec.pc \notin Busy /\ rec.pc # "write"
      BY <1>1 DEF Busy
    <3> QED
      BY <1>1, <1>2, <1>3, <2>1, <3>1, CoreFrame
  <2> QED
    BY <1>2, <2>1, <2>2 DEF MemType
<1>4. CASE legacy # <<>>
  <2>1. General \in T /\ \A t \in T : file[t] = <<>>
    BY <1>4 DEF MemCore, Mem!MemoryBounds
  <2>2. file' = [file EXCEPT ![General] = legacy] /\ legacy' = <<>>
    BY <1>4, <2>1 DEF Mem!migrateLegacyLocked, Mem!fileExists
  <2>3. /\ file' \in [T -> Seq(Nat)] /\ file'[General] = legacy
        /\ \A t \in T : t # General => file'[t] = file[t]
    BY <2>1, <2>2 DEF MemType
  <2>4. /\ store' \in [S -> Place(T, N)] /\ store'[p] = rec
        /\ \A r \in S : r # p => store'[r] = store[r]
    BY <1>1, OneMoves DEF MemType
  <2>5. \A r \in S : store'[r].pc \in {"fresh", "idle"}
    BY <1>1, <1>4, <2>4 DEF MemCore
  <2>6. \A r \in S : store'[r].pc \notin Busy /\ store'[r].pc # "write"
    BY <2>5 DEF Busy
  <2>7. Tidy(legacy') /\ \A t \in T : Tidy(file'[t])
    <3>1. Tidy(<<>>)
      BY <2>1, <2>2 DEF MemCore
    <3> QED
      BY <2>2, <2>3, <3>1 DEF MemCore
  <2>8. \A t \in T : \A x \in saved[t] : x \in Said(file'[t])
    <3>1. SUFFICES ASSUME NEW t \in T, NEW x \in saved[t] PROVE x \in Said(file'[t])
      OBVIOUS
    <3>2. x \in Said(file[t]) \/ (t = General /\ x \in Said(legacy))
      BY DEF MemCore
    <3>3. x \notin Said(<<>>)
      BY DEF Said
    <3> QED
      BY <2>1, <2>3, <3>2, <3>3
  <2>9. MemCore(S, T)'
    BY <1>2, <2>2, <2>6, <2>7, <2>8 DEF MemCore
  <2> QED
    BY <1>2, <2>2, <2>3, <2>4, <2>9 DEF MemType
<1> QED
  BY <1>3, <1>4

\* An operation begins.
LEMMA MemBegin ==
    ASSUME NEW S, NEW T, NEW C, NEW O, NEW N, Mem(S, T, C, O, N)!MemoryBounds,
           MemType(S, T, N), MemCore(S, T), NEW p \in S,
           NEW op \in {"add", "replace", "remove"}, NEW t \in T, NEW old \in Nat,
           NEW new \in Nat, Mem(S, T, C, O, N)!Begin(p, op, t, old, new)
    PROVE  MemType(S, T, N)' /\ MemCore(S, T)'
<1> PICK idle : idle = Mem(S, T, C, O, N)!Idle
  OBVIOUS
<1> PICK rec : rec = [idle EXCEPT !.pc = "open", !.op = op, !.t = t, !.old = old,
                                  !.new = new]
  OBVIOUS
<1>0. idle \in Place(T, N)
  BY Records
<1>1. rec \in Place(T, N) /\ rec.pc = "open" /\ rec.op = op
  BY <1>0 DEF Place, Busy
<1>2. /\ store[p].pc = "idle" /\ store' = [store EXCEPT ![p] = rec]
      /\ UNCHANGED <<file, legacy, lockAt, inodes, holder, saved>>
  BY DEF Mem!Begin
<1>3. legacy = <<>>
  BY <1>2 DEF MemCore
<1>4. MemCore(S, T)' /\ store' \in [S -> Place(T, N)]
  BY <1>1, <1>2, <1>3, CoreFrame
<1> QED
  BY <1>2, <1>4 DEF MemType

\* What the core says of a store at work.
LEMMA AtWork ==
    ASSUME NEW S, NEW T, NEW N, MemType(S, T, N), MemCore(S, T), NEW p \in S,
           store[p].pc \in Busy
    PROVE  /\ store[p] \in Place(T, N) /\ store[p].t \in T /\ store[p].inode \in 0..N
           /\ store[p].op \in {"add", "replace", "remove"} /\ legacy = <<>>
<1>1. store[p].pc # "fresh"
  BY DEF Busy
<1>2. legacy = <<>>
  BY <1>1 DEF MemCore
<1> QED
  BY <1>2 DEF MemType, MemCore, Place

\* The steps at the lock, and those that end an operation.
LEMMA MemOpenLock ==
    ASSUME NEW S, NEW T, NEW C, NEW O, NEW N, Mem(S, T, C, O, N)!MemoryBounds,
           MemType(S, T, N), MemCore(S, T), NEW p \in S,
           Mem(S, T, C, O, N)!OpenLock(p)
    PROVE  MemType(S, T, N)' /\ MemCore(S, T)'
<1> PICK s : s = store[p]
  OBVIOUS
<1>1. s.pc = "open" /\ UNCHANGED <<file, legacy, holder, saved>>
  BY DEF Mem!OpenLock
<1>2. s \in Place(T, N) /\ s.t \in T /\ s.op \in {"add", "replace", "remove"} /\ legacy = <<>>
  BY <1>1, AtWork DEF Busy
<1>3. PICK i \in 0..N :
        /\ store' = [store EXCEPT ![p] = [s EXCEPT !.pc = "flock", !.inode = i]]
        /\ lockAt' \in [T -> 0..N] /\ inodes' \in 0..N
  <2>1. CASE lockAt[s.t] # 0
    <3>1. lockAt[s.t] \in 0..N
      BY <1>2 DEF MemType
    <3> QED
      BY <2>1, <3>1 DEF Mem!OpenLock, MemType
  <2>2. CASE lockAt[s.t] = 0
    <3>1. /\ inodes < N /\ inodes' = inodes + 1 /\ lockAt' = [lockAt EXCEPT ![s.t] = inodes + 1]
          /\ store' = [store EXCEPT ![p] = [s EXCEPT !.pc = "flock", !.inode = inodes + 1]]
      BY <2>2 DEF Mem!OpenLock
    <3>2. inodes + 1 \in 0..N
      BY <3>1 DEF MemType, Mem!MemoryBounds
    <3> QED
      BY <3>1, <3>2 DEF MemType
  <2> QED
    BY <2>1, <2>2
<1> PICK rec : rec = [s EXCEPT !.pc = "flock", !.inode = i]
  OBVIOUS
<1>4. rec \in Place(T, N) /\ rec.pc = "flock" /\ rec.op = s.op
  BY <1>2 DEF Place, Busy
<1>5. MemCore(S, T)' /\ store' \in [S -> Place(T, N)]
  BY <1>1, <1>2, <1>3, <1>4, CoreFrame
<1> QED
  BY <1>1, <1>3, <1>5 DEF MemType

LEMMA MemFlock ==
    ASSUME NEW S, NEW T, NEW C, NEW O, NEW N, Mem(S, T, C, O, N)!MemoryBounds,
           MemType(S, T, N), MemCore(S, T), NEW p \in S,
           Mem(S, T, C, O, N)!Flock(p)
    PROVE  MemType(S, T, N)' /\ MemCore(S, T)'
<1> PICK s : s = store[p]
  OBVIOUS
<1> PICK rec : rec = [s EXCEPT !.pc = "read"]
  OBVIOUS
<1>1. /\ s.pc = "flock" /\ UNCHANGED <<file, legacy, lockAt, inodes, saved>>
      /\ holder' = [holder EXCEPT ![s.inode] = p]
      /\ store' = [store EXCEPT ![p] = rec]
  BY DEF Mem!Flock
<1>2. s \in Place(T, N) /\ s.op \in {"add", "replace", "remove"} /\ legacy = <<>>
  BY <1>1, AtWork DEF Busy
<1>3. rec \in Place(T, N) /\ rec.pc = "read" /\ rec.op = s.op
  BY <1>2 DEF Place, Busy
<1>4. MemCore(S, T)' /\ store' \in [S -> Place(T, N)]
  BY <1>1, <1>2, <1>3, CoreFrame
<1>5. holder' \in [1..N -> S \cup {"none"}]
  BY <1>1 DEF MemType
<1> QED
  BY <1>1, <1>4, <1>5 DEF MemType

LEMMA MemRead ==
    ASSUME NEW S, NEW T, NEW C, NEW O, NEW N, Mem(S, T, C, O, N)!MemoryBounds,
           MemType(S, T, N), MemCore(S, T), NEW p \in S,
           Mem(S, T, C, O, N)!readMemoryFile(p)
    PROVE  MemType(S, T, N)' /\ MemCore(S, T)'
<1> PICK s : s = store[p]
  OBVIOUS
<1> PICK rec : rec = [s EXCEPT !.pc = "write", !.snap = file[s.t]]
  OBVIOUS
<1>1. /\ s.pc = "read" /\ UNCHANGED <<file, legacy, lockAt, inodes, holder, saved>>
      /\ store' = [store EXCEPT ![p] = rec]
  BY DEF Mem!readMemoryFile
<1>2. /\ s \in Place(T, N) /\ s.t \in T /\ s.op \in {"add", "replace", "remove"}
      /\ legacy = <<>>
  BY <1>1, AtWork DEF Busy
<1>3. file[s.t] \in Seq(Nat)
  BY <1>2 DEF MemType
<1>4. /\ rec \in Place(T, N) /\ rec.pc = "write" /\ rec.op = s.op /\ rec.t = s.t
      /\ rec.snap = file[s.t]
  BY <1>2, <1>3 DEF Place, Busy
<1>5. MemCore(S, T)' /\ store' \in [S -> Place(T, N)]
  BY <1>1, <1>2, <1>4, CoreFrame
<1> QED
  BY <1>1, <1>5 DEF MemType

LEMMA MemRemoveLockFile ==
    ASSUME NEW S, NEW T, NEW C, NEW O, NEW N, Mem(S, T, C, O, N)!MemoryBounds,
           MemType(S, T, N), MemCore(S, T), NEW p \in S,
           Mem(S, T, C, O, N)!RemoveLockFile(p)
    PROVE  MemType(S, T, N)' /\ MemCore(S, T)'
<1> PICK s : s = store[p]
  OBVIOUS
<1> PICK rec : rec = [s EXCEPT !.pc = "unlock"]
  OBVIOUS
<1>1. /\ s.pc = "unlink" /\ UNCHANGED <<file, legacy, inodes, holder, saved>>
      /\ lockAt' = [lockAt EXCEPT ![s.t] = 0]
      /\ store' = [store EXCEPT ![p] = rec]
  BY DEF Mem!RemoveLockFile
<1>2. s \in Place(T, N) /\ s.op \in {"add", "replace", "remove"} /\ legacy = <<>>
  BY <1>1, AtWork DEF Busy
<1>3. rec \in Place(T, N) /\ rec.pc = "unlock" /\ rec.op = s.op
  BY <1>2 DEF Place, Busy
<1>4. MemCore(S, T)' /\ store' \in [S -> Place(T, N)]
  BY <1>1, <1>2, <1>3, CoreFrame
<1>5. lockAt' \in [T -> 0..N]
  <2>1. 0 \in 0..N
    BY DEF Mem!MemoryBounds
  <2> QED
    BY <1>1, <2>1 DEF MemType
<1> QED
  BY <1>1, <1>4, <1>5 DEF MemType

\* A store lets go of its lock, because it is done or because it died.
LEMMA MemLeaves ==
    ASSUME NEW S, NEW T, NEW C, NEW O, NEW N, Mem(S, T, C, O, N)!MemoryBounds,
           MemType(S, T, N), MemCore(S, T), NEW p \in S,
           Mem(S, T, C, O, N)!Unlock(p) \/ Mem(S, T, C, O, N)!Crash(p)
    PROVE  MemType(S, T, N)' /\ MemCore(S, T)'
<1> PICK rec : rec = IF Mem(S, T, C, O, N)!Unlock(p) THEN Mem(S, T, C, O, N)!Idle
                     ELSE Mem(S, T, C, O, N)!Fresh
  OBVIOUS
<1>1. /\ UNCHANGED <<file, legacy, lockAt, inodes, saved>>
      /\ holder' = [i \in DOMAIN holder |-> IF holder[i] = p THEN "none" ELSE holder[i]]
      /\ store' = [store EXCEPT ![p] = rec]
  BY DEF Mem!Unlock, Mem!Crash, Mem!Release, Mem!None
<1>2. store[p].pc \in Busy
  <2>1. store[p].pc \in Busy \cup {"fresh", "idle"}
    BY DEF MemType, Place
  <2> QED
    BY <2>1 DEF Mem!Unlock, Mem!Crash, Busy
<1>3. legacy = <<>>
  BY <1>2, AtWork
<1>4. rec \in Place(T, N) /\ rec.pc \in {"idle", "fresh"}
  BY Records
<1>5. rec.pc \notin Busy /\ rec.pc # "write"
  BY <1>4 DEF Busy
<1>6. MemCore(S, T)' /\ store' \in [S -> Place(T, N)]
  BY <1>1, <1>3, <1>4, <1>5, CoreFrame
<1>7. holder' \in [1..N -> S \cup {"none"}]
  BY <1>1 DEF MemType
<1> QED
  BY <1>1, <1>6, <1>7 DEF MemType

\* The write: nobody else is between reading and writing this topic.
LEMMA MemWrite ==
    ASSUME NEW S, NEW T, NEW C, NEW O, NEW N, Mem(S, T, C, O, N)!MemoryBounds,
           MemType(S, T, N), MemCore(S, T), Mem(S, T, C, O, N)!Serialised, NEW p \in S,
           Mem(S, T, C, O, N)!writeMemoryFile(p)
    PROVE  MemType(S, T, N)' /\ MemCore(S, T)'
<1> PICK s : s = store[p]
  OBVIOUS
<1> PICK new : new = Mem(S, T, C, O, N)!Mutated(s, s.snap)
  OBVIOUS
<1> PICK rec : rec = [s EXCEPT !.pc = IF new = << >> /\ s.snap # << >> THEN "unlink"
                                       ELSE "unlock"]
  OBVIOUS
<1>1. /\ s.pc = "write" /\ UNCHANGED <<legacy, lockAt, inodes, holder>>
      /\ store' = [store EXCEPT ![p] = rec]
      /\ file' = IF new = s.snap THEN file ELSE [file EXCEPT ![s.t] = new]
      /\ Mem(S, T, C, O, N)!Confirm(s, new)
  BY DEF Mem!writeMemoryFile
<1>2. /\ s \in Place(T, N) /\ s.t \in T /\ s.op \in {"add", "replace", "remove"}
      /\ legacy = << >> /\ s.old \in Nat /\ s.new \in Nat /\ s.snap = file[s.t]
  <2>1. s \in Place(T, N) /\ s.t \in T /\ s.op \in {"add", "replace", "remove"} /\ legacy = << >>
    BY <1>1, AtWork DEF Busy
  <2>2. s.snap = file[s.t]
    BY <1>1 DEF MemCore
  <2> QED
    BY <2>1, <2>2 DEF Place
<1>3. Tidy(s.snap) /\ s.snap \in Seq(Nat)
  BY <1>2 DEF MemCore, Tidy
<1>4. Sound(s.op, s.old, s.snap, new)
  <2>1. CharLimit \in Nat
    BY DEF Mem!MemoryBounds
  <2> QED
    BY <1>2, <1>3, <2>1, MutatedSound
<1>5. Tidy(new) /\ new \in Seq(Nat)
  BY <1>4 DEF Sound, Tidy
<1>6. rec \in Place(T, N) /\ rec.pc \in {"unlink", "unlock"} /\ rec.op = s.op
  BY <1>2 DEF Place, Busy
<1>7. /\ store' \in [S -> Place(T, N)] /\ store'[p] = rec
      /\ \A r \in S : r # p => store'[r] = store[r]
  BY <1>1, <1>6, OneMoves DEF MemType
<1>8. /\ file' \in [T -> Seq(Nat)] /\ file'[s.t] = new
      /\ \A t \in T : t # s.t => file'[t] = file[t]
  BY <1>1, <1>2, <1>5 DEF MemType
<1>9. \A t \in T : Tidy(file'[t])
  BY <1>5, <1>8 DEF MemCore
<1>10. \A r \in S : store'[r].pc \in Busy => store'[r].op \in {"add", "replace", "remove"}
  BY <1>2, <1>6, <1>7 DEF MemCore
<1>11. \A r \in S : store'[r].pc = "write" => store'[r].snap = file'[store'[r].t]
  <2>1. SUFFICES ASSUME NEW r \in S, store'[r].pc = "write"
                 PROVE  store'[r].snap = file'[store'[r].t]
    OBVIOUS
  <2>2. r # p /\ store'[r] = store[r] /\ store[r].pc = "write"
    BY <1>6, <1>7, <2>1
  <2>3. store[r].t # s.t
    BY <1>1, <2>2 DEF Mem!Serialised
  <2>4. store[r].t \in T /\ store[r].snap = file[store[r].t]
    BY <2>2, AtWork DEF MemCore, Busy
  <2> QED
    BY <1>8, <2>2, <2>3, <2>4
<1> DEFINE given == IF new # s.snap THEN {s.old} ELSE {}
<1>12. saved' = [saved EXCEPT ![s.t] = (saved[s.t] \ given) \cup ({s.new} \cap Said(new))]
  <2>1. Mem(S, T, C, O, N)!Range(new) = Said(new)
    BY DEF Mem!Range, Said
  <2> QED
    BY <1>1, <2>1 DEF Mem!Confirm
<1>13. /\ saved' \in [T -> SUBSET Nat]
       /\ saved'[s.t] = (saved[s.t] \ given) \cup ({s.new} \cap Said(new))
       /\ \A t \in T : t # s.t => saved'[t] = saved[t]
  <2>1. saved[s.t] \subseteq Nat
    BY <1>2 DEF MemType
  <2> QED
    BY <1>2, <1>12, <2>1 DEF MemType
<1>14. \A t \in T : \A x \in saved'[t] : x \in Said(file'[t])
  <2>1. SUFFICES ASSUME NEW t \in T, NEW x \in saved'[t] PROVE x \in Said(file'[t])
    OBVIOUS
  <2>2. x \in saved[t] => x \in Said(file[t])
    <3>1. Said(<< >>) = {}
      BY DEF Said
    <3> QED
      BY <1>2, <3>1 DEF MemCore
  <2>3. CASE t # s.t
    BY <1>8, <1>13, <2>1, <2>2, <2>3
  <2>4. CASE t = s.t /\ x \in Said(new)
    BY <1>8, <2>4
  <2>5. CASE t = s.t /\ x \notin Said(new)
    <3>1. x \in saved[s.t] /\ x \notin given
      BY <1>13, <2>1, <2>5
    <3>2. x \in Said(s.snap)
      BY <1>2, <2>2, <2>5, <3>1
    <3>3. new # s.snap /\ x # s.old
      BY <2>5, <3>1, <3>2
    <3>4. PICK j \in DOMAIN s.snap : s.snap[j] = x
      BY <3>2 DEF Said
    <3>5. j \in 1..Len(s.snap) /\ DOMAIN new = 1..Len(new)
      BY <1>3, <1>5, <3>4
    <3>6. PICK k \in 1..Len(new) : new[k] = x
      BY <1>4, <3>3, <3>4, <3>5 DEF Sound, Keeps
    <3> QED
      BY <2>5, <3>5, <3>6 DEF Said
  <2> QED
    BY <2>3, <2>4, <2>5
<1>15. MemCore(S, T)'
  BY <1>1, <1>2, <1>9, <1>10, <1>11, <1>14 DEF MemCore
<1> QED
  BY <1>1, <1>7, <1>8, <1>13, <1>15 DEF MemType

\* Every step keeps the core.
LEMMA MemoryCoreKept ==
    ASSUME NEW S, NEW T, NEW C, NEW O, NEW N, Mem(S, T, C, O, N)!MemoryBounds,
           MemType(S, T, N), MemCore(S, T), Mem(S, T, C, O, N)!Serialised,
           Mem(S, T, C, O, N)!Next
    PROVE  MemType(S, T, N)' /\ MemCore(S, T)'
<1>0. C \subseteq Nat
  BY DEF Mem!MemoryBounds
<1> PICK p \in S :
      \/ Mem(S, T, C, O, N)!StartAdd(p) \/ Mem(S, T, C, O, N)!StartReplace(p)
      \/ Mem(S, T, C, O, N)!StartRemove(p)
      \/ Mem(S, T, C, O, N)!Flock(p) \/ Mem(S, T, C, O, N)!Steps(p)
      \/ Mem(S, T, C, O, N)!Crash(p)
  BY DEF Mem!Next
<1>1. CASE Mem(S, T, C, O, N)!StartAdd(p)
  <2>1. PICK t \in T, x \in C : Mem(S, T, C, O, N)!Begin(p, "add", t, 0, x)
    BY <1>1 DEF Mem!StartAdd
  <2>2. x \in Nat /\ 0 \in Nat
    BY <1>0
  <2> QED
    BY <2>1, <2>2, MemBegin
<1>2. CASE Mem(S, T, C, O, N)!StartReplace(p)
  <2>1. PICK t \in T, x \in C, y \in C : Mem(S, T, C, O, N)!Begin(p, "replace", t, x, y)
    BY <1>2 DEF Mem!StartReplace
  <2>2. x \in Nat /\ y \in Nat
    BY <1>0
  <2> QED
    BY <2>1, <2>2, MemBegin
<1>3. CASE Mem(S, T, C, O, N)!StartRemove(p)
  <2>1. PICK t \in T, x \in C : Mem(S, T, C, O, N)!Begin(p, "remove", t, x, 0)
    BY <1>3 DEF Mem!StartRemove
  <2>2. x \in Nat /\ 0 \in Nat
    BY <1>0
  <2> QED
    BY <2>1, <2>2, MemBegin
<1>4. CASE Mem(S, T, C, O, N)!Steps(p)
  BY <1>4, MemMigrate, MemOpenLock, MemRead, MemWrite, MemRemoveLockFile, MemLeaves
     DEF Mem!Steps
<1> QED
  BY <1>1, <1>2, <1>3, <1>4, MemFlock, MemLeaves

-----------------------------------------------------------------------------
(* Memory topics: the lock of a topic serves one store at a time, as long as *)
(* no removal takes its name away.                                           *)

\* A store past open holds the lock file the name still leads to, and from the
\* grant of the lock on it is the holder.
AtLock(p, s, N) ==
    /\ s.pc \in {"flock", "read", "write", "unlock"} => s.inode = lockAt[s.t] /\ s.inode \in 1..N
    /\ s.pc \in {"read", "write", "unlock"} => holder[s.inode] = p
    /\ s.pc # "unlink" /\ s.op # "remove"

LockInv(S, N) == \A p \in S : AtLock(p, store[p], N)

\* The lock serialises the stores.
LEMMA LockSerialises ==
    ASSUME NEW S, NEW T, NEW C, NEW O, NEW N, LockInv(S, N)
    PROVE  Mem(S, T, C, O, N)!Serialised
<1>1. SUFFICES ASSUME NEW p \in S, NEW r \in S, p # r, store[p].t = store[r].t,
                      store[p].pc \in {"read", "write"}, store[r].pc \in {"read", "write"}
               PROVE  FALSE
  BY DEF Mem!Serialised
<1>2. store[p].inode = lockAt[store[p].t] /\ holder[store[p].inode] = p
  BY <1>1 DEF LockInv, AtLock
<1>3. store[r].inode = lockAt[store[r].t] /\ holder[store[r].inode] = r
  BY <1>1 DEF LockInv, AtLock
<1> QED
  BY <1>1, <1>2, <1>3

\* A step of p that leaves the others' locks alone.
LEMMA LockFrame ==
    ASSUME NEW S, NEW T, NEW N, MemType(S, T, N), LockInv(S, N), NEW p \in S,
           NEW rec \in Place(T, N), store' = [store EXCEPT ![p] = rec],
           \A t \in T : lockAt[t] # 0 => lockAt'[t] = lockAt[t],
           \A i \in 1..N : \A r \in S : r # p /\ holder[i] = r => holder'[i] = r,
           AtLock(p, rec, N)'
    PROVE  LockInv(S, N)'
<1>1. /\ store'[p] = rec
      /\ \A r \in S : r # p => store'[r] = store[r]
  BY OneMoves DEF MemType
<1>2. SUFFICES ASSUME NEW r \in S PROVE AtLock(r, store[r], N)'
  BY DEF LockInv
<1>3. CASE r = p
  BY <1>1, <1>3 DEF AtLock
<1>4. CASE r # p
  <2>1. AtLock(r, store[r], N) /\ store'[r] = store[r]
    BY <1>1, <1>4 DEF LockInv
  <2>2. store[r].t \in T
    BY DEF MemType, Place
  <2>3. store[r].pc \in {"flock", "read", "write", "unlock"} =>
          /\ store[r].inode = lockAt[store[r].t] /\ store[r].inode \in 1..N
          /\ lockAt'[store[r].t] = lockAt[store[r].t]
    <3>1. 0 \notin 1..N
      OBVIOUS
    <3> QED
      BY <2>1, <2>2, <3>1 DEF AtLock
  <2>4. store[r].pc \in {"read", "write", "unlock"} => holder'[store[r].inode] = r
    BY <1>4, <2>1, <2>3 DEF AtLock
  <2> QED
    BY <2>1, <2>3, <2>4 DEF AtLock
<1> QED
  BY <1>3, <1>4

LEMMA LockKept ==
    ASSUME NEW S, NEW T, NEW C, NEW O, NEW N, Mem(S, T, C, O, N)!MemoryBounds,
           O \subseteq {"add", "replace"},
           MemType(S, T, N), MemCore(S, T), LockInv(S, N), Mem(S, T, C, O, N)!Next
    PROVE  LockInv(S, N)'
<1>0. /\ C \subseteq Nat /\ "none" \notin S /\ N \in Nat /\ CharLimit \in Nat
      /\ "remove" \notin O
  BY DEF Mem!MemoryBounds, Mem!None
<1> PICK p \in S :
      \/ Mem(S, T, C, O, N)!StartAdd(p) \/ Mem(S, T, C, O, N)!StartReplace(p)
      \/ Mem(S, T, C, O, N)!StartRemove(p)
      \/ Mem(S, T, C, O, N)!Flock(p) \/ Mem(S, T, C, O, N)!Steps(p)
      \/ Mem(S, T, C, O, N)!Crash(p)
  BY DEF Mem!Next
<1> PICK s : s = store[p]
  OBVIOUS
<1>1. s \in Place(T, N) /\ AtLock(p, s, N)
  BY DEF MemType, LockInv
<1>2. ASSUME NEW op, NEW t \in T, NEW old \in Nat, NEW new \in Nat,
             op \in {"add", "replace", "remove"}, Mem(S, T, C, O, N)!Begin(p, op, t, old, new)
      PROVE  LockInv(S, N)'
  <2> PICK idle : idle = Mem(S, T, C, O, N)!Idle
    OBVIOUS
  <2> PICK rec : rec = [idle EXCEPT !.pc = "open", !.op = op, !.t = t, !.old = old,
                                    !.new = new]
    OBVIOUS
  <2>0. idle \in Place(T, N)
    BY Records
  <2>1. rec \in Place(T, N) /\ rec.pc = "open" /\ rec.op = op
    BY <1>2, <2>0 DEF Place, Busy
  <2>2. /\ store' = [store EXCEPT ![p] = rec] /\ UNCHANGED <<lockAt, holder>> /\ op \in O
    BY <1>2 DEF Mem!Begin
  <2>3. AtLock(p, rec, N)'
    BY <1>0, <2>1, <2>2 DEF AtLock
  <2> QED
    BY <2>1, <2>2, <2>3, LockFrame
<1>3. CASE Mem(S, T, C, O, N)!StartAdd(p) \/ Mem(S, T, C, O, N)!StartReplace(p)
           \/ Mem(S, T, C, O, N)!StartRemove(p)
  <2>1. CASE Mem(S, T, C, O, N)!StartAdd(p)
    <3>1. PICK t \in T, x \in C : Mem(S, T, C, O, N)!Begin(p, "add", t, 0, x)
      BY <2>1 DEF Mem!StartAdd
    <3>2. x \in Nat /\ 0 \in Nat
      BY <1>0
    <3> QED
      BY <1>2, <3>1, <3>2
  <2>2. CASE Mem(S, T, C, O, N)!StartReplace(p)
    <3>1. PICK t \in T, x \in C, y \in C : Mem(S, T, C, O, N)!Begin(p, "replace", t, x, y)
      BY <2>2 DEF Mem!StartReplace
    <3>2. x \in Nat /\ y \in Nat
      BY <1>0
    <3> QED
      BY <1>2, <3>1, <3>2
  <2>3. CASE Mem(S, T, C, O, N)!StartRemove(p)
    BY <1>0, <2>3 DEF Mem!StartRemove, Mem!Begin
  <2> QED
    BY <1>3, <2>1, <2>2, <2>3
<1>4. CASE Mem(S, T, C, O, N)!Flock(p)
  <2> PICK rec : rec = [s EXCEPT !.pc = "read"]
    OBVIOUS
  <2>1. /\ s.pc = "flock" /\ holder[s.inode] = "none" /\ UNCHANGED lockAt
        /\ holder' = [holder EXCEPT ![s.inode] = p] /\ store' = [store EXCEPT ![p] = rec]
    BY <1>4 DEF Mem!Flock, Mem!None
  <2>2. /\ rec \in Place(T, N) /\ rec.pc = "read" /\ rec.op = s.op /\ rec.t = s.t
        /\ rec.inode = s.inode
    BY <1>1 DEF Place, Busy
  <2>3. s.inode = lockAt[s.t] /\ s.inode \in 1..N /\ s.op # "remove"
    BY <1>1, <2>1 DEF AtLock
  <2>4. /\ holder'[s.inode] = p
        /\ \A i \in 1..N : \A r \in S : r # p /\ holder[i] = r => holder'[i] = r
    BY <1>0, <2>1, <2>3 DEF MemType
  <2>5. AtLock(p, rec, N)'
    BY <2>1, <2>2, <2>3, <2>4 DEF AtLock
  <2>6. \A t \in T : lockAt[t] # 0 => lockAt'[t] = lockAt[t]
    BY <2>1
  <2>7. \A i \in 1..N : \A r \in S : r # p /\ holder[i] = r => holder'[i] = r
    BY <2>4
  <2>8. store' = [store EXCEPT ![p] = rec]
    BY <2>1
  <2> QED
    BY <2>2, <2>5, <2>6, <2>7, <2>8, LockFrame
<1>5. CASE Mem(S, T, C, O, N)!migrateLegacyLocked(p)
  <2> PICK rec : rec = Mem(S, T, C, O, N)!Idle
    OBVIOUS
  <2>1. /\ rec \in Place(T, N) /\ rec.pc = "idle" /\ rec.op = "none"
        /\ store' = [store EXCEPT ![p] = rec] /\ UNCHANGED <<lockAt, holder>>
    BY <1>5, Records DEF Mem!migrateLegacyLocked
  <2>2. AtLock(p, rec, N)'
    BY <2>1 DEF AtLock
  <2> QED
    BY <2>1, <2>2, LockFrame
<1>6. CASE Mem(S, T, C, O, N)!OpenLock(p)
  <2>1. s.pc = "open" /\ UNCHANGED holder /\ s.t \in T /\ s.op # "remove"
    BY <1>1, <1>6 DEF Mem!OpenLock, Place, AtLock
  <2>2. PICK i \in 1..N :
          /\ store' = [store EXCEPT ![p] = [s EXCEPT !.pc = "flock", !.inode = i]]
          /\ lockAt'[s.t] = i
          /\ \A t \in T : lockAt[t] # 0 => lockAt'[t] = lockAt[t]
    <3>1. CASE lockAt[s.t] # 0
      <4>1. lockAt[s.t] \in 1..N
        BY <1>0, <2>1, <3>1 DEF MemType
      <4> QED
        BY <1>6, <3>1, <4>1 DEF Mem!OpenLock
    <3>2. CASE lockAt[s.t] = 0
      <4>1. /\ inodes < N /\ lockAt' = [lockAt EXCEPT ![s.t] = inodes + 1]
            /\ store' = [store EXCEPT ![p] = [s EXCEPT !.pc = "flock", !.inode = inodes + 1]]
        BY <1>6, <3>2 DEF Mem!OpenLock
      <4>2. inodes + 1 \in 1..N
        BY <1>0, <4>1 DEF MemType
      <4> QED
        BY <2>1, <3>2, <4>1, <4>2 DEF MemType
    <3> QED
      BY <3>1, <3>2
  <2> PICK rec : rec = [s EXCEPT !.pc = "flock", !.inode = i]
    OBVIOUS
  <2>0. i \in 0..N
    BY <1>0
  <2>3. /\ rec \in Place(T, N) /\ rec.pc = "flock" /\ rec.op = s.op /\ rec.t = s.t
        /\ rec.inode = i
    BY <1>1, <2>0 DEF Place, Busy
  <2>4. AtLock(p, rec, N)'
    BY <2>1, <2>2, <2>3 DEF AtLock
  <2> QED
    BY <2>1, <2>2, <2>3, <2>4, LockFrame
<1>7. CASE Mem(S, T, C, O, N)!readMemoryFile(p)
  <2> PICK rec : rec = [s EXCEPT !.pc = "write", !.snap = file[s.t]]
    OBVIOUS
  <2>1. /\ s.pc = "read" /\ UNCHANGED <<lockAt, holder>> /\ store' = [store EXCEPT ![p] = rec]
    BY <1>7 DEF Mem!readMemoryFile
  <2>2. file[s.t] \in Seq(Nat)
    BY <1>1 DEF MemType, Place
  <2>3. /\ rec \in Place(T, N) /\ rec.pc = "write" /\ rec.op = s.op /\ rec.t = s.t
        /\ rec.inode = s.inode
    BY <1>1, <2>2 DEF Place, Busy
  <2>4. AtLock(p, rec, N)'
    BY <1>1, <2>1, <2>3 DEF AtLock
  <2> QED
    BY <2>1, <2>3, <2>4, LockFrame
<1>8. CASE Mem(S, T, C, O, N)!writeMemoryFile(p)
  <2> PICK new : new = Mem(S, T, C, O, N)!Mutated(s, s.snap)
    OBVIOUS
  <2>1. /\ s.pc = "write" /\ UNCHANGED <<lockAt, holder>>
        /\ store' = [store EXCEPT ![p] = [s EXCEPT !.pc =
              IF new = << >> /\ s.snap # << >> THEN "unlink" ELSE "unlock"]]
    BY <1>8 DEF Mem!writeMemoryFile
  <2>2. /\ s.t \in T /\ s.op \in {"add", "replace"} /\ s.new \in Nat
        /\ s.snap = file[s.t]
    BY <1>1, <2>1, AtWork DEF Busy, AtLock, MemCore, Place
  <2>3. Sound(s.op, s.old, s.snap, new)
    BY <1>0, <2>2, MutatedSound DEF MemCore
  <2>4. ~(new = << >> /\ s.snap # << >>)
    BY <2>2, <2>3 DEF Sound
  <2> PICK rec : rec = [s EXCEPT !.pc = "unlock"]
    OBVIOUS
  <2>5. /\ rec \in Place(T, N) /\ rec.pc = "unlock" /\ rec.op = s.op /\ rec.t = s.t
        /\ rec.inode = s.inode /\ store' = [store EXCEPT ![p] = rec]
    BY <1>1, <2>1, <2>4 DEF Place, Busy
  <2>6. AtLock(p, rec, N)'
    BY <1>1, <2>1, <2>5 DEF AtLock
  <2> QED
    BY <2>1, <2>5, <2>6, LockFrame
<1>9. CASE Mem(S, T, C, O, N)!RemoveLockFile(p)
  BY <1>1, <1>9 DEF Mem!RemoveLockFile, AtLock
<1>10. CASE Mem(S, T, C, O, N)!Unlock(p) \/ Mem(S, T, C, O, N)!Crash(p)
  <2> PICK rec : rec = IF Mem(S, T, C, O, N)!Unlock(p) THEN Mem(S, T, C, O, N)!Idle
                       ELSE Mem(S, T, C, O, N)!Fresh
    OBVIOUS
  <2>1. /\ UNCHANGED lockAt
        /\ holder' = [i \in DOMAIN holder |-> IF holder[i] = p THEN "none" ELSE holder[i]]
        /\ store' = [store EXCEPT ![p] = rec]
    BY <1>10 DEF Mem!Unlock, Mem!Crash, Mem!Release, Mem!None
  <2>2. rec \in Place(T, N) /\ rec.pc \in {"idle", "fresh"} /\ rec.op = "none"
    BY Records
  <2>3. \A i \in 1..N : \A r \in S : r # p /\ holder[i] = r => holder'[i] = r
    BY <2>1 DEF MemType
  <2>4. AtLock(p, rec, N)'
    BY <2>2 DEF AtLock
  <2> QED
    BY <2>1, <2>2, <2>3, <2>4, LockFrame
<1> QED
  BY <1>3, <1>4, <1>5, <1>6, <1>7, <1>8, <1>9, <1>10 DEF Mem!Steps

-----------------------------------------------------------------------------
(* Memory topics: the number of topics, when one store is at work.           *)

Filled(T) == {t \in T \ {Core} : file[t] # << >>}

\* The cap, and the room that the addition on its way has found.
CapInv(S, T) ==
    /\ Cardinality(Filled(T)) <= MaxTopics
    /\ \A p \in S : store[p].op = "add" =>
         \/ store[p].t = Core \/ file[store[p].t] # << >>
         \/ Cardinality(Filled(T)) < MaxTopics

LEMMA TopicCount ==
    ASSUME NEW S, NEW T, NEW C, NEW O, NEW N
    PROVE  Mem(S, T, C, O, N)!topicCount = Cardinality(Filled(T))
  BY DEF Mem!topicCount, Mem!fileExists, Filled, Mem!Cardinality, Cardinality,
         Mem!IsFiniteSet, IsFiniteSet

LEMMA FilledFinite ==
    ASSUME NEW T, IsFiniteSet(T)
    PROVE  IsFiniteSet(Filled(T)) /\ Cardinality(Filled(T)) \in Nat
<1>1. Filled(T) \subseteq T
  BY DEF Filled
<1>2. IsFiniteSet(Filled(T))
  BY <1>1, FS_Subset
<1> QED
  BY <1>2, FS_CardinalityType

\* A write to one topic counts at most this one more, and none when it was
\* there before, is the core, or is empty afterwards.
LEMMA FilledMoves ==
    ASSUME NEW T, IsFiniteSet(T), NEW t \in T, NEW new,
           \A u \in T : u # t => file'[u] = file[u], file'[t] = new
    PROVE  /\ Cardinality(Filled(T)') \in Nat
           /\ Cardinality(Filled(T)') <= Cardinality(Filled(T)) + 1
           /\ t = Core \/ file[t] # << >> \/ new = << >> =>
                Cardinality(Filled(T)') <= Cardinality(Filled(T))
<1>1. IsFiniteSet(Filled(T)) /\ Cardinality(Filled(T)) \in Nat
  BY FilledFinite
<1>2. Filled(T)' \subseteq Filled(T) \cup {t}
  BY DEF Filled
<1>3. /\ IsFiniteSet(Filled(T) \cup {t})
      /\ Cardinality(Filled(T) \cup {t}) <= Cardinality(Filled(T)) + 1
  <2>1. /\ IsFiniteSet(Filled(T) \cup {t})
        /\ Cardinality(Filled(T) \cup {t}) =
             IF t \in Filled(T) THEN Cardinality(Filled(T)) ELSE Cardinality(Filled(T)) + 1
    BY <1>1, FS_AddElement
  <2> QED
    BY <1>1, <2>1
<1>4. Cardinality(Filled(T) \cup {t}) \in Nat
  BY <1>3, FS_CardinalityType
<1>5. /\ Cardinality(Filled(T)') \in Nat
      /\ Cardinality(Filled(T)') <= Cardinality(Filled(T) \cup {t})
  BY <1>2, <1>3, FS_Subset, FS_CardinalityType
<1>6. ASSUME t = Core \/ file[t] # << >> \/ new = << >>
      PROVE  Cardinality(Filled(T)') <= Cardinality(Filled(T))
  <2>1. Filled(T)' \subseteq Filled(T)
    BY <1>6 DEF Filled
  <2> QED
    BY <1>1, <2>1, FS_Subset
<1> QED
  BY <1>1, <1>3, <1>4, <1>5, <1>6

LEMMA CapKept ==
    ASSUME NEW S, NEW T, NEW C, NEW O, NEW N, Mem(S, T, C, O, N)!MemoryBounds,
           NEW one, S = {one},
           MemType(S, T, N), MemCore(S, T), CapInv(S, T), Mem(S, T, C, O, N)!Next
    PROVE  CapInv(S, T)'
<1>0. /\ C \subseteq Nat /\ N \in Nat /\ MaxTopics \in Nat \ {0} /\ CharLimit \in Nat
      /\ General \in T /\ IsFiniteSet(T)
  BY DEF Mem!MemoryBounds, Mem!IsFiniteSet, IsFiniteSet
<1>1. one \in S /\ \A p \in S : p = one
  OBVIOUS
<1> PICK s : s = store[one]
  OBVIOUS
<1>2. s \in Place(T, N)
  BY <1>1 DEF MemType
<1>3. Cardinality(Filled(T)) \in Nat
  BY <1>0, FilledFinite
<1>4. \/ \E t \in T : \E op, old, new :
           /\ Mem(S, T, C, O, N)!Begin(one, op, t, old, new)
           /\ op = "add" => Mem(S, T, C, O, N)!RoomForTopic(t)
      \/ Mem(S, T, C, O, N)!Flock(one) \/ Mem(S, T, C, O, N)!Steps(one)
      \/ Mem(S, T, C, O, N)!Crash(one)
  BY <1>1 DEF Mem!Next, Mem!StartAdd, Mem!StartReplace, Mem!StartRemove
\* The file stays, and the store adds only where it did.
<1>5. ASSUME UNCHANGED file, NEW rec, store' = [store EXCEPT ![one] = rec],
             rec.op = "add" => \/ rec.t = Core \/ file[rec.t] # << >>
                               \/ Cardinality(Filled(T)) < MaxTopics
      PROVE  CapInv(S, T)'
  <2>1. store'[one] = rec
    BY <1>1, <1>5 DEF MemType
  <2>2. Filled(T)' = Filled(T)
    BY <1>5 DEF Filled
  <2> QED
    BY <1>1, <1>5, <2>1, <2>2 DEF CapInv
<1>6. s.op = "add" => \/ s.t = Core \/ file[s.t] # << >>
                      \/ Cardinality(Filled(T)) < MaxTopics
  BY <1>1 DEF CapInv
<1>7. ASSUME NEW t \in T, NEW op, NEW old, NEW new,
             Mem(S, T, C, O, N)!Begin(one, op, t, old, new),
             op = "add" => Mem(S, T, C, O, N)!RoomForTopic(t)
      PROVE  CapInv(S, T)'
  <2> PICK idle : idle = Mem(S, T, C, O, N)!Idle
    OBVIOUS
  <2> PICK rec : rec = [idle EXCEPT !.pc = "open", !.op = op, !.t = t, !.old = old,
                                    !.new = new]
    OBVIOUS
  <2>0. idle \in Place(T, N)
    BY Records
  <2>1. rec.op = op /\ rec.t = t
    BY <2>0 DEF Place
  <2>2. store' = [store EXCEPT ![one] = rec] /\ UNCHANGED file
    BY <1>7 DEF Mem!Begin
  <2>3. op = "add" => t = Core \/ file[t] # << >> \/ Cardinality(Filled(T)) < MaxTopics
    BY <1>7, TopicCount DEF Mem!RoomForTopic, Mem!fileExists
  <2> QED
    BY <1>5, <2>1, <2>2, <2>3
<1>8. CASE Mem(S, T, C, O, N)!migrateLegacyLocked(one)
  <2> PICK rec : rec = Mem(S, T, C, O, N)!Idle
    OBVIOUS
  <2>1. rec.op = "none" /\ store' = [store EXCEPT ![one] = rec]
    BY <1>8, Records DEF Mem!migrateLegacyLocked
  <2>2. CASE UNCHANGED file
    BY <1>5, <2>1, <2>2
  <2>3. CASE ~UNCHANGED file
    <3>1. legacy # << >> /\ file' = [file EXCEPT ![General] = legacy]
      BY <1>8, <2>3 DEF Mem!migrateLegacyLocked
    <3>2. \A t \in T : file[t] = << >>
      BY <3>1 DEF MemCore
    <3>3. Filled(T) = {}
      BY <3>2 DEF Filled
    <3>4. Cardinality(Filled(T)) = 0
      BY <3>3, FS_EmptySet
    <3>5. /\ \A u \in T : u # General => file'[u] = file[u]
          /\ file'[General] = legacy
      BY <1>0, <3>1 DEF MemType
    <3>6. /\ Cardinality(Filled(T)') \in Nat
          /\ Cardinality(Filled(T)') <= Cardinality(Filled(T)) + 1
      BY <1>0, <3>5, FilledMoves
    <3>7. Cardinality(Filled(T)') <= MaxTopics
      BY <1>0, <3>4, <3>6
    <3>8. store'[one] = rec
      BY <1>1, <2>1 DEF MemType
    <3> QED
      BY <1>1, <2>1, <3>7, <3>8 DEF CapInv
  <2> QED
    BY <2>2, <2>3
<1>9. CASE Mem(S, T, C, O, N)!Flock(one) \/ Mem(S, T, C, O, N)!OpenLock(one)
           \/ Mem(S, T, C, O, N)!readMemoryFile(one) \/ Mem(S, T, C, O, N)!RemoveLockFile(one)
  <2>1. UNCHANGED file
    BY <1>9 DEF Mem!Flock, Mem!OpenLock, Mem!readMemoryFile, Mem!RemoveLockFile
  <2>2. PICK rec : /\ store' = [store EXCEPT ![one] = rec]
                   /\ rec.op = s.op /\ rec.t = s.t
    <3>1. CASE Mem(S, T, C, O, N)!Flock(one)
      <4>1. store' = [store EXCEPT ![one] = [s EXCEPT !.pc = "read"]]
        BY <3>1 DEF Mem!Flock
      <4>2. [s EXCEPT !.pc = "read"].op = s.op /\ [s EXCEPT !.pc = "read"].t = s.t
        BY <1>2 DEF Place
      <4> QED
        BY <4>1, <4>2
    <3>2. CASE Mem(S, T, C, O, N)!OpenLock(one)
      <4>1. PICK i : store' = [store EXCEPT ![one] = [s EXCEPT !.pc = "flock", !.inode = i]]
        BY <3>2 DEF Mem!OpenLock
      <4>2. /\ [s EXCEPT !.pc = "flock", !.inode = i].op = s.op
            /\ [s EXCEPT !.pc = "flock", !.inode = i].t = s.t
        BY <1>2 DEF Place
      <4> QED
        BY <4>1, <4>2
    <3>3. CASE Mem(S, T, C, O, N)!readMemoryFile(one)
      <4>1. store' = [store EXCEPT ![one] = [s EXCEPT !.pc = "write", !.snap = file[s.t]]]
        BY <3>3 DEF Mem!readMemoryFile
      <4>2. /\ [s EXCEPT !.pc = "write", !.snap = file[s.t]].op = s.op
            /\ [s EXCEPT !.pc = "write", !.snap = file[s.t]].t = s.t
        BY <1>2 DEF Place
      <4> QED
        BY <4>1, <4>2
    <3>4. CASE Mem(S, T, C, O, N)!RemoveLockFile(one)
      <4>1. store' = [store EXCEPT ![one] = [s EXCEPT !.pc = "unlock"]]
        BY <3>4 DEF Mem!RemoveLockFile
      <4>2. [s EXCEPT !.pc = "unlock"].op = s.op /\ [s EXCEPT !.pc = "unlock"].t = s.t
        BY <1>2 DEF Place
      <4> QED
        BY <4>1, <4>2
    <3> QED
      BY <1>9, <3>1, <3>2, <3>3, <3>4
  <2> QED
    BY <1>5, <1>6, <2>1, <2>2
<1>10. CASE Mem(S, T, C, O, N)!Unlock(one) \/ Mem(S, T, C, O, N)!Crash(one)
  <2> PICK rec : rec = IF Mem(S, T, C, O, N)!Unlock(one) THEN Mem(S, T, C, O, N)!Idle
                       ELSE Mem(S, T, C, O, N)!Fresh
    OBVIOUS
  <2>1. UNCHANGED file /\ store' = [store EXCEPT ![one] = rec]
    BY <1>10 DEF Mem!Unlock, Mem!Crash
  <2>2. rec.op = "none"
    BY Records
  <2> QED
    BY <1>5, <2>1, <2>2
<1>11. CASE Mem(S, T, C, O, N)!writeMemoryFile(one)
  <2> PICK new : new = Mem(S, T, C, O, N)!Mutated(s, s.snap)
    OBVIOUS
  <2> PICK rec : rec = [s EXCEPT !.pc = IF new = << >> /\ s.snap # << >> THEN "unlink"
                                         ELSE "unlock"]
    OBVIOUS
  <2>1. /\ s.pc = "write" /\ store' = [store EXCEPT ![one] = rec]
        /\ file' = IF new = s.snap THEN file ELSE [file EXCEPT ![s.t] = new]
    BY <1>11 DEF Mem!writeMemoryFile
  <2>2. /\ s.t \in T /\ s.op \in {"add", "replace", "remove"} /\ s.new \in Nat
        /\ s.snap = file[s.t]
    BY <1>1, <1>2, <2>1, AtWork DEF Busy, MemCore, Place
  <2>3. Sound(s.op, s.old, s.snap, new)
    BY <1>0, <2>2, MutatedSound DEF MemCore
  <2>4. rec.op = s.op /\ rec.t = s.t
    BY <1>2 DEF Place
  <2>5. /\ \A u \in T : u # s.t => file'[u] = file[u]
        /\ file'[s.t] = new
    BY <2>1, <2>2 DEF MemType
  <2>6. /\ Cardinality(Filled(T)') \in Nat
        /\ Cardinality(Filled(T)') <= Cardinality(Filled(T)) + 1
        /\ s.t = Core \/ file[s.t] # << >> \/ new = << >> =>
             Cardinality(Filled(T)') <= Cardinality(Filled(T))
    BY <1>0, <2>2, <2>5, FilledMoves
  <2>7. store'[one] = rec
    BY <1>1, <2>1 DEF MemType
  <2>8. Cardinality(Filled(T)) <= MaxTopics
    BY DEF CapInv
  <2>9. CASE s.t = Core \/ file[s.t] # << >> \/ new = << >>
    <3>1. Cardinality(Filled(T)') <= Cardinality(Filled(T))
      BY <2>6, <2>9
    <3>2. Cardinality(Filled(T)') <= MaxTopics
      BY <1>0, <1>3, <2>6, <2>8, <3>1
    <3>3. s.op = "add" => \/ s.t = Core \/ new # << >>
                          \/ Cardinality(Filled(T)') < MaxTopics
      <4>1. SUFFICES ASSUME s.op = "add", s.t # Core, new = << >>
                     PROVE  Cardinality(Filled(T)') < MaxTopics
        OBVIOUS
      <4>2. file[s.t] = << >>
        BY <2>2, <2>3, <4>1 DEF Sound
      <4>3. Cardinality(Filled(T)) < MaxTopics
        BY <1>6, <4>1, <4>2
      <4> QED
        BY <1>0, <1>3, <2>6, <3>1, <4>3
    <3> QED
      BY <1>1, <2>4, <2>5, <2>7, <3>2, <3>3 DEF CapInv
  <2>10. CASE ~(s.t = Core \/ file[s.t] # << >> \/ new = << >>)
    <3>1. s.op = "add"
      BY <2>2, <2>3, <2>10 DEF Sound
    <3>2. Cardinality(Filled(T)) < MaxTopics
      BY <1>6, <2>10, <3>1
    <3>3. Cardinality(Filled(T)') <= MaxTopics
      BY <1>0, <1>3, <2>6, <3>2
    <3>4. file'[store'[one].t] # << >>
      BY <2>4, <2>5, <2>7, <2>10
    <3> QED
      BY <1>1, <3>3, <3>4 DEF CapInv
  <2> QED
    BY <2>9, <2>10
<1> QED
  BY <1>4, <1>7, <1>8, <1>9, <1>10, <1>11 DEF Mem!Steps

-----------------------------------------------------------------------------
(* Memory topics: the start, and what the invariants mean.                   *)

LEMMA OneEntryTidy ==
    ASSUME CharLimit \in Nat, NEW x \in 1 .. CharLimit
    PROVE  Tidy(<< x >>)
<1> DEFINE es == << x >>
<1>1. es \in Seq(Nat) /\ Len(es) = 1 /\ DOMAIN es = {1} /\ es[1] = x /\ es # << >> /\ x \in Nat
  OBVIOUS
<1> HIDE DEF es
<1>2. Chars(es) = {1} \X (1 .. x)
  BY <1>1 DEF Chars
<1>3. IsFiniteSet({1}) /\ Cardinality({1}) = 1
  BY FS_Singleton
<1>4. IsFiniteSet(1 .. x) /\ Cardinality(1 .. x) = x
  <2>1. /\ IsFiniteSet(1 .. x)
        /\ Cardinality(1 .. x) = IF 1 > x THEN 0 ELSE x - 1 + 1
    BY <1>1, FS_Interval
  <2> QED
    BY <1>1, <2>1
<1>5. Cardinality({1} \X (1 .. x)) = Cardinality({1}) * Cardinality(1 .. x)
  BY <1>3, <1>4, FS_Product
<1>6. Cardinality(Chars(es)) = x
  BY <1>1, <1>2, <1>3, <1>4, <1>5
<1>7. Size(es) = x
  BY <1>1, <1>6 DEF Size
<1>8. Distinct(es)
  BY <1>1 DEF Distinct
<1>9. Tidy(es)
  BY <1>1, <1>7, <1>8 DEF Tidy
<1> QED
  BY <1>9 DEF es

LEMMA MemoryStart ==
    ASSUME NEW S, NEW T, NEW C, NEW O, NEW N, Mem(S, T, C, O, N)!MemoryBounds,
           Mem(S, T, C, O, N)!Init
    PROVE  MemType(S, T, N) /\ MemCore(S, T) /\ LockInv(S, N) /\ CapInv(S, T)
<1>0. /\ C \subseteq Nat /\ N \in Nat /\ MaxTopics \in Nat \ {0} /\ CharLimit \in Nat
      /\ General \in T /\ IsFiniteSet(T) /\ 0 \in 0..N /\ << >> \in Seq(Nat)
  BY DEF Mem!MemoryBounds, Mem!IsFiniteSet, IsFiniteSet
<1> PICK rest : rest = Mem(S, T, C, O, N)!Fresh
  OBVIOUS
<1>1. rest \in Place(T, N) /\ rest.pc = "fresh" /\ rest.op = "none"
  BY Records
<1>2. /\ file = [t \in T |-> << >>] /\ lockAt = [t \in T |-> 0] /\ inodes = 0
      /\ holder = [i \in 1 .. N |-> "none"] /\ store = [p \in S |-> rest]
  BY DEF Mem!Init, Mem!None
<1>3. legacy = << >> \/ \E x \in 1 .. CharLimit : legacy = << x >>
  BY DEF Mem!Init
<1>4. Tidy(<< >>)
  BY <1>0 DEF Tidy, Distinct, Size
<1>5. Tidy(legacy)
  BY <1>0, <1>3, <1>4, OneEntryTidy
<1>6. legacy \in Seq(Nat)
  BY <1>5 DEF Tidy
<1>7. saved = [t \in T |-> IF t = General THEN Said(legacy) ELSE {}]
  BY DEF Mem!Init, Mem!Range, Said
<1>8. Said(legacy) \subseteq Nat
  BY <1>6 DEF Said
<1>9. MemType(S, T, N)
  BY <1>0, <1>1, <1>2, <1>6, <1>7, <1>8 DEF MemType
<1>10. \A p \in S : store[p].pc = "fresh" /\ store[p].op = "none"
  BY <1>1, <1>2
<1>11. MemCore(S, T)
  BY <1>2, <1>4, <1>5, <1>7, <1>10 DEF MemCore, Busy
<1>12. LockInv(S, N)
  BY <1>10 DEF LockInv, AtLock
<1>13. Filled(T) = {}
  BY <1>2 DEF Filled
<1>14. Cardinality(Filled(T)) = 0
  BY <1>13, FS_EmptySet
<1>15. CapInv(S, T)
  BY <1>0, <1>10, <1>14 DEF CapInv
<1> QED
  BY <1>9, <1>11, <1>12, <1>15

MemVars == <<file, legacy, lockAt, inodes, holder, store, saved>>

LEMMA MemoryRests ==
    ASSUME NEW S, NEW T, NEW N, UNCHANGED MemVars
    PROVE  /\ MemType(S, T, N) => MemType(S, T, N)'
           /\ MemCore(S, T) => MemCore(S, T)'
           /\ LockInv(S, N) => LockInv(S, N)'
           /\ CapInv(S, T) => CapInv(S, T)'
  BY DEF MemVars, MemType, MemCore, LockInv, AtLock, CapInv, Filled

\* One store is serialised with itself.
LEMMA AloneSerialised ==
    ASSUME NEW one, NEW T, NEW C, NEW O, NEW N
    PROVE  Mem({one}, T, C, O, N)!Serialised
  BY DEF Mem!Serialised

LEMMA MemoryMeans ==
    ASSUME NEW S, NEW T, NEW C, NEW O, NEW N
    PROVE  /\ MemCore(S, T) => /\ Mem(S, T, C, O, N)!NothingLost
                               /\ Mem(S, T, C, O, N)!BucketsTidy
           /\ CapInv(S, T) => Mem(S, T, C, O, N)!TopicCap
<1>1. ASSUME MemCore(S, T) PROVE Mem(S, T, C, O, N)!NothingLost
  <2>1. \A es : Mem(S, T, C, O, N)!Range(es) = Said(es)
    BY DEF Mem!Range, Said
  <2> QED
    BY <1>1, <2>1 DEF MemCore, Mem!NothingLost
<1>2. ASSUME MemCore(S, T) PROVE Mem(S, T, C, O, N)!BucketsTidy
  <2>1. \A es : Mem(S, T, C, O, N)!joinedLen(es) = Size(es)
    BY MemoryOperators
  <2> QED
    BY <1>2, <2>1 DEF MemCore, Tidy, Distinct, Mem!BucketsTidy
<1>3. ASSUME CapInv(S, T) PROVE Mem(S, T, C, O, N)!TopicCap
  BY <1>3, TopicCount DEF CapInv, Mem!TopicCap
<1> QED
  BY <1>1, <1>2, <1>3

-----------------------------------------------------------------------------
(* The directory of a session: one object of the pool, its messages and its  *)
(* file; and how the user messages of a conversation lie on the events.      *)

UsersOf(c) == {i \in 1..Len(c) : c[i].role = "user"}

\* Every message belongs to the turn of the event with the ordinal of the
\* latest user message before it.
Covered(c, e) ==
    \A i \in 1..Len(c) :
        /\ Rank(UsersOf(c), i) \in 1..Len(e)
        /\ e[Rank(UsersOf(c), i)].turn = c[i].turn

LEMMA UsersFinite ==
    ASSUME NEW X, NEW c \in Seq(X), NEW i
    PROVE  /\ UsersOf(c) \in SUBSET Nat /\ UsersOf(c) \subseteq 1..Len(c)
           /\ IsFiniteSet(UsersOf(c)) /\ Cardinality(UsersOf(c)) \in Nat
           /\ Rank(UsersOf(c), i) \in Nat
           /\ Rank(UsersOf(c), i) <= Cardinality(UsersOf(c))
<1> DEFINE T == {j \in UsersOf(c) : j <= i}
<1>1. Len(c) \in Nat
  OBVIOUS
<1>2. UsersOf(c) \in SUBSET (1..Len(c)) /\ IsFiniteSet(1..Len(c))
  <2>1. IsFiniteSet(1..Len(c))
    BY <1>1, FS_Interval
  <2> QED
    BY <2>1 DEF UsersOf
<1>3. IsFiniteSet(UsersOf(c))
  BY <1>2, FS_Subset
<1>4. T \in SUBSET UsersOf(c)
  OBVIOUS
<1>5. IsFiniteSet(T) /\ Cardinality(T) <= Cardinality(UsersOf(c))
  BY <1>3, <1>4, FS_Subset
<1>6. Cardinality(T) \in Nat /\ Cardinality(UsersOf(c)) \in Nat
  BY <1>3, <1>5, FS_CardinalityType
<1> QED
  BY <1>2, <1>3, <1>5, <1>6 DEF Rank

\* At the end of a conversation every user message counts.
LEMMA LastRank ==
    ASSUME NEW X, NEW c \in Seq(X), NEW i \in Nat, i >= Len(c)
    PROVE  Rank(UsersOf(c), i) = Cardinality(UsersOf(c))
<1>1. \A j \in UsersOf(c) : j <= i
  <2>1. Len(c) \in Nat
    OBVIOUS
  <2>2. \A j \in UsersOf(c) : j \in Nat /\ j <= Len(c)
    BY <2>1 DEF UsersOf
  <2> QED
    BY <2>1, <2>2
<1>2. {j \in UsersOf(c) : j <= i} = UsersOf(c)
  BY <1>1
<1> QED
  BY <1>2 DEF Rank

\* A message at the end leaves the ranks before it alone.
LEMMA OneMore ==
    ASSUME NEW X, NEW c \in Seq(X), NEW m \in X
    PROVE  /\ Append(c, m) \in Seq(X) /\ Len(Append(c, m)) = Len(c) + 1
           /\ \A i \in 1..Len(c) :
                /\ Append(c, m)[i] = c[i]
                /\ Rank(UsersOf(Append(c, m)), i) = Rank(UsersOf(c), i)
           /\ Append(c, m)[Len(c) + 1] = m
           /\ m.role = "user" => /\ Cardinality(UsersOf(Append(c, m))) = Cardinality(UsersOf(c)) + 1
                                 /\ Rank(UsersOf(Append(c, m)), Len(c) + 1) = Cardinality(UsersOf(c)) + 1
           /\ m.role # "user" => /\ Cardinality(UsersOf(Append(c, m))) = Cardinality(UsersOf(c))
                                 /\ Rank(UsersOf(Append(c, m)), Len(c) + 1) = Cardinality(UsersOf(c))
<1> DEFINE d == Append(c, m)
           n == Len(c) + 1
<1>1. /\ d \in Seq(X) /\ Len(d) = n /\ Len(c) \in Nat /\ n \in Nat
      /\ \A i \in 1..Len(c) : d[i] = c[i]
      /\ d[n] = m
  OBVIOUS
<1> HIDE DEF d
<1>2. UsersOf(d) = IF m.role = "user" THEN UsersOf(c) \cup {n} ELSE UsersOf(c)
  <2>1. \A i : i \in UsersOf(d) <=> i \in UsersOf(c) \/ (i = n /\ m.role = "user")
    <3>1. \A i : i \in 1..Len(d) <=> i \in 1..Len(c) \/ i = n
      BY <1>1
    <3>2. n \notin 1..Len(c)
      BY <1>1
    <3> QED
      BY <1>1, <3>1, <3>2 DEF UsersOf
  <2> QED
    BY <2>1
<1>3. n \notin UsersOf(c) /\ IsFiniteSet(UsersOf(c))
  <2>1. UsersOf(c) \subseteq 1..Len(c) /\ IsFiniteSet(UsersOf(c))
    BY UsersFinite
  <2> QED
    BY <1>1, <2>1
<1>4. Cardinality(UsersOf(d)) = IF m.role = "user" THEN Cardinality(UsersOf(c)) + 1
                                ELSE Cardinality(UsersOf(c))
  BY <1>2, <1>3, FS_AddElement
<1>5. Rank(UsersOf(d), n) = Cardinality(UsersOf(d))
  BY <1>1, LastRank
<1>6. ASSUME NEW i \in 1..Len(c) PROVE Rank(UsersOf(d), i) = Rank(UsersOf(c), i)
  <2>1. i \in Nat /\ ~(n <= i)
    BY <1>1
  <2>2. {j \in UsersOf(d) : j <= i} = {j \in UsersOf(c) : j <= i}
    BY <1>2, <2>1
  <2> QED
    BY <2>2 DEF Rank
<1> QED
  BY <1>1, <1>4, <1>5, <1>6 DEF d

\* The user's message comes with the event of its turn.
LEMMA UserCovered ==
    ASSUME NEW X, NEW Y, NEW c \in Seq(X), NEW e \in Seq(Y), NEW m \in X, NEW x \in Y,
           Covered(c, e), Cardinality(UsersOf(c)) = Len(e),
           m.role = "user", m.turn = x.turn
    PROVE  /\ Covered(Append(c, m), Append(e, x))
           /\ Cardinality(UsersOf(Append(c, m))) = Len(Append(e, x))
<1> DEFINE d == Append(c, m)
           g == Append(e, x)
           n == Len(c) + 1
<1>1. /\ Len(c) \in Nat /\ Len(e) \in Nat /\ Len(g) = Len(e) + 1 /\ g[Len(e) + 1] = x
      /\ \A i \in 1..Len(e) : g[i] = e[i]
  OBVIOUS
<1>2. /\ Len(d) = n /\ d[n] = m
      /\ Rank(UsersOf(d), n) = Len(e) + 1 /\ Cardinality(UsersOf(d)) = Len(e) + 1
      /\ \A i \in 1..Len(c) : d[i] = c[i] /\ Rank(UsersOf(d), i) = Rank(UsersOf(c), i)
  BY OneMore
<1> HIDE DEF d, g
<1>3. ASSUME NEW i \in 1..Len(d)
      PROVE  Rank(UsersOf(d), i) \in 1..Len(g) /\ g[Rank(UsersOf(d), i)].turn = d[i].turn
  <2>1. CASE i = n
    BY <1>1, <1>2, <2>1
  <2>2. CASE i # n
    <3>1. i \in 1..Len(c)
      BY <1>1, <1>2, <2>2
    <3>2. Rank(UsersOf(c), i) \in 1..Len(e) /\ e[Rank(UsersOf(c), i)].turn = c[i].turn
      BY <3>1 DEF Covered
    <3>3. Rank(UsersOf(c), i) \in 1..Len(g)
      BY <1>1, <3>2
    <3> QED
      BY <1>1, <1>2, <3>1, <3>2, <3>3
  <2> QED
    BY <2>1, <2>2
<1>4. Covered(d, g)
  BY <1>3 DEF Covered
<1> QED
  BY <1>1, <1>2, <1>4 DEF d, g

\* What follows a user message belongs to the turn of the last event.
LEMMA ReplyCovered ==
    ASSUME NEW X, NEW Y, NEW c \in Seq(X), NEW e \in Seq(Y), NEW m \in X,
           Covered(c, e), Cardinality(UsersOf(c)) = Len(e), Len(e) > 0,
           m.role # "user", m.turn = e[Len(e)].turn
    PROVE  /\ Covered(Append(c, m), e)
           /\ Cardinality(UsersOf(Append(c, m))) = Len(e)
<1> DEFINE d == Append(c, m)
           n == Len(c) + 1
<1>1. Len(c) \in Nat /\ Len(e) \in Nat
  OBVIOUS
<1>2. /\ Len(d) = n /\ d[n] = m
      /\ Rank(UsersOf(d), n) = Len(e) /\ Cardinality(UsersOf(d)) = Len(e)
      /\ \A i \in 1..Len(c) : d[i] = c[i] /\ Rank(UsersOf(d), i) = Rank(UsersOf(c), i)
  BY OneMore
<1> HIDE DEF d
<1>3. ASSUME NEW i \in 1..Len(d)
      PROVE  Rank(UsersOf(d), i) \in 1..Len(e) /\ e[Rank(UsersOf(d), i)].turn = d[i].turn
  <2>1. CASE i = n
    BY <1>1, <1>2, <2>1
  <2>2. CASE i # n
    <3>1. i \in 1..Len(c)
      BY <1>1, <1>2, <2>2
    <3> QED
      BY <1>2, <3>1 DEF Covered
  <2> QED
    BY <2>1, <2>2
<1> QED
  BY <1>2, <1>3 DEF Covered, d

\* Cutting a conversation before one of its user messages.
LEMMA CutCovered ==
    ASSUME NEW X, NEW Y, NEW c \in Seq(X), NEW e \in Seq(Y), Covered(c, e),
           NEW i \in UsersOf(c)
    PROVE  /\ SubSeq(c, 1, i - 1) \in Seq(X)
           /\ Covered(SubSeq(c, 1, i - 1), e)
           /\ Cardinality(UsersOf(SubSeq(c, 1, i - 1))) = Rank(UsersOf(c), i) - 1
<1> DEFINE d == SubSeq(c, 1, i - 1)
           n == i - 1
<1>1. i \in 1..Len(c) /\ Len(c) \in Nat /\ c[i].role = "user"
  BY DEF UsersOf
<1>2. n \in 0..Len(c) /\ n \in Nat /\ i = n + 1 /\ ~(i <= n)
  BY <1>1
<1>3. /\ d \in Seq(X) /\ Len(d) = n
      /\ \A j \in 1..n : d[j] = c[j]
  BY <1>1, <1>2
<1> HIDE DEF d
<1>4. UsersOf(d) = {j \in UsersOf(c) : j <= n}
  <2>1. ASSUME NEW j PROVE j \in UsersOf(d) <=> j \in UsersOf(c) /\ j <= n
    <3>1. j \in 1..n <=> j \in 1..Len(c) /\ j <= n
      BY <1>1, <1>2
    <3> QED
      BY <1>3, <3>1 DEF UsersOf
  <2> QED
    BY <2>1
<1> HIDE DEF n
<1>5. {j \in UsersOf(c) : j <= i} = UsersOf(d) \cup {i} /\ i \notin UsersOf(d)
  <2>1. \A j \in UsersOf(c) : j <= i <=> j <= n \/ j = i
    <3>1. \A j \in UsersOf(c) : j \in Nat
      BY <1>1 DEF UsersOf
    <3> QED
      BY <1>2, <3>1
  <2> QED
    BY <1>2, <1>4, <2>1
<1>6. IsFiniteSet(UsersOf(d)) /\ Cardinality(UsersOf(d)) \in Nat
  BY <1>3, UsersFinite
<1>7. Rank(UsersOf(c), i) = Cardinality(UsersOf(d)) + 1
  BY <1>5, <1>6, FS_AddElement DEF Rank
<1>8. ASSUME NEW j \in 1..Len(d)
      PROVE  Rank(UsersOf(d), j) \in 1..Len(e) /\ e[Rank(UsersOf(d), j)].turn = d[j].turn
  <2>1. j \in 1..Len(c) /\ j \in 1..n /\ d[j] = c[j]
    BY <1>1, <1>2, <1>3
  <2>2. \A k \in UsersOf(c) : k <= j => k <= n
    <3>1. \A k \in UsersOf(c) : k \in Nat
      BY <1>1 DEF UsersOf
    <3> QED
      BY <1>2, <2>1, <3>1
  <2>3. {k \in UsersOf(d) : k <= j} = {k \in UsersOf(c) : k <= j}
    BY <1>4, <2>2
  <2>4. Rank(UsersOf(d), j) = Rank(UsersOf(c), j)
    BY <2>3 DEF Rank
  <2> QED
    BY <2>1, <2>4 DEF Covered
<1>9. Covered(d, e)
  BY <1>8 DEF Covered
<1> QED
  BY <1>3, <1>6, <1>7, <1>9 DEF d, n

\* Cutting the events behind as many as there are user messages.
LEMMA EventsCut ==
    ASSUME NEW X, NEW Y, NEW c \in Seq(X), NEW e \in Seq(Y), Covered(c, e),
           NEW k \in 1..Len(e), Cardinality(UsersOf(c)) = k - 1
    PROVE  /\ SubSeq(e, 1, k - 1) \in Seq(Y) /\ Len(SubSeq(e, 1, k - 1)) = k - 1
           /\ \A j \in 1..(k - 1) : SubSeq(e, 1, k - 1)[j] = e[j]
           /\ Covered(c, SubSeq(e, 1, k - 1))
<1> DEFINE g == SubSeq(e, 1, k - 1)
           n == k - 1
<1>1. Len(e) \in Nat /\ n \in Nat /\ n \in 0..Len(e)
  OBVIOUS
<1>2. g \in Seq(Y) /\ Len(g) = n /\ \A j \in 1..n : g[j] = e[j]
  BY <1>1
<1> HIDE DEF g
<1>3. ASSUME NEW i \in 1..Len(c)
      PROVE  Rank(UsersOf(c), i) \in 1..Len(g) /\ g[Rank(UsersOf(c), i)].turn = c[i].turn
  <2>1. Rank(UsersOf(c), i) \in 1..Len(e) /\ e[Rank(UsersOf(c), i)].turn = c[i].turn
    BY DEF Covered
  <2>2. Rank(UsersOf(c), i) <= n
    BY UsersFinite
  <2>3. Rank(UsersOf(c), i) \in 1..n
    BY <1>1, <2>1, <2>2
  <2> QED
    BY <1>2, <2>1, <2>3
<1> QED
  BY <1>2, <1>3 DEF Covered, g

-----------------------------------------------------------------------------
(* The steps of the session directory.  O, M, C, T, G and D are bounds on    *)
(* objects, messages and crashes, the texts, whether stragglers exist, and   *)
(* the ways in which the two logs drift apart.                               *)

DirMessage(T) == [role : {"user", "reply"}, turn : Nat, text : T \cup {"prompt"}]
DirEntry(T) == [turn : Nat, text : T \cup {"command"}]

DirType(O, T) ==
    /\ dir \in BOOLEAN /\ conv \in Seq(DirMessage(T)) /\ evs \in Seq(DirEntry(T))
    /\ inode \in Nat /\ current \in 0..O /\ opened \in 0..O
    /\ mem \in [1..O -> Seq(DirMessage(T))] /\ trace \in [1..O -> Nat]
    /\ turn \in [1..O -> Nat] /\ held \subseteq 1..O
    /\ turns \in Nat /\ editing \subseteq Nat /\ crashes \in Nat

\* Nobody works on an object that left the pool, and the one in the pool holds
\* what the files hold.
OneObject(O) ==
    /\ \A o \in 1..O : o \in held \/ turn[o] # 0 => o = current
    /\ editing # {} => current = 0
    /\ current # 0 => /\ current \in 1..O
                      /\ dir /\ mem[current] = conv /\ trace[current] = inode
    /\ ~dir => conv = << >> /\ evs = << >>

\* The events are those of rising turns; between the two rewrites of an edit,
\* the conversation ends where the edited turn begins.
Aligned(O) ==
    /\ Covered(conv, evs)
    /\ \A i \in 1..Len(evs) : evs[i].turn <= turns
    /\ \A i, j \in 1..Len(evs) : i < j => evs[i].turn < evs[j].turn
    /\ editing = {} => Cardinality(UsersOf(conv)) = Len(evs)
    /\ editing # {} => \E k \in 1..Len(evs) : /\ editing = {evs[k].turn}
                                              /\ Cardinality(UsersOf(conv)) = k - 1
    /\ \A o \in 1..O : turn[o] # 0 => Len(evs) > 0 /\ evs[Len(evs)].turn = turn[o]

DirInv(O, T) == DirType(O, T) /\ OneObject(O) /\ Aligned(O)

LEMMA DirConstants ==
    ASSUME NEW O, NEW M, NEW C, NEW T, NEW G, NEW D,
           Dir(O, M, C, T, G, D)!SessionFilesAssumption
    PROVE  /\ O \in Nat /\ M \in Nat /\ MaxTurns \in Nat
           /\ 0 \in 0..O /\ 0 \in Nat /\ << >> \in Seq(DirMessage(T)) /\ << >> \in Seq(DirEntry(T))
           /\ Dir(O, M, C, T, G, D)!Objects = 1..O /\ Dir(O, M, C, T, G, D)!None = 0
  BY DEF Dir!SessionFilesAssumption, Dir!Objects, Dir!None

LEMMA NothingCovered ==
    ASSUME NEW c, NEW e, c = << >>
    PROVE  Covered(c, e) /\ Cardinality(UsersOf(c)) = 0
<1>1. UsersOf(c) = {} /\ ~(\E i : i \in 1..Len(c))
  BY DEF UsersOf
<1> QED
  BY <1>1, FS_EmptySet DEF Covered

LEMMA DirStart ==
    ASSUME NEW O, NEW M, NEW C, NEW T, NEW G, NEW D,
           Dir(O, M, C, T, G, D)!SessionFilesAssumption, Dir(O, M, C, T, G, D)!Init
    PROVE  DirInv(O, T)
<1>1. /\ dir = FALSE /\ conv = << >> /\ evs = << >> /\ inode = 0 /\ current = 0 /\ opened = 0
      /\ mem = [o \in 1..O |-> << >>] /\ trace = [o \in 1..O |-> 0] /\ turn = [o \in 1..O |-> 0]
      /\ held = {} /\ turns = 0 /\ editing = {} /\ crashes = 0
  BY DirConstants DEF Dir!Init, Dir!None, Dir!Objects
<1>2. DirType(O, T)
  BY <1>1, DirConstants DEF DirType
<1>3. OneObject(O)
  BY <1>1 DEF OneObject
<1>4. Aligned(O)
  <2>1. Covered(conv, evs) /\ Cardinality(UsersOf(conv)) = 0 /\ Len(evs) = 0
    BY <1>1, NothingCovered
  <2> QED
    BY <1>1, <2>1 DEF Aligned
<1> QED
  BY <1>2, <1>3, <1>4 DEF DirInv

\* A step that leaves the two logs alone, and no turn is new.
LEMMA LogsRest ==
    ASSUME NEW O, Aligned(O), UNCHANGED <<conv, evs, turns, editing>>,
           \A o \in 1..O : turn'[o] # 0 => turn'[o] = turn[o]
    PROVE  Aligned(O)'
  BY DEF Aligned

\* Handlers and the pool.
LEMMA DirGetOrCreate ==
    ASSUME NEW O, NEW M, NEW C, NEW T, NEW G, NEW D,
           Dir(O, M, C, T, G, D)!SessionFilesAssumption, DirInv(O, T),
           Dir(O, M, C, T, G, D)!GetOrCreate
    PROVE  DirInv(O, T)'
<1>1. /\ UNCHANGED <<conv, evs, inode, turn, turns, editing, crashes>> /\ editing = {}
  BY DEF Dir!GetOrCreate, Dir!Unlocked
<1>2. O \in Nat /\ DirType(O, T) /\ OneObject(O) /\ Aligned(O)
  BY DirConstants DEF DirInv
<1>3. Aligned(O)'
  BY <1>1, <1>2, LogsRest
<1>4. CASE current # 0 /\ held' = held \cup {current}
           /\ UNCHANGED <<dir, fresh, current, opened, mem, trace>>
  <2>1. DirType(O, T)'
    BY <1>1, <1>2, <1>4 DEF DirType, OneObject
  <2>2. OneObject(O)'
    BY <1>1, <1>2, <1>4 DEF OneObject
  <2> QED
    BY <1>3, <2>1, <2>2 DEF DirInv
<1>5. CASE /\ current = 0 /\ opened < O /\ opened' = opened + 1 /\ current' = opened'
           /\ dir' = TRUE /\ mem' = [mem EXCEPT ![opened'] = conv]
           /\ trace' = [trace EXCEPT ![opened'] = inode] /\ held' = held \cup {opened'}
  <2>1. opened' \in 1..O /\ opened' \in 0..O
    BY <1>2, <1>5 DEF DirType
  <2>2. DirType(O, T)'
    BY <1>1, <1>2, <1>5, <2>1 DEF DirType
  <2>3. mem'[opened'] = conv /\ trace'[opened'] = inode
    BY <1>2, <1>5, <2>1 DEF DirType
  <2>4. \A o \in 1..O : turn[o] = 0 /\ o \notin held
    <3>1. \A o \in 1..O : o # 0
      OBVIOUS
    <3> QED
      BY <1>2, <1>5, <3>1 DEF OneObject
  <2>5. OneObject(O)'
    BY <1>1, <1>5, <2>1, <2>3, <2>4 DEF OneObject
  <2> QED
    BY <1>3, <2>2, <2>5 DEF DirInv
<1> QED
  <2>1. Dir(O, M, C, T, G, D)!None = 0
    BY DirConstants
  <2> QED
    BY <1>4, <1>5, <2>1 DEF Dir!GetOrCreate

LEMMA DirRelease ==
    ASSUME NEW O, NEW M, NEW C, NEW T, NEW G, NEW D,
           Dir(O, M, C, T, G, D)!SessionFilesAssumption, DirInv(O, T), NEW o \in 1..O,
           \/ Dir(O, M, C, T, G, D)!Release(o) \/ Dir(O, M, C, T, G, D)!SendFails(o)
           \/ Dir(O, M, C, T, G, D)!EndTurn(o)
    PROVE  DirInv(O, T)'
<1>1. /\ UNCHANGED <<dir, conv, evs, inode, current, opened, mem, trace, turns, editing, crashes>>
      /\ held' \subseteq held
      /\ turn' = turn \/ turn' = [turn EXCEPT ![o] = 0]
  BY DirConstants DEF Dir!Release, Dir!SendFails, Dir!EndTurn
<1>2. O \in Nat /\ DirType(O, T) /\ OneObject(O) /\ Aligned(O)
  BY DirConstants DEF DirInv
<1>3. turn' \in [1..O -> Nat] /\ \A p \in 1..O : turn'[p] # 0 => turn'[p] = turn[p]
  <2>1. turn \in [1..O -> Nat]
    BY <1>2 DEF DirType
  <2>2. CASE turn' = turn
    BY <2>1, <2>2
  <2>3. CASE turn' = [turn EXCEPT ![o] = 0]
    BY <2>1, <2>3
  <2> QED
    BY <1>1, <2>2, <2>3
<1>4. Aligned(O)'
  BY <1>1, <1>2, <1>3, LogsRest
<1>5. DirType(O, T)'
  BY <1>1, <1>2, <1>3 DEF DirType
<1>6. OneObject(O)'
  BY <1>1, <1>2, <1>3 DEF OneObject
<1> QED
  BY <1>4, <1>5, <1>6 DEF DirInv

\* Without stragglers nobody works on what leaves the pool.
LEMMA LeavesIdle ==
    ASSUME NEW O, NEW M, NEW C, NEW T, NEW D, OneObject(O),
           Dir(O, M, C, T, FALSE, D)!SessionFilesAssumption,
           current # 0 => Dir(O, M, C, T, FALSE, D)!MayStraggle(current)
    PROVE  \A o \in 1..O : o \notin held /\ turn[o] = 0
<1>1. SUFFICES ASSUME NEW o \in 1..O, o \in held \/ turn[o] # 0 PROVE FALSE
  OBVIOUS
<1>2. o = current /\ o # 0
  BY <1>1 DEF OneObject
<1> QED
  BY <1>1, <1>2, DirConstants DEF Dir!MayStraggle

LEMMA DirEvict ==
    ASSUME NEW O, NEW M, NEW C, NEW T, NEW D,
           Dir(O, M, C, T, FALSE, D)!SessionFilesAssumption, DirInv(O, T),
           \/ Dir(O, M, C, T, FALSE, D)!Evict
           \/ \E t \in 1..turns : Dir(O, M, C, T, FALSE, D)!EditRefused(t)
    PROVE  DirInv(O, T)'
<1>1. /\ UNCHANGED <<dir, conv, evs, inode, opened, mem, trace, turn, held, turns, editing, crashes>>
      /\ current' = 0 /\ editing = {}
      /\ current # 0 => Dir(O, M, C, T, FALSE, D)!MayStraggle(current)
  BY DirConstants DEF Dir!Evict, Dir!EditRefused, Dir!Unlocked
<1>2. O \in Nat /\ DirType(O, T) /\ OneObject(O) /\ Aligned(O) /\ 0 \in 0..O
  BY DirConstants DEF DirInv
<1>3. \A o \in 1..O : o \notin held /\ turn[o] = 0
  BY <1>1, <1>2, LeavesIdle
<1>4. Aligned(O)'
  BY <1>1, <1>2, LogsRest
<1>5. DirType(O, T)'
  BY <1>1, <1>2 DEF DirType
<1>6. OneObject(O)'
  BY <1>1, <1>2, <1>3 DEF OneObject
<1> QED
  BY <1>4, <1>5, <1>6 DEF DirInv

\* The directory goes, and with it all of both logs.
LEMMA DirGone ==
    ASSUME NEW O, NEW M, NEW C, NEW T, NEW D,
           Dir(O, M, C, T, FALSE, D)!SessionFilesAssumption, DirInv(O, T),
           Dir(O, M, C, T, FALSE, D)!RemoveAll, current' = 0, editing = {},
           UNCHANGED <<opened, mem, trace, turn, held, turns, editing, crashes>>,
           \A o \in 1..O : o \notin held /\ turn[o] = 0
    PROVE  DirInv(O, T)'
<1>1. /\ dir' = FALSE /\ conv' = << >> /\ evs' = << >> /\ inode' = inode + 1
  BY DEF Dir!RemoveAll
<1>2. /\ O \in Nat /\ DirType(O, T) /\ OneObject(O) /\ Aligned(O) /\ 0 \in 0..O
      /\ << >> \in Seq(DirMessage(T)) /\ << >> \in Seq(DirEntry(T))
  BY DirConstants DEF DirInv
<1>3. DirType(O, T)'
  <2>1. inode' \in Nat
    <3>1. inode \in Nat
      BY <1>2 DEF DirType
    <3> QED
      BY <1>1, <3>1
  <2>3. dir' \in BOOLEAN
    BY <1>1
  <2>2. conv' \in Seq(DirMessage(T)) /\ evs' \in Seq(DirEntry(T)) /\ current' \in 0..O
    BY <1>1, <1>2
  <2> QED
    BY <1>2, <2>1, <2>2, <2>3 DEF DirType
<1>4. OneObject(O)'
  BY <1>1, <1>2 DEF OneObject
<1>5. Covered(conv', evs') /\ Cardinality(UsersOf(conv')) = 0 /\ Len(evs') = 0
  BY <1>1, NothingCovered
<1>6. Aligned(O)'
  BY <1>1, <1>5 DEF Aligned
<1> QED
  BY <1>3, <1>4, <1>6 DEF DirInv

LEMMA DirDelete ==
    ASSUME NEW O, NEW M, NEW C, NEW T, NEW D,
           Dir(O, M, C, T, FALSE, D)!SessionFilesAssumption, DirInv(O, T),
           Dir(O, M, C, T, FALSE, D)!Delete
    PROVE  DirInv(O, T)'
<1>1. /\ current # 0 => Dir(O, M, C, T, FALSE, D)!MayStraggle(current)
      /\ Dir(O, M, C, T, FALSE, D)!RemoveAll /\ current' = 0 /\ editing = {}
      /\ UNCHANGED <<opened, mem, trace, turn, held, turns, editing, crashes>>
  BY DirConstants DEF Dir!Delete, Dir!Unlocked
<1>2. \A o \in 1..O : o \notin held /\ turn[o] = 0
  BY <1>1, LeavesIdle DEF DirInv
<1> QED
  BY <1>1, <1>2, DirGone

LEMMA DirSweep ==
    ASSUME NEW O, NEW M, NEW C, NEW T, NEW D,
           Dir(O, M, C, T, FALSE, D)!SessionFilesAssumption, DirInv(O, T),
           \/ Dir(O, M, C, T, FALSE, D)!SweepRemove \/ Dir(O, M, C, T, FALSE, D)!SweepStat
           \/ Dir(O, M, C, T, FALSE, D)!Age
    PROVE  DirInv(O, T)'
<1>1. CASE UNCHANGED <<dir, conv, evs, inode, current, opened, mem, trace, turn, held, turns,
                       editing, crashes>>
  BY <1>1 DEF DirInv, DirType, OneObject, Aligned, Covered
<1>2. CASE /\ Dir(O, M, C, T, FALSE, D)!RemoveAll /\ current = 0 /\ current' = 0 /\ editing = {}
           /\ UNCHANGED <<opened, mem, trace, turn, held, turns, editing, crashes>>
  <2>1. \A o \in 1..O : o \notin held /\ turn[o] = 0
    <3>1. \A o \in 1..O : o # 0
      OBVIOUS
    <3> QED
      BY <1>2, <3>1 DEF DirInv, OneObject
  <2> QED
    BY <1>2, <2>1, DirGone
<1> QED
  BY <1>1, <1>2, DirConstants
     DEF Dir!SweepRemove, Dir!SweepStat, Dir!Age, Dir!Unlocked

\* A message of the turn that runs; a new turn brings its event.
LEMMA DirSendUser ==
    ASSUME NEW O, NEW M, NEW C, NEW T, NEW G, NEW D,
           Dir(O, M, C, T, G, D)!SessionFilesAssumption, DirInv(O, T),
           NEW o \in 1..O, NEW text \in T, Dir(O, M, C, T, G, D)!SendUser(o, text)
    PROVE  DirInv(O, T)'
<1> PICK m : m = [role |-> "user", turn |-> turns', text |-> text]
  OBVIOUS
<1> PICK e : e = [turn |-> turns', text |-> text]
  OBVIOUS
<1>1. /\ O \in Nat /\ DirType(O, T) /\ OneObject(O) /\ Aligned(O)
      /\ Dir(O, M, C, T, G, D)!None = 0
  BY DirConstants DEF DirInv
<1>2. /\ o \in held /\ held' = held \ {o} /\ turns' = turns + 1
      /\ turn' = [turn EXCEPT ![o] = turns'] /\ dir
      /\ conv' = Append(conv, m) /\ mem' = [mem EXCEPT ![o] = Append(@, m)]
      /\ evs' = IF o = current /\ trace[o] = inode THEN Append(evs, e) ELSE evs
      /\ UNCHANGED <<dir, inode, current, opened, trace, editing, crashes>>
  BY DEF Dir!SendUser, Dir!Append1, Dir!Records
<1>3. /\ o = current /\ o # 0 /\ editing = {} /\ mem[o] = conv /\ trace[o] = inode
  BY <1>1, <1>2 DEF OneObject
<1>4. evs' = Append(evs, e)
  BY <1>2, <1>3
<1>5. /\ turns' \in Nat /\ turns \in Nat
      /\ conv \in Seq(DirMessage(T)) /\ evs \in Seq(DirEntry(T))
      /\ mem \in [1..O -> Seq(DirMessage(T))] /\ turn \in [1..O -> Nat]
  BY <1>1, <1>2 DEF DirType
<1>6. m \in DirMessage(T) /\ e \in DirEntry(T) /\ m.role = "user" /\ m.turn = e.turn
      /\ e.turn = turns'
  BY <1>5 DEF DirMessage, DirEntry
<1>7. conv' \in Seq(DirMessage(T)) /\ evs' \in Seq(DirEntry(T))
  BY <1>2, <1>4, <1>5, <1>6
<1>8. /\ mem' \in [1..O -> Seq(DirMessage(T))] /\ mem'[o] = conv'
  BY <1>2, <1>3, <1>5, <1>7
<1>9. /\ turn' \in [1..O -> Nat] /\ turn'[o] = turns'
      /\ \A p \in 1..O : p # o => turn'[p] = turn[p]
  BY <1>2, <1>5
<1>10. DirType(O, T)'
  BY <1>1, <1>2, <1>5, <1>7, <1>8, <1>9 DEF DirType
<1>11. OneObject(O)'
  BY <1>1, <1>2, <1>3, <1>8, <1>9 DEF OneObject
<1>12. Aligned(O)'
  <2>1. Covered(conv, evs) /\ Cardinality(UsersOf(conv)) = Len(evs)
    BY <1>1, <1>3 DEF Aligned
  <2>2. Covered(conv', evs') /\ Cardinality(UsersOf(conv')) = Len(evs')
    <3>1. conv' = Append(conv, m)
      BY <1>2
    <3> QED
      BY <1>4, <1>5, <1>6, <2>1, <3>1, UserCovered
  <2>3. /\ Len(evs) \in Nat /\ Len(evs') = Len(evs) + 1 /\ evs'[Len(evs) + 1] = e
        /\ \A i \in 1..Len(evs) : evs'[i] = evs[i] /\ evs[i].turn \in Nat
    <3>1. \A i \in 1..Len(evs) : evs[i] \in DirEntry(T)
      BY <1>5
    <3>2. \A i \in 1..Len(evs) : evs[i].turn \in Nat
      BY <3>1 DEF DirEntry
    <3> QED
      BY <1>4, <1>5, <1>6, <3>2
  <2>4. /\ \A i \in 1..Len(evs) : evs[i].turn <= turns
        /\ \A i, j \in 1..Len(evs) : i < j => evs[i].turn < evs[j].turn
    BY <1>1 DEF Aligned
  <2>5. \A i \in 1..Len(evs') : evs'[i].turn <= turns'
    <3>1. ASSUME NEW i \in 1..Len(evs') PROVE evs'[i].turn <= turns'
      <4>1. CASE i = Len(evs) + 1
        BY <1>5, <1>6, <2>3, <4>1
      <4>2. CASE i \in 1..Len(evs)
        BY <1>2, <1>5, <2>3, <2>4, <4>2
      <4> QED
        BY <2>3, <4>1, <4>2
    <3> QED
      BY <3>1
  <2>6. \A i, j \in 1..Len(evs') : i < j => evs'[i].turn < evs'[j].turn
    <3>1. ASSUME NEW i \in 1..Len(evs'), NEW j \in 1..Len(evs'), i < j
          PROVE  evs'[i].turn < evs'[j].turn
      <4>1. i \in 1..Len(evs)
        BY <2>3, <3>1
      <4>2. CASE j = Len(evs) + 1
        BY <1>2, <1>5, <1>6, <2>3, <2>4, <4>1, <4>2
      <4>3. CASE j \in 1..Len(evs)
        BY <2>3, <2>4, <3>1, <4>1, <4>3
      <4> QED
        BY <2>3, <4>2, <4>3
    <3> QED
      BY <3>1
  <2>7. \A p \in 1..O : turn'[p] # 0 => Len(evs') > 0 /\ evs'[Len(evs')].turn = turn'[p]
    <3>1. \A p \in 1..O : p # o => turn'[p] = 0
      BY <1>1, <1>3, <1>9 DEF OneObject
    <3>2. Len(evs') > 0 /\ evs'[Len(evs')].turn = turn'[o]
      BY <1>6, <1>9, <2>3
    <3> QED
      BY <3>1, <3>2
  <2> QED
    BY <1>2, <1>3, <2>2, <2>5, <2>6, <2>7 DEF Aligned
<1> QED
  BY <1>10, <1>11, <1>12 DEF DirInv

LEMMA DirReply ==
    ASSUME NEW O, NEW M, NEW C, NEW T, NEW G, NEW D,
           Dir(O, M, C, T, G, D)!SessionFilesAssumption, DirInv(O, T),
           NEW o \in 1..O, Dir(O, M, C, T, G, D)!Reply(o)
    PROVE  DirInv(O, T)'
<1> PICK m : m = [role |-> "reply", turn |-> turn[o], text |-> "prompt"]
  OBVIOUS
<1>1. /\ O \in Nat /\ DirType(O, T) /\ OneObject(O) /\ Aligned(O)
      /\ Dir(O, M, C, T, G, D)!None = 0
  BY DirConstants DEF DirInv
<1>2. /\ turn[o] # 0 /\ dir
      /\ conv' = Append(conv, m) /\ mem' = [mem EXCEPT ![o] = Append(@, m)]
      /\ UNCHANGED <<dir, evs, inode, current, opened, trace, turn, held, turns, editing, crashes>>
  BY <1>1 DEF Dir!Reply, Dir!Append1
<1>3. /\ o = current /\ o # 0 /\ editing = {} /\ mem[o] = conv
  BY <1>1, <1>2 DEF OneObject
<1>4. /\ conv \in Seq(DirMessage(T)) /\ evs \in Seq(DirEntry(T)) /\ turn[o] \in Nat
      /\ mem \in [1..O -> Seq(DirMessage(T))]
  BY <1>1 DEF DirType
<1>5. m \in DirMessage(T) /\ m.role # "user" /\ m.turn = turn[o]
  BY <1>4 DEF DirMessage
<1>6. conv' \in Seq(DirMessage(T))
  BY <1>2, <1>4, <1>5
<1>7. mem' \in [1..O -> Seq(DirMessage(T))] /\ mem'[o] = conv'
  BY <1>2, <1>3, <1>4, <1>6
<1>8. DirType(O, T)'
  BY <1>1, <1>2, <1>6, <1>7 DEF DirType
<1>9. OneObject(O)'
  BY <1>1, <1>2, <1>3, <1>7 DEF OneObject
<1>10. Aligned(O)'
  <2>1. /\ Covered(conv, evs) /\ Cardinality(UsersOf(conv)) = Len(evs)
        /\ Len(evs) > 0 /\ evs[Len(evs)].turn = m.turn
    BY <1>1, <1>2, <1>3, <1>5 DEF Aligned
  <2>2. Covered(Append(conv, m), evs) /\ Cardinality(UsersOf(Append(conv, m))) = Len(evs)
    BY <1>4, <1>5, <2>1, ReplyCovered
  <2> QED
    <3>1. conv' = Append(conv, m) /\ UNCHANGED <<evs, turn, turns, editing>>
      BY <1>2
    <3>2. Covered(conv', evs') /\ Cardinality(UsersOf(conv')) = Len(evs')
      BY <2>2, <3>1
    <3>3. /\ \A i \in 1..Len(evs) : evs[i].turn <= turns
          /\ \A i, j \in 1..Len(evs) : i < j => evs[i].turn < evs[j].turn
          /\ \A p \in 1..O : turn[p] # 0 => Len(evs) > 0 /\ evs[Len(evs)].turn = turn[p]
      BY <1>1 DEF Aligned
    <3> QED
      BY <1>3, <3>1, <3>2, <3>3 DEF Aligned
<1> QED
  BY <1>8, <1>9, <1>10 DEF DirInv

\* The first rewrite of an edit: what the code counts is the rank.
LEMMA DirEditConversation ==
    ASSUME NEW O, NEW M, NEW C, NEW T, NEW D,
           Dir(O, M, C, T, FALSE, D)!SessionFilesAssumption, DirInv(O, T),
           NEW t \in 1..turns, Dir(O, M, C, T, FALSE, D)!EditConversation(t)
    PROVE  DirInv(O, T)'
<1>1. /\ O \in Nat /\ DirType(O, T) /\ OneObject(O) /\ Aligned(O) /\ 0 \in 0..O
      /\ Dir(O, M, C, T, FALSE, D)!None = 0
  BY DirConstants DEF DirInv
<1>2. /\ editing = {} /\ dir /\ current' = 0 /\ editing' = {t}
      /\ current # 0 => Dir(O, M, C, T, FALSE, D)!MayStraggle(current)
      /\ UNCHANGED <<dir, evs, inode, opened, mem, trace, turn, held, turns, crashes>>
  BY <1>1 DEF Dir!EditConversation, Dir!Unlocked
<1>13. PICK k \in Dir(O, M, C, T, FALSE, D)!sessionEditCut(t) :
          \E i \in Dir(O, M, C, T, FALSE, D)!conversationCut(k, evs[k].text) :
              conv' = SubSeq(conv, 1, i - 1)
  BY DEF Dir!EditConversation
<1>3. PICK i \in Dir(O, M, C, T, FALSE, D)!conversationCut(k, evs[k].text) :
              conv' = SubSeq(conv, 1, i - 1)
  BY <1>13
<1>4. k \in 1..Len(evs) /\ evs[k].turn = t
  BY <1>13 DEF Dir!sessionEditCut
<1>5. i \in UsersOf(conv) /\ Rank(UsersOf(conv), i) = k
  BY <1>3 DEF Dir!conversationCut, Dir!Users, UsersOf, Rank, Dir!Cardinality, Cardinality,
     Dir!IsFiniteSet, IsFiniteSet
<1>6. /\ Covered(conv, evs) /\ conv \in Seq(DirMessage(T)) /\ evs \in Seq(DirEntry(T))
      /\ turns \in Nat
  BY <1>1 DEF Aligned, DirType
<1>7. /\ conv' \in Seq(DirMessage(T)) /\ Covered(conv', evs)
      /\ Cardinality(UsersOf(conv')) = k - 1
  BY <1>3, <1>5, <1>6, CutCovered
<1>8. \A o \in 1..O : o \notin held /\ turn[o] = 0
  BY <1>1, <1>2, LeavesIdle
<1>9. DirType(O, T)'
  <2>1. editing' \subseteq Nat
    BY <1>2, <1>6
  <2> QED
    BY <1>1, <1>2, <1>7, <2>1 DEF DirType
<1>10. OneObject(O)'
  BY <1>1, <1>2, <1>8 DEF OneObject
<1>11. Aligned(O)'
  <2>1. \E n \in 1..Len(evs) : {t} = {evs[n].turn} /\ Cardinality(UsersOf(conv')) = n - 1
    BY <1>4, <1>7
  <2> QED
    BY <1>1, <1>2, <1>7, <1>8, <2>1 DEF Aligned
<1> QED
  BY <1>9, <1>10, <1>11 DEF DirInv

\* The second rewrite.
LEMMA DirEditEvents ==
    ASSUME NEW O, NEW M, NEW C, NEW T, NEW G, NEW D,
           Dir(O, M, C, T, G, D)!SessionFilesAssumption, DirInv(O, T),
           Dir(O, M, C, T, G, D)!EditEvents
    PROVE  DirInv(O, T)'
<1>1. /\ O \in Nat /\ DirType(O, T) /\ OneObject(O) /\ Aligned(O)
  BY DirConstants DEF DirInv
<1>2. /\ inode' = inode + 1 /\ editing' = {}
      /\ UNCHANGED <<dir, conv, current, opened, mem, trace, turn, held, turns, crashes>>
  BY DEF Dir!EditEvents
<1>3. PICK t \in editing, k \in 1..Len(evs) :
              evs[k].turn = t /\ evs' = SubSeq(evs, 1, k - 1)
  BY DEF Dir!EditEvents, Dir!sessionEditCut
<1>4. PICK n \in 1..Len(evs) : editing = {evs[n].turn} /\ Cardinality(UsersOf(conv)) = n - 1
  BY <1>1, <1>3 DEF Aligned
<1>5. /\ evs \in Seq(DirEntry(T)) /\ conv \in Seq(DirMessage(T)) /\ Len(evs) \in Nat
      /\ \A i \in 1..Len(evs) : evs[i].turn \in Nat
  <2>1. evs \in Seq(DirEntry(T)) /\ conv \in Seq(DirMessage(T))
    BY <1>1 DEF DirType
  <2>2. \A i \in 1..Len(evs) : evs[i] \in DirEntry(T)
    BY <2>1
  <2>3. \A i \in 1..Len(evs) : evs[i].turn \in Nat
    BY <2>2 DEF DirEntry
  <2> QED
    BY <2>1, <2>3
<1>6. n = k
  <2>1. evs[n].turn = evs[k].turn
    BY <1>3, <1>4
  <2>2. ~(n < k) /\ ~(k < n)
    BY <1>1, <1>5, <2>1 DEF Aligned
  <2> QED
    BY <1>5, <2>2
<1>7. Covered(conv, evs)
  BY <1>1 DEF Aligned
<1>8. /\ evs' \in Seq(DirEntry(T)) /\ Len(evs') = k - 1 /\ Covered(conv, evs')
      /\ \A j \in 1..(k - 1) : evs'[j] = evs[j]
  BY <1>3, <1>4, <1>5, <1>6, <1>7, EventsCut
<1>9. current = 0 /\ \A o \in 1..O : o \notin held /\ turn[o] = 0
  <2>1. current = 0
    BY <1>1, <1>3 DEF OneObject
  <2>2. \A o \in 1..O : o # 0
    OBVIOUS
  <2> QED
    BY <1>1, <2>1, <2>2 DEF OneObject
<1>10. DirType(O, T)'
  <2>1. inode' \in Nat
    <3>1. inode \in Nat
      BY <1>1 DEF DirType
    <3> QED
      BY <1>2, <3>1
  <2> QED
    BY <1>1, <1>2, <1>8, <2>1 DEF DirType
<1>11. OneObject(O)'
  <2>1. dir
    <3>1. evs # << >>
      BY <1>3
    <3> QED
      BY <1>1, <3>1 DEF OneObject
  <2> QED
    BY <1>2, <1>9, <2>1 DEF OneObject
<1>12. Aligned(O)'
  <2>1. \A i \in 1..Len(evs') : i \in 1..Len(evs) /\ i \in 1..(k - 1)
    BY <1>5, <1>8
  <2>2. \A i \in 1..Len(evs') : evs'[i].turn <= turns'
    BY <1>1, <1>2, <1>8, <2>1 DEF Aligned
  <2>3. \A i, j \in 1..Len(evs') : i < j => evs'[i].turn < evs'[j].turn
    BY <1>1, <1>8, <2>1 DEF Aligned
  <2> QED
    BY <1>2, <1>4, <1>6, <1>8, <1>9, <2>2, <2>3 DEF Aligned
<1> QED
  BY <1>10, <1>11, <1>12 DEF DirInv

\* Without stragglers, drift and crashes every step keeps the invariant.
LEMMA FilesKept ==
    ASSUME NEW O, NEW M, NEW T, Dir(O, M, 0, T, FALSE, {})!SessionFilesAssumption,
           DirInv(O, T), Dir(O, M, 0, T, FALSE, {})!Next
    PROVE  DirInv(O, T)'
<1>1. Dir(O, M, 0, T, FALSE, {})!Objects = 1..O
  BY DirConstants
<1>2. ~Dir(O, M, 0, T, FALSE, {})!CrashInEdit
  <2>1. Dir(O, M, 0, T, FALSE, {})!CrashInEdit => crashes < 0
    BY DEF Dir!CrashInEdit
  <2>2. crashes \in Nat
    BY DEF DirInv, DirType
  <2>3. ~(crashes < 0)
    BY <2>2
  <2> QED
    BY <2>1, <2>3
<1>3. CASE Dir(O, M, 0, T, FALSE, {})!GetOrCreate
  BY <1>3, DirGetOrCreate
<1>4. CASE Dir(O, M, 0, T, FALSE, {})!Evict
  BY <1>4, DirEvict
<1>5. CASE Dir(O, M, 0, T, FALSE, {})!Delete
  BY <1>5, DirDelete
<1>6. CASE Dir(O, M, 0, T, FALSE, {})!EditEvents
  BY <1>6, DirEditEvents
<1>7. CASE \/ Dir(O, M, 0, T, FALSE, {})!SweepRemove \/ Dir(O, M, 0, T, FALSE, {})!SweepStat
           \/ Dir(O, M, 0, T, FALSE, {})!Age
  BY <1>7, DirSweep
<1>8. ASSUME NEW o \in 1..O,
             \/ Dir(O, M, 0, T, FALSE, {})!Release(o) \/ Dir(O, M, 0, T, FALSE, {})!SendFails(o)
             \/ Dir(O, M, 0, T, FALSE, {})!EndTurn(o)
      PROVE  DirInv(O, T)'
  BY <1>8, DirRelease
<1>9. ASSUME NEW o \in 1..O
      PROVE  /\ ~Dir(O, M, 0, T, FALSE, {})!Prompt(o) /\ ~Dir(O, M, 0, T, FALSE, {})!Compact(o)
             /\ ~Dir(O, M, 0, T, FALSE, {})!Command(o)
  BY DEF Dir!Prompt, Dir!Compact, Dir!Command
<1>10. ASSUME NEW o \in 1..O, Dir(O, M, 0, T, FALSE, {})!Reply(o)
       PROVE  DirInv(O, T)'
  BY <1>10, DirReply
<1>11. ASSUME NEW o \in 1..O, NEW text \in T, Dir(O, M, 0, T, FALSE, {})!SendUser(o, text)
       PROVE  DirInv(O, T)'
  BY <1>11, DirSendUser
<1>12. ASSUME NEW t \in 1..turns, Dir(O, M, 0, T, FALSE, {})!EditConversation(t)
       PROVE  DirInv(O, T)'
  BY <1>12, DirEditConversation
<1>13. ASSUME NEW t \in 1..turns, Dir(O, M, 0, T, FALSE, {})!EditRefused(t)
       PROVE  DirInv(O, T)'
  BY <1>13, DirEvict
<1> QED
  BY <1>1, <1>2, <1>3, <1>4, <1>5, <1>6, <1>7, <1>8, <1>9, <1>10, <1>11, <1>12, <1>13
     DEF Dir!Next

LEMMA FilesMean ==
    ASSUME NEW O, NEW M, NEW C, NEW T, NEW G, NEW D,
           Dir(O, M, C, T, G, D)!SessionFilesAssumption, DirInv(O, T)
    PROVE  /\ Dir(O, M, C, T, G, D)!MemoryMatchesFile
           /\ Dir(O, M, C, T, G, D)!ModelSeesNoMore
<1>1. Dir(O, M, C, T, G, D)!MemoryMatchesFile
  BY DirConstants DEF Dir!MemoryMatchesFile, DirInv, OneObject
<1>2. Dir(O, M, C, T, G, D)!ModelSeesNoMore
  BY DEF Dir!ModelSeesNoMore, DirInv, Aligned, Covered
<1> QED
  BY <1>1, <1>2

\* Whatever outlives its place in the pool, and whatever crashes: a session of
\* the pool has its directory.
LEMMA HasFilesStart ==
    ASSUME NEW O, NEW M, NEW C, NEW T, NEW G, NEW D, Dir(O, M, C, T, G, D)!Init
    PROVE  Dir(O, M, C, T, G, D)!PoolHasFiles
  BY DEF Dir!Init, Dir!PoolHasFiles

LEMMA HasFilesKept ==
    ASSUME NEW O, NEW M, NEW C, NEW T, NEW G, NEW D,
           Dir(O, M, C, T, G, D)!PoolHasFiles, Dir(O, M, C, T, G, D)!Next
    PROVE  Dir(O, M, C, T, G, D)!PoolHasFiles'
<1>1. CASE Dir(O, M, C, T, G, D)!GetOrCreate
  BY <1>1 DEF Dir!GetOrCreate, Dir!PoolHasFiles
<1>2. CASE Dir(O, M, C, T, G, D)!Evict \/ Dir(O, M, C, T, G, D)!Delete
  BY <1>2 DEF Dir!Evict, Dir!Delete, Dir!PoolHasFiles
<1>3. CASE Dir(O, M, C, T, G, D)!SweepRemove
  BY <1>3 DEF Dir!SweepRemove, Dir!RemoveAll, Dir!PoolHasFiles
<1>4. CASE UNCHANGED <<dir, current>>
  BY <1>4 DEF Dir!PoolHasFiles
<1>5. ASSUME NEW t, \/ Dir(O, M, C, T, G, D)!EditConversation(t)
                    \/ Dir(O, M, C, T, G, D)!EditRefused(t)
      PROVE  Dir(O, M, C, T, G, D)!PoolHasFiles'
  BY <1>5 DEF Dir!EditConversation, Dir!EditRefused, Dir!PoolHasFiles
<1>6. CASE \/ Dir(O, M, C, T, G, D)!EditEvents \/ Dir(O, M, C, T, G, D)!CrashInEdit
           \/ Dir(O, M, C, T, G, D)!Age \/ Dir(O, M, C, T, G, D)!SweepStat
  BY <1>4, <1>6 DEF Dir!EditEvents, Dir!CrashInEdit, Dir!Age, Dir!SweepStat
<1>7. ASSUME NEW o, \/ Dir(O, M, C, T, G, D)!Release(o) \/ Dir(O, M, C, T, G, D)!SendFails(o)
                    \/ Dir(O, M, C, T, G, D)!Reply(o) \/ Dir(O, M, C, T, G, D)!Prompt(o)
                    \/ Dir(O, M, C, T, G, D)!Compact(o) \/ Dir(O, M, C, T, G, D)!EndTurn(o)
                    \/ Dir(O, M, C, T, G, D)!Command(o)
                    \/ \E text \in T : Dir(O, M, C, T, G, D)!SendUser(o, text)
      PROVE  UNCHANGED <<dir, current>>
  BY <1>7 DEF Dir!Release, Dir!SendFails, Dir!Reply, Dir!Prompt, Dir!Compact, Dir!EndTurn,
     Dir!Command, Dir!SendUser
<1> QED
  BY <1>1, <1>2, <1>3, <1>4, <1>5, <1>6, <1>7 DEF Dir!Next

FileVars == <<dir, conv, evs, inode, fresh, current, opened, mem, trace, turn,
              held, turns, editing, sweeping, purged, crashes>>

LEMMA FilesRest ==
    ASSUME UNCHANGED FileVars, NEW O, NEW M, NEW C, NEW T, NEW G, NEW D
    PROVE  /\ DirInv(O, T) => DirInv(O, T)'
           /\ Dir(O, M, C, T, G, D)!PoolHasFiles => Dir(O, M, C, T, G, D)!PoolHasFiles'
  BY DEF FileVars, DirInv, DirType, OneObject, Aligned, Dir!PoolHasFiles
==============================================================================
