---------------------------- MODULE Stores_proofs ----------------------------
(***************************************************************************)
(* The loop protocol's lemmas, as StoreParts_proofs has them for the other *)
(* stores, and then what the behaviours of MCStores satisfy: in its scene  *)
(* a store behaves as alone, so that the facts of both modules, with the   *)
(* constants of the scene, carry over.                                     *)
(***************************************************************************)
EXTENDS MCStores, StoreParts_proofs
-----------------------------------------------------------------------------
(* The loop protocol: the file steps an operation still has to take follow   *)
(* each other in a fixed order; two actors, the turn and the HTTP handlers.  *)

CountFirst == {"init", "put", "delete"}
ReadFirst == {"question", "answer", "update", "activate", "close", "feed",
              "compaction", "checkpoint"}
FileSteps == ({"read", "count", "append", "write"} \X (CountFirst \cup ReadFirst))
             \cup ({"writedoc", "remove", "summarize", "repair", "ready", "decide"} \X {"none"})

\* The operation a list of steps ends with.
End(q) == q[Len(q)][2]

\* Step y comes after step x in a list that ends with operation e.
Follows(x, y, e) ==
    /\ x[2] # "none" => x[2] = e \/ (x[2] \in {"question", "answer"} /\ e = "activate")
    /\ x[1] = "count" => y = <<"append", x[2]>>
    /\ x[1] = "append" => y = <<IF x[2] \in CountFirst THEN "read" ELSE "write", x[2]>>
    /\ x[1] = "read" => y = <<IF x[2] \in CountFirst THEN "write" ELSE "count", x[2]>>
    /\ x[1] = "write" => \/ x[2] = "question" /\ y = <<"read", "answer">>
                         \/ x[2] = "answer" /\ y = <<"ready", "none">>
    /\ x[1] = "repair" => y = <<"ready", "none">> /\ e = "activate"
    /\ x[1] = "ready" => y = <<"writedoc", "none">> /\ e = "activate"
    /\ x[1] = "writedoc" => \/ e = "init" /\ y = <<"count", "init">>
                            \/ e = "put" /\ y = <<"summarize", "none">>
                            \/ e \in {"update", "activate", "close"} /\ y = <<"read", e>>
    /\ x[1] = "summarize" => y = <<"count", "put">> /\ e = "put"
    /\ x[1] = "remove" => y = <<"count", "delete">> /\ e = "delete"
    /\ x[1] = "decide" => y = <<"read", "feed">> /\ e = "feed"

Shape(q) ==
    /\ q \in Seq(FileSteps) /\ Len(q) > 0 /\ q[Len(q)][1] = "write"
    /\ \A i \in 1..(Len(q) - 1) : Follows(q[i], q[i + 1], End(q))

\* What is left of a list after its first step.
LEMMA ShapeTail ==
    ASSUME NEW q, Shape(q)
    PROVE  /\ q \in Seq(FileSteps) /\ Len(q) \in Nat /\ q # << >> /\ Head(q) = q[1]
           /\ Head(q) \in FileSteps
           /\ Len(q) = 1 => Head(q)[1] = "write"
           /\ Len(q) # 1 => /\ Tail(q) \in Seq(FileSteps) /\ Shape(Tail(q))
                            /\ End(Tail(q)) = End(q)
                            /\ Follows(Head(q), Head(Tail(q)), End(q)) /\ q[2] = Head(Tail(q))
<1>0. q \in Seq(FileSteps) /\ Len(q) > 0 /\ q[Len(q)][1] = "write"
  BY DEF Shape
<1>a. \A i \in 1..(Len(q) - 1) : Follows(q[i], q[i + 1], End(q))
  BY DEF Shape
<1>b. Len(q) \in Nat
  BY <1>0
<1>1. /\ q \in Seq(FileSteps) /\ Len(q) \in Nat /\ Len(q) > 0 /\ q[Len(q)][1] = "write"
      /\ \A i \in 1..(Len(q) - 1) : Follows(q[i], q[i + 1], End(q))
  BY <1>0, <1>a, <1>b
<1>2. q # << >> /\ Head(q) = q[1] /\ q[1] \in FileSteps
  <2>1. q \in Seq(FileSteps) /\ Len(q) \in Nat /\ Len(q) > 0
    BY <1>1
  <2> QED
    BY <2>1
<1>5. Len(q) # 1 => Len(q) > 1
  <2>1. \A n \in Nat : n > 0 /\ n # 1 => n > 1
    OBVIOUS
  <2> QED
    BY <1>1, <2>1
<1>3. ASSUME Len(q) # 1
      PROVE  /\ Tail(q) \in Seq(FileSteps) /\ Len(Tail(q)) = Len(q) - 1 /\ Len(Tail(q)) > 0
             /\ \A i \in 1..(Len(q) - 1) : Tail(q)[i] = q[i + 1]
             /\ Head(Tail(q)) = q[2]
  <2>1. Len(q) > 1 /\ Len(q) \in Nat /\ q \in Seq(FileSteps)
    BY <1>5, <1>1, <1>3
  <2>2. Tail(q) \in Seq(FileSteps) /\ Len(Tail(q)) = Len(q) - 1
    BY <2>1
  <2>3. \A i \in 1..(Len(q) - 1) : Tail(q)[i] = q[i + 1]
    BY <2>1
  <2>4. Tail(q)[1] = q[2] /\ Head(Tail(q)) = Tail(q)[1]
    <3>1. 1 \in 1..(Len(q) - 1) /\ 1 + 1 = 2
      BY <2>1
    <3> QED
      BY <2>1, <2>2, <2>3, <3>1
  <2> QED
    BY <2>1, <2>2, <2>3, <2>4
<1>4. ASSUME Len(q) # 1
      PROVE  /\ Shape(Tail(q)) /\ End(Tail(q)) = End(q)
             /\ Follows(Head(q), Head(Tail(q)), End(q))
  <2>1. Tail(q)[Len(Tail(q))] = q[Len(q)]
    BY <1>1, <1>3, <1>4
  <2>2. End(Tail(q)) = End(q)
    BY <2>1 DEF End
  <2>3. \A i \in 1..(Len(Tail(q)) - 1) : Follows(Tail(q)[i], Tail(q)[i + 1], End(q))
    <3>1. ASSUME NEW i \in 1..(Len(Tail(q)) - 1)
          PROVE  Follows(Tail(q)[i], Tail(q)[i + 1], End(q))
      <4>1. i + 1 \in 1..(Len(q) - 1) /\ i \in 1..(Len(q) - 1)
        BY <1>1, <1>3, <1>4
      <4>2. Follows(q[i + 1], q[(i + 1) + 1], End(q))
        BY <1>1, <4>1
      <4> QED
        BY <1>3, <1>4, <4>1, <4>2
    <3> QED
      BY <3>1
  <2>4. Follows(q[1], q[1 + 1], End(q))
    <3>1. 1 \in 1..(Len(q) - 1)
      BY <1>1, <1>4, <1>5
    <3> QED
      BY <1>1, <3>1
  <2> QED
    BY <1>1, <1>2, <1>3, <1>4, <2>1, <2>2, <2>3, <2>4 DEF Shape
<1> QED
  BY <1>1, <1>2, <1>3, <1>4

\* Steps put before a list.
LEMMA ShapeJoined ==
    ASSUME NEW p \in Seq(FileSteps), NEW q, Shape(q), Len(p) > 0,
           \A i \in 1..(Len(p) - 1) : Follows(p[i], p[i + 1], End(q)),
           Follows(p[Len(p)], q[1], End(q))
    PROVE  Shape(p \o q) /\ End(p \o q) = End(q) /\ (p \o q)[1] = p[1]
<1>0. q \in Seq(FileSteps) /\ Len(q) > 0 /\ q[Len(q)][1] = "write"
  BY DEF Shape
<1>a. \A i \in 1..(Len(q) - 1) : Follows(q[i], q[i + 1], End(q))
  BY DEF Shape
<1>b. Len(q) \in Nat
  BY <1>0
<1>1. /\ q \in Seq(FileSteps) /\ Len(q) \in Nat /\ Len(q) > 0 /\ q[Len(q)][1] = "write"
      /\ \A i \in 1..(Len(q) - 1) : Follows(q[i], q[i + 1], End(q))
  BY <1>0, <1>a, <1>b
<1>2. /\ Len(p) \in Nat /\ p \o q \in Seq(FileSteps) /\ Len(p \o q) = Len(p) + Len(q)
      /\ \A i \in 1..Len(p) : (p \o q)[i] = p[i]
      /\ \A i \in 1..Len(q) : (p \o q)[Len(p) + i] = q[i]
  BY <1>1
<1>3. (p \o q)[Len(p \o q)] = q[Len(q)]
  BY <1>1, <1>2
<1>4. End(p \o q) = End(q)
  BY <1>3 DEF End
<1>5. ASSUME NEW i \in 1..(Len(p \o q) - 1)
      PROVE  Follows((p \o q)[i], (p \o q)[i + 1], End(q))
  <2>1. CASE i < Len(p)
    <3>1. i \in 1..(Len(p) - 1) /\ i \in 1..Len(p) /\ i + 1 \in 1..Len(p)
      BY <1>2, <2>1
    <3>2. Follows(p[i], p[i + 1], End(q))
      BY <3>1
    <3> QED
      BY <1>2, <3>1, <3>2
  <2>2. CASE i = Len(p)
    <3>1. Len(p) \in 1..Len(p) /\ 1 \in 1..Len(q)
      BY <1>1, <1>2
    <3>2. (p \o q)[i] = p[Len(p)] /\ (p \o q)[i + 1] = q[1]
      BY <1>2, <2>2, <3>1
    <3> QED
      BY <3>2
  <2>3. CASE i > Len(p)
    <3> DEFINE k == i - Len(p)
    <3>1. k \in 1..(Len(q) - 1) /\ k \in 1..Len(q) /\ k + 1 \in 1..Len(q)
          /\ i = Len(p) + k /\ i + 1 = Len(p) + (k + 1)
      BY <1>1, <1>2, <2>3
    <3>2. Follows(q[k], q[k + 1], End(q))
      BY <1>1, <3>1
    <3>3. (p \o q)[i] = q[k] /\ (p \o q)[i + 1] = q[k + 1]
      BY <1>2, <3>1
    <3> QED
      BY <3>2, <3>3
  <2> QED
    BY <1>1, <1>2, <2>1, <2>2, <2>3
<1>6. Shape(p \o q)
  BY <1>1, <1>2, <1>3, <1>4, <1>5 DEF Shape
<1> QED
  BY <1>2, <1>4, <1>6

LEMMA ShapeRecord ==
    ASSUME NEW op \in ReadFirst,
           NEW q, q = << <<"read", op>>, <<"count", op>>, <<"append", op>>, <<"write", op>> >>
    PROVE  Shape(q) /\ End(q) = op /\ q[1] = <<"read", op>> /\ Len(q) = 4
<1>1. /\ Len(q) = 4 /\ q[1] = <<"read", op>> /\ q[2] = <<"count", op>>
      /\ q[3] = <<"append", op>> /\ q[4] = <<"write", op>>
  OBVIOUS
<1>2. \A i \in 1..4 : q[i] \in FileSteps
  <2>1. /\ <<"read", op>> \in FileSteps /\ <<"count", op>> \in FileSteps
        /\ <<"append", op>> \in FileSteps /\ <<"write", op>> \in FileSteps
    BY DEF FileSteps
  <2> QED
    BY <1>1, <2>1
<1>3. q \in Seq(FileSteps)
  BY <1>1, <1>2
<1>4. op \notin CountFirst
  BY DEF ReadFirst, CountFirst
<1>5. \A i \in 1..3 : Follows(q[i], q[i + 1], op)
  <2>1. Follows(q[1], q[1 + 1], op) /\ Follows(q[2], q[2 + 1], op) /\ Follows(q[3], q[3 + 1], op)
    BY <1>1, <1>4 DEF Follows
  <2> QED
    BY <2>1
<1> QED
  BY <1>1, <1>3, <1>5 DEF Shape, End

LEMMA ShapeCounted ==
    ASSUME NEW op \in CountFirst,
           NEW q, q = << <<"count", op>>, <<"append", op>>, <<"read", op>>, <<"write", op>> >>
    PROVE  Shape(q) /\ End(q) = op /\ q[1] = <<"count", op>> /\ Len(q) = 4
<1>1. /\ Len(q) = 4 /\ q[1] = <<"count", op>> /\ q[2] = <<"append", op>>
      /\ q[3] = <<"read", op>> /\ q[4] = <<"write", op>>
  OBVIOUS
<1>2. \A i \in 1..4 : q[i] \in FileSteps
  <2>1. /\ <<"read", op>> \in FileSteps /\ <<"count", op>> \in FileSteps
        /\ <<"append", op>> \in FileSteps /\ <<"write", op>> \in FileSteps
    BY DEF FileSteps
  <2> QED
    BY <1>1, <2>1
<1>3. q \in Seq(FileSteps)
  BY <1>1, <1>2
<1>4. \A i \in 1..3 : Follows(q[i], q[i + 1], op)
  <2>1. Follows(q[1], q[1 + 1], op) /\ Follows(q[2], q[2 + 1], op) /\ Follows(q[3], q[3 + 1], op)
    BY <1>1 DEF Follows
  <2> QED
    BY <2>1
<1> QED
  BY <1>1, <1>3, <1>4 DEF Shape, End

\* One step put before a list.
LEMMA ShapeAhead ==
    ASSUME NEW x \in FileSteps, NEW q, Shape(q), Follows(x, q[1], End(q))
    PROVE  /\ Shape(<<x>> \o q) /\ End(<<x>> \o q) = End(q) /\ (<<x>> \o q)[1] = x
<1>1. <<x>> \in Seq(FileSteps) /\ Len(<<x>>) = 1 /\ <<x>>[1] = x
  OBVIOUS
<1>2. \A i \in 1..(Len(<<x>>) - 1) : Follows(<<x>>[i], <<x>>[i + 1], End(q))
  BY <1>1
<1>3. Follows(<<x>>[Len(<<x>>)], q[1], End(q)) /\ Len(<<x>>) > 0
  BY <1>1
<1> DEFINE p == <<x>>
<1>4. p \in Seq(FileSteps) /\ Len(p) > 0 /\ Follows(p[Len(p)], q[1], End(q))
      /\ (\A i \in 1..(Len(p) - 1) : Follows(p[i], p[i + 1], End(q))) /\ p[1] = x
  BY <1>1, <1>2, <1>3
<1> HIDE DEF p
<1>5. Shape(p \o q) /\ End(p \o q) = End(q) /\ (p \o q)[1] = x
  BY <1>4, ShapeJoined
<1> QED
  BY <1>5 DEF p

LoopActors == {"turn", "http"}
LoopStatuses == {"none", "draft", "running", "closed", "disabled"}
LoopModes == {"none", "full", "digest", "reactive", "proactive"}
LoopTexts == [found: BOOLEAN, status: {"none", "draft", "running", "closed"},
              ready: BOOLEAN, pairs: BOOLEAN]
LoopStates == [found: BOOLEAN, status: LoopStatuses, q: Nat, a: Nat,
               full: BOOLEAN, feeds: Nat, mode: LoopModes, seq: Nat]
LoopJobs == [todo: Seq(FileSteps), snap: LoopStates, proto: LoopTexts,
             status: LoopStatuses, mode: LoopModes, seq: Nat]
NoLoopText == [found |-> FALSE, status |-> "none", ready |-> FALSE, pairs |-> FALSE]
NoLoopState == [found |-> FALSE, status |-> "none", q |-> 0, a |-> 0,
                full |-> FALSE, feeds |-> 0, mode |-> "none", seq |-> 0]
NoLoopJob == [todo |-> <<>>, snap |-> NoLoopState, proto |-> NoLoopText,
              status |-> "none", mode |-> "none", seq |-> 0]

LoopType ==
    /\ doc \in LoopTexts /\ st \in LoopStates /\ events \in Nat
    /\ torn \in BOOLEAN /\ answered \in BOOLEAN /\ closed \in BOOLEAN
    /\ job \in [LoopActors -> LoopJobs]
    /\ \A a \in LoopActors : job[a] = NoLoopJob \/ Shape(job[a].todo)

\* What was read of state.json, and state.json itself: there is one only where
\* a LOOP.md is, and it counts answers only if one was recorded.
Counts(s) == /\ s.found => doc.found
             /\ ~s.found => s.a = 0
             /\ s.a > 0 => answered

\* What actor a goes on to do does not make an uncalibrated LOOP.md active.
Honest(a, j) ==
    LET h == Head(j.todo)
        e == End(j.todo)
    IN /\ Counts(j.snap)
       /\ j.todo # << >> =>
            /\ e \notin {"put", "delete"} /\ (a = "http" => e \notin {"init", "update", "close"})
            /\ h[2] # "none" \/ h[1] = "decide" => doc.found
            /\ h[1] = "writedoc" /\ e = "init" => ~doc.found
            /\ h[1] = "writedoc" /\ e = "activate" => answered /\ doc.found
            /\ e \in {"init", "update", "close"} =>
                 j.proto.found /\ j.proto.status \in {"draft", "closed"}
            /\ e = "activate" => j.proto.found

Calibrated ==
    /\ Counts(st)
    /\ doc.found /\ doc.status \in {"none", "running"} => answered
    /\ \A a \in LoopActors : Honest(a, job[a])

\* One actor at a time.
OneAtWork == \A a, b \in LoopActors : a # b => job[a] = NoLoopJob \/ job[b] = NoLoopJob

\* The step comes between the two writes of an operation, or just before them.
Behind(x) == x[1] \in {"append", "write"} \/ (x[1] = "read" /\ x[2] \in CountFirst)

\* The number of the latest line, as it passes from the job to state.json.
MirrorOf(j) ==
    /\ j.todo # << >> =>
         /\ Head(j.todo)[1] = "append" => j.seq = events + 1
         /\ Behind(Head(j.todo)) /\ Head(j.todo)[1] # "append" => j.seq = events
    /\ (j.todo # << >> => ~Behind(Head(j.todo))) => (st.found => st.seq = events)

Mirrored ==
    \A a \in LoopActors :
       (\A b \in LoopActors : b # a => job[b] = NoLoopJob) => MirrorOf(job[a])

\* A status with which a loop is not fed.
Down(status) == status \in {"draft", "closed", "disabled"}

KeepsShut(j) ==
    LET h == Head(j.todo)
        e == End(j.todo)
    IN j.todo # << >> =>
         /\ e = "delete" => j.status = "disabled"
         /\ e \in {"init", "update", "close"} => j.proto.found /\ j.proto.status \in {"draft", "closed"}
         /\ e = "put" => j.proto.found
         /\ h = <<"read", "update">> => doc.status \in {"draft", "closed"}
         /\ h[2] # "none" /\ h[1] # "read" /\ h[2] = "update" => j.status \in {"draft", "closed"}
         /\ h[2] = "init" => ~closed
         /\ closed /\ h[2] \in ReadFirst /\ h[1] # "read" => j.snap.found /\ Down(j.snap.status)
         /\ closed /\ h[2] \in {"put", "delete"} => Down(j.status)

StaysClosed ==
    /\ closed => st.found /\ Down(st.status)
    /\ \A a \in LoopActors : KeepsShut(job[a])

LEMMA LoopConstants ==
    ASSUME NEW T, NEW H, NEW V, NEW C, NEW M, NEW F
    PROVE  /\ Proto(T, H, V, C, M, F)!Actors = LoopActors
           /\ Proto(T, H, V, C, M, F)!Docs = LoopTexts
           /\ Proto(T, H, V, C, M, F)!NoDoc = NoLoopText
           /\ Proto(T, H, V, C, M, F)!NoState = NoLoopState
           /\ Proto(T, H, V, C, M, F)!Idle = NoLoopJob
  BY DEF Proto!Actors, LoopActors, Proto!Docs, LoopTexts, Proto!NoDoc, NoLoopText,
     Proto!NoState, NoLoopState, Proto!Idle, NoLoopJob

LEMMA LoopLists ==
    ASSUME NEW T, NEW H, NEW V, NEW C, NEW M, NEW F, NEW op
    PROVE  /\ Proto(T, H, V, C, M, F)!RecordSteps(op)
                 = << <<"read", op>>, <<"count", op>>, <<"append", op>>, <<"write", op>> >>
           /\ Proto(T, H, V, C, M, F)!AppendFirstSteps(op)
                 = << <<"count", op>>, <<"append", op>>, <<"read", op>>, <<"write", op>> >>
  BY DEF Proto!RecordSteps, Proto!AppendFirstSteps

LEMMA LoopWriteDoc ==
    ASSUME NEW T, NEW H, NEW V, NEW C, NEW M, NEW F
    PROVE  Proto(T, H, V, C, M, F)!WriteDoc = << <<"writedoc", "none">> >>
  BY DEF Proto!WriteDoc

LEMMA StepIs ==
    ASSUME NEW x, NEW k, NEW op, x = <<k, op>>
    PROVE  x[1] = k /\ x[2] = op
  OBVIOUS

LEMMA StepIsNot ==
    ASSUME NEW x, NEW k, NEW op, x[1] # k
    PROVE  x # <<k, op>>
  BY StepIs

LEMMA FirstStep ==
    ASSUME NEW q, Shape(q), NEW k, NEW op, q[1] = <<k, op>>
    PROVE  Head(q)[1] = k /\ Head(q)[2] = op
<1>1. Head(q) = <<k, op>>
  BY ShapeTail
<1> QED
  BY <1>1, StepIs

LEMMA LoopValues == NoLoopText \in LoopTexts /\ NoLoopState \in LoopStates
  BY DEF NoLoopText, LoopTexts, NoLoopState, LoopStates, LoopStatuses, LoopModes

\* A job that has just begun.
JobIs(j, q, text, status) ==
    /\ j \in LoopJobs /\ j.todo = q /\ j.snap = NoLoopState
    /\ j.proto = text /\ j.status = status

LEMMA NoJob ==
    /\ NoLoopJob \in LoopJobs /\ NoLoopJob.todo = << >> /\ NoLoopJob.snap = NoLoopState
    /\ NoLoopJob.status = "none" /\ NoLoopJob.proto = NoLoopText
    /\ NoLoopText \in LoopTexts /\ "none" \in LoopStatuses /\ "none" \in LoopModes
<1> PICK e : e = <<>>
  OBVIOUS
<1>1. e \in Seq(FileSteps)
  OBVIOUS
<1>2. NoLoopState \in LoopStates /\ NoLoopText \in LoopTexts /\ "none" \in LoopStatuses /\ "none" \in LoopModes
  BY LoopValues DEF LoopStatuses, LoopModes
<1>3. NoLoopJob = [todo |-> e, snap |-> NoLoopState, proto |-> NoLoopText,
                   status |-> "none", mode |-> "none", seq |-> 0]
  BY DEF NoLoopJob
<1> QED
  BY <1>1, <1>2, <1>3 DEF LoopJobs

LEMMA FreshPlain ==
    ASSUME NEW q \in Seq(FileSteps), NEW j, j = [NoLoopJob EXCEPT !.todo = q]
    PROVE  JobIs(j, q, NoLoopText, "none")
<1> PICK e \in LoopJobs : e = NoLoopJob
  BY NoJob
<1>1. j = [e EXCEPT !.todo = q]
  OBVIOUS
<1>2. j \in LoopJobs
  BY <1>1 DEF LoopJobs
<1>3. j.todo = q /\ j.snap = e.snap /\ j.status = e.status /\ j.proto = e.proto
  BY <1>1 DEF LoopJobs
<1> QED
  BY <1>2, <1>3, NoJob DEF JobIs

LEMMA FreshText ==
    ASSUME NEW q \in Seq(FileSteps), NEW text \in LoopTexts, NEW j,
           j = [NoLoopJob EXCEPT !.todo = q, !.proto = text]
    PROVE  JobIs(j, q, text, "none")
<1> PICK e \in LoopJobs : e = NoLoopJob
  BY NoJob
<1>1. j = [e EXCEPT !.todo = q, !.proto = text]
  OBVIOUS
<1>2. j \in LoopJobs
  BY <1>1 DEF LoopJobs
<1>3. j.todo = q /\ j.snap = e.snap
  BY <1>1 DEF LoopJobs
<1>4. j.proto = text
  BY <1>1 DEF LoopJobs
<1>5. j.status = e.status
  BY <1>1 DEF LoopJobs
<1> QED
  BY <1>2, <1>3, <1>4, <1>5, NoJob DEF JobIs

LEMMA FreshMode ==
    ASSUME NEW q \in Seq(FileSteps), NEW mode \in LoopModes, NEW j,
           j = [NoLoopJob EXCEPT !.todo = q, !.mode = mode]
    PROVE  JobIs(j, q, NoLoopText, "none")
<1> PICK e \in LoopJobs : e = NoLoopJob
  BY NoJob
<1>1. j = [e EXCEPT !.todo = q, !.mode = mode]
  OBVIOUS
<1>2. j \in LoopJobs
  BY <1>1 DEF LoopJobs
<1>3. j.todo = q /\ j.snap = e.snap /\ j.proto = e.proto /\ j.status = e.status
  BY <1>1 DEF LoopJobs
<1> QED
  BY <1>2, <1>3, NoJob DEF JobIs

LEMMA FreshStatus ==
    ASSUME NEW q \in Seq(FileSteps), NEW status \in LoopStatuses, NEW j,
           j = [NoLoopJob EXCEPT !.todo = q, !.status = status]
    PROVE  JobIs(j, q, NoLoopText, status)
<1> PICK e \in LoopJobs : e = NoLoopJob
  BY NoJob
<1>1. j = [e EXCEPT !.todo = q, !.status = status]
  OBVIOUS
<1>2. j \in LoopJobs
  BY <1>1 DEF LoopJobs
<1>3. j.todo = q /\ j.snap = e.snap /\ j.proto = e.proto
  BY <1>1 DEF LoopJobs
<1>4. j.status = status
  BY <1>1 DEF LoopJobs
<1> QED
  BY <1>2, <1>3, <1>4, NoJob DEF JobIs

LEMMA LoopBegin ==
    ASSUME NEW T, NEW H, NEW V, NEW C, NEW M, NEW F, NEW a, NEW j,
           Proto(T, H, V, C, M, F)!Begin(a, j)
    PROVE  /\ job' = [job EXCEPT ![a] = j]
           /\ UNCHANGED <<doc, st, events, torn, answered, closed>>
  BY DEF Proto!Begin

LEMMA LoopMay ==
    ASSUME NEW T, NEW H, NEW V, NEW C, NEW M, NEW F, NEW a, NEW op,
           Proto(T, H, V, C, M, F)!MayStart(a, op)
    PROVE  /\ job[a] = NoLoopJob /\ (V \/ \A b \in LoopActors : job[b] = NoLoopJob)
           /\ op \in Proto(T, H, V, C, M, F)!OpsOf(a)
<1>1. Proto(T, H, V, C, M, F)!Actors = LoopActors /\ Proto(T, H, V, C, M, F)!Idle = NoLoopJob
  BY LoopConstants
<1> QED
  BY <1>1 DEF Proto!MayStart

\* The operations that save a LOOP.md that is not running.
Setters == {"patch", "update", "close"}

\* What an operation is when it begins.
OpStarted(ops, overlap, a, j) ==
    LET h == Head(j.todo)
        e == End(j.todo)
    IN /\ job[a] = NoLoopJob /\ (overlap \/ \A b \in LoopActors : job[b] = NoLoopJob)
       /\ job' = [job EXCEPT ![a] = j]
       /\ UNCHANGED <<doc, st, events, torn, answered, closed>>
       /\ j \in LoopJobs /\ j.snap = NoLoopState /\ Shape(j.todo)
       /\ h[1] \in {"read", "writedoc", "repair", "remove", "decide"}
       /\ h[2] # "none" => h[2] \in ReadFirst \ {"update"}
       /\ e \in CountFirst => e \in ops
       /\ e \in {"update", "close"} => ops \cap Setters # {}
       /\ h[2] # "none" \/ h[1] = "decide" => doc.found \/ st.found
       /\ h[1] = "writedoc" => e # "activate"
       /\ h[1] = "writedoc" /\ e = "init" => ~doc.found
       /\ e \in {"init", "update", "close"} => j.proto.found /\ j.proto.status \in {"draft", "closed"}
       /\ e \in {"activate", "put"} => j.proto.found
       /\ e = "delete" => j.status = "disabled"

Starts(ops, overlap, a) == \E j : OpStarted(ops, overlap, a, j)

\* Operations that only record something of what is there.
LEMMA RecordStarts ==
    ASSUME NEW ops, NEW overlap, NEW a \in LoopActors, NEW j, NEW op \in ReadFirst,
           op \notin {"update", "activate", "close"},
           job[a] = NoLoopJob, overlap \/ \A b \in LoopActors : job[b] = NoLoopJob,
           job' = [job EXCEPT ![a] = j],
           UNCHANGED <<doc, st, events, torn, answered, closed>>,
           JobIs(j, << <<"read", op>>, <<"count", op>>, <<"append", op>>, <<"write", op>> >>, NoLoopText, "none"),
           doc.found \/ st.found
    PROVE  Starts(ops, overlap, a)
<1> DEFINE q == << <<"read", op>>, <<"count", op>>, <<"append", op>>, <<"write", op>> >>
<1>1. Shape(q) /\ End(q) = op /\ q[1] = <<"read", op>>
  BY ShapeRecord
<1> HIDE DEF q
<1>2. Head(q)[1] = "read" /\ Head(q)[2] = op
  BY <1>1, FirstStep
<1>3. op \notin CountFirst
  BY DEF ReadFirst, CountFirst
<1>4. j \in LoopJobs /\ j.todo = q /\ j.snap = NoLoopState
  BY DEF JobIs, q
<1>5. op \notin {"init", "put", "delete", "update", "activate", "close"} /\ op \in ReadFirst \ {"update"}
  BY <1>3 DEF CountFirst
<1>6. OpStarted(ops, overlap, a, j)
  BY <1>1, <1>2, <1>3, <1>4, <1>5 DEF OpStarted
<1> QED
  BY <1>6 DEF Starts

LEMMA StartQuestion ==
    ASSUME NEW T, NEW H, NEW V, NEW C, NEW M, NEW F, NEW a \in LoopActors,
           Proto(T, H, V, C, M, F)!StartQuestion(a)
    PROVE  Starts(Proto(T, H, V, C, M, F)!OpsOf(a), V, a)
<1> DEFINE q == << <<"read", "question">>, <<"count", "question">>, <<"append", "question">>, <<"write", "question">> >>
<1> PICK j : j = [NoLoopJob EXCEPT !.todo = q]
  OBVIOUS
<1>1. "question" \in ReadFirst
  BY DEF ReadFirst
<1>2. q \in Seq(FileSteps)
  BY <1>1, ShapeRecord DEF Shape
<1> HIDE DEF q
<1>3. q = Proto(T, H, V, C, M, F)!RecordSteps("question") /\ NoLoopJob = Proto(T, H, V, C, M, F)!Idle
  BY LoopConstants, LoopLists DEF q
<1>4. /\ st.found /\ Proto(T, H, V, C, M, F)!MayStart(a, "question")
      /\ Proto(T, H, V, C, M, F)!Begin(a, j)
  BY <1>3 DEF Proto!StartQuestion
<1>5. JobIs(j, q, NoLoopText, "none")
  BY <1>2, FreshPlain
<1>6. /\ job[a] = NoLoopJob /\ (V \/ \A b \in LoopActors : job[b] = NoLoopJob)
      /\ job' = [job EXCEPT ![a] = j]
      /\ UNCHANGED <<doc, st, events, torn, answered, closed>>
  BY <1>4, LoopMay, LoopBegin
<1> QED
  BY <1>1, <1>4, <1>5, <1>6, RecordStarts DEF q

LEMMA StartAnswer ==
    ASSUME NEW T, NEW H, NEW V, NEW C, NEW M, NEW F, NEW a \in LoopActors,
           Proto(T, H, V, C, M, F)!StartAnswer(a)
    PROVE  Starts(Proto(T, H, V, C, M, F)!OpsOf(a), V, a)
<1> DEFINE q == << <<"read", "answer">>, <<"count", "answer">>, <<"append", "answer">>, <<"write", "answer">> >>
<1> PICK j : j = [NoLoopJob EXCEPT !.todo = q]
  OBVIOUS
<1>1. "answer" \in ReadFirst
  BY DEF ReadFirst
<1>2. q \in Seq(FileSteps)
  BY <1>1, ShapeRecord DEF Shape
<1> HIDE DEF q
<1>3. q = Proto(T, H, V, C, M, F)!RecordSteps("answer") /\ NoLoopJob = Proto(T, H, V, C, M, F)!Idle
  BY LoopConstants, LoopLists DEF q
<1>4. /\ st.found /\ Proto(T, H, V, C, M, F)!MayStart(a, "answer")
      /\ Proto(T, H, V, C, M, F)!Begin(a, j)
  BY <1>3 DEF Proto!StartAnswer
<1>5. JobIs(j, q, NoLoopText, "none")
  BY <1>2, FreshPlain
<1>6. /\ job[a] = NoLoopJob /\ (V \/ \A b \in LoopActors : job[b] = NoLoopJob)
      /\ job' = [job EXCEPT ![a] = j]
      /\ UNCHANGED <<doc, st, events, torn, answered, closed>>
  BY <1>4, LoopMay, LoopBegin
<1> QED
  BY <1>1, <1>4, <1>5, <1>6, RecordStarts DEF q

LEMMA StartCheckpoint ==
    ASSUME NEW T, NEW H, NEW V, NEW C, NEW M, NEW F, NEW a \in LoopActors,
           Proto(T, H, V, C, M, F)!StartCheckpoint(a)
    PROVE  Starts(Proto(T, H, V, C, M, F)!OpsOf(a), V, a)
<1> DEFINE q == << <<"read", "checkpoint">>, <<"count", "checkpoint">>, <<"append", "checkpoint">>, <<"write", "checkpoint">> >>
<1> PICK j : j = [NoLoopJob EXCEPT !.todo = q]
  OBVIOUS
<1>1. "checkpoint" \in ReadFirst
  BY DEF ReadFirst
<1>2. q \in Seq(FileSteps)
  BY <1>1, ShapeRecord DEF Shape
<1> HIDE DEF q
<1>3. q = Proto(T, H, V, C, M, F)!RecordSteps("checkpoint") /\ NoLoopJob = Proto(T, H, V, C, M, F)!Idle
  BY LoopConstants, LoopLists DEF q
<1>4. /\ doc.found /\ Proto(T, H, V, C, M, F)!MayStart(a, "checkpoint")
      /\ Proto(T, H, V, C, M, F)!Begin(a, j)
  BY <1>3 DEF Proto!StartCheckpoint
<1>5. JobIs(j, q, NoLoopText, "none")
  BY <1>2, FreshPlain
<1>6. /\ job[a] = NoLoopJob /\ (V \/ \A b \in LoopActors : job[b] = NoLoopJob)
      /\ job' = [job EXCEPT ![a] = j]
      /\ UNCHANGED <<doc, st, events, torn, answered, closed>>
  BY <1>4, LoopMay, LoopBegin
<1> QED
  BY <1>1, <1>4, <1>5, <1>6, RecordStarts DEF q

LEMMA StartCompaction ==
    ASSUME NEW T, NEW H, NEW V, NEW C, NEW M, NEW F, NEW a \in LoopActors,
           NEW kind \in {"reactive", "proactive"},
           Proto(T, H, V, C, M, F)!StartCompaction(a, kind)
    PROVE  Starts(Proto(T, H, V, C, M, F)!OpsOf(a), V, a)
<1> DEFINE q == << <<"read", "compaction">>, <<"count", "compaction">>, <<"append", "compaction">>, <<"write", "compaction">> >>
<1> PICK j : j = [NoLoopJob EXCEPT !.todo = q, !.mode = kind]
  OBVIOUS
<1>1. "compaction" \in ReadFirst /\ kind \in LoopModes
  BY DEF ReadFirst, LoopModes
<1>2. q \in Seq(FileSteps)
  BY <1>1, ShapeRecord DEF Shape
<1> HIDE DEF q
<1>3. q = Proto(T, H, V, C, M, F)!RecordSteps("compaction") /\ NoLoopJob = Proto(T, H, V, C, M, F)!Idle
  BY LoopConstants, LoopLists DEF q
<1>4. /\ doc.found /\ Proto(T, H, V, C, M, F)!MayStart(a, kind)
      /\ Proto(T, H, V, C, M, F)!Begin(a, j)
  BY <1>3 DEF Proto!StartCompaction
<1>5. JobIs(j, q, NoLoopText, "none")
  BY <1>1, <1>2, FreshMode
<1>6. /\ job[a] = NoLoopJob /\ (V \/ \A b \in LoopActors : job[b] = NoLoopJob)
      /\ job' = [job EXCEPT ![a] = j]
      /\ UNCHANGED <<doc, st, events, torn, answered, closed>>
  BY <1>4, LoopMay, LoopBegin
<1> QED
  BY <1>1, <1>4, <1>5, <1>6, RecordStarts DEF q

\* Operations that begin with a step of their own.
LEMMA OwnStarts ==
    ASSUME NEW ops, NEW overlap, NEW a \in LoopActors, NEW j, NEW q, NEW text \in LoopTexts,
           NEW status, NEW kind \in {"writedoc", "repair", "remove", "decide"},
           job[a] = NoLoopJob, overlap \/ \A b \in LoopActors : job[b] = NoLoopJob,
           job' = [job EXCEPT ![a] = j],
           UNCHANGED <<doc, st, events, torn, answered, closed>>,
           JobIs(j, q, text, status), Shape(q), q[1] = <<kind, "none">>,
           End(q) \in CountFirst => End(q) \in ops,
           End(q) \in {"update", "close"} => ops \cap Setters # {},
           kind = "decide" => doc.found,
           kind = "writedoc" => End(q) # "activate" /\ (End(q) = "init" => ~doc.found),
           End(q) \in {"init", "update", "close"} => text.found /\ text.status \in {"draft", "closed"},
           End(q) \in {"activate", "put"} => text.found,
           End(q) = "delete" => status = "disabled"
    PROVE  Starts(ops, overlap, a)
<1>1. Head(q)[1] = kind /\ Head(q)[2] = "none"
  BY FirstStep
<1>2. j \in LoopJobs /\ j.todo = q /\ j.snap = NoLoopState /\ j.proto = text /\ j.status = status
  BY DEF JobIs
<1>3. OpStarted(ops, overlap, a, j)
  BY <1>1, <1>2 DEF OpStarted
<1> QED
  BY <1>3 DEF Starts

LEMMA StartInit ==
    ASSUME NEW T, NEW H, NEW V, NEW C, NEW M, NEW F, NEW a \in LoopActors,
           Proto(T, H, V, C, M, F)!StartInit(a)
    PROVE  Starts(Proto(T, H, V, C, M, F)!OpsOf(a), V, a)
<1> DEFINE r == << <<"count", "init">>, <<"append", "init">>, <<"read", "init">>, <<"write", "init">> >>
           q == << <<"writedoc", "none">> >> \o r
           text == [NoLoopText EXCEPT !.found = TRUE, !.status = "draft"]
<1> PICK j : j = [NoLoopJob EXCEPT !.todo = q, !.proto = text]
  OBVIOUS
<1>1. Shape(r) /\ End(r) = "init" /\ r[1] = <<"count", "init">>
  BY ShapeCounted DEF CountFirst
<1>2. <<"writedoc", "none">> \in FileSteps /\ Follows(<<"writedoc", "none">>, r[1], End(r))
  BY <1>1 DEF FileSteps, Follows
<1>3. text \in LoopTexts /\ text.found /\ text.status = "draft"
  BY DEF NoLoopText, LoopTexts
<1>4. /\ r = Proto(T, H, V, C, M, F)!AppendFirstSteps("init")
      /\ NoLoopJob = Proto(T, H, V, C, M, F)!Idle /\ NoLoopText = Proto(T, H, V, C, M, F)!NoDoc
      /\ << <<"writedoc", "none">> >> = Proto(T, H, V, C, M, F)!WriteDoc
  <2>1. r = Proto(T, H, V, C, M, F)!AppendFirstSteps("init")
    BY LoopLists
  <2>2. << <<"writedoc", "none">> >> = Proto(T, H, V, C, M, F)!WriteDoc
    BY LoopWriteDoc
  <2>3. /\ NoLoopJob = Proto(T, H, V, C, M, F)!Idle
        /\ NoLoopText = Proto(T, H, V, C, M, F)!NoDoc
    BY LoopConstants
  <2> QED
    BY <2>1, <2>2, <2>3
<1> HIDE DEF r
<1>5. /\ ~doc.found /\ Proto(T, H, V, C, M, F)!MayStart(a, "init")
      /\ Proto(T, H, V, C, M, F)!Begin(a, j)
  BY <1>4 DEF Proto!StartInit
<1> HIDE DEF text
<1>6. Shape(q) /\ End(q) = "init" /\ q[1] = <<"writedoc", "none">>
  BY <1>1, <1>2, ShapeAhead
<1> HIDE DEF q
<1>7. JobIs(j, q, text, "none")
  BY <1>3, <1>6, FreshText DEF Shape
<1>8. /\ job[a] = NoLoopJob /\ (V \/ \A b \in LoopActors : job[b] = NoLoopJob)
      /\ job' = [job EXCEPT ![a] = j] /\ "init" \in Proto(T, H, V, C, M, F)!OpsOf(a)
      /\ UNCHANGED <<doc, st, events, torn, answered, closed>>
  BY <1>5, LoopMay, LoopBegin
<1> QED
  BY <1>3, <1>5, <1>6, <1>7, <1>8, OwnStarts

LEMMA StartFeed ==
    ASSUME NEW T, NEW H, NEW V, NEW C, NEW M, NEW F, NEW a \in LoopActors,
           Proto(T, H, V, C, M, F)!StartFeed(a)
    PROVE  Starts(Proto(T, H, V, C, M, F)!OpsOf(a), V, a)
<1> DEFINE r == << <<"read", "feed">>, <<"count", "feed">>, <<"append", "feed">>, <<"write", "feed">> >>
           q == << <<"decide", "none">> >> \o r
<1> PICK j : j = [NoLoopJob EXCEPT !.todo = q]
  OBVIOUS
<1>1. Shape(r) /\ End(r) = "feed" /\ r[1] = <<"read", "feed">>
  BY ShapeRecord DEF ReadFirst
<1>2. <<"decide", "none">> \in FileSteps /\ Follows(<<"decide", "none">>, r[1], End(r))
  BY <1>1 DEF FileSteps, Follows
<1>3. r = Proto(T, H, V, C, M, F)!RecordSteps("feed") /\ NoLoopJob = Proto(T, H, V, C, M, F)!Idle
  BY LoopConstants, LoopLists
<1> HIDE DEF r
<1>4. /\ doc.found /\ Proto(T, H, V, C, M, F)!MayStart(a, "feed")
      /\ Proto(T, H, V, C, M, F)!Begin(a, j)
  BY <1>3 DEF Proto!StartFeed
<1>5. Shape(q) /\ End(q) = "feed" /\ q[1] = <<"decide", "none">>
  BY <1>1, <1>2, ShapeAhead
<1> HIDE DEF q
<1>6. JobIs(j, q, NoLoopText, "none") /\ NoLoopText \in LoopTexts
  BY <1>5, FreshPlain, LoopValues DEF Shape
<1>7. /\ job[a] = NoLoopJob /\ (V \/ \A b \in LoopActors : job[b] = NoLoopJob)
      /\ job' = [job EXCEPT ![a] = j]
      /\ UNCHANGED <<doc, st, events, torn, answered, closed>>
  BY <1>4, LoopMay, LoopBegin
<1> QED
  BY <1>4, <1>5, <1>6, <1>7, OwnStarts DEF CountFirst

LEMMA StartDelete ==
    ASSUME NEW T, NEW H, NEW V, NEW C, NEW M, NEW F, NEW a \in LoopActors,
           Proto(T, H, V, C, M, F)!StartDelete(a)
    PROVE  Starts(Proto(T, H, V, C, M, F)!OpsOf(a), V, a)
<1> DEFINE r == << <<"count", "delete">>, <<"append", "delete">>, <<"read", "delete">>, <<"write", "delete">> >>
           q == << <<"remove", "none">> >> \o r
<1> PICK j : j = [NoLoopJob EXCEPT !.todo = q, !.status = "disabled"]
  OBVIOUS
<1>1. Shape(r) /\ End(r) = "delete" /\ r[1] = <<"count", "delete">>
  BY ShapeCounted DEF CountFirst
<1>2. <<"remove", "none">> \in FileSteps /\ Follows(<<"remove", "none">>, r[1], End(r))
  BY <1>1 DEF FileSteps, Follows
<1>3. r = Proto(T, H, V, C, M, F)!AppendFirstSteps("delete") /\ NoLoopJob = Proto(T, H, V, C, M, F)!Idle
  BY LoopConstants, LoopLists
<1> HIDE DEF r
<1>4. /\ Proto(T, H, V, C, M, F)!MayStart(a, "delete")
      /\ Proto(T, H, V, C, M, F)!Begin(a, j)
  BY <1>3 DEF Proto!StartDelete
<1>5. Shape(q) /\ End(q) = "delete" /\ q[1] = <<"remove", "none">>
  BY <1>1, <1>2, ShapeAhead
<1> HIDE DEF q
<1>6. JobIs(j, q, NoLoopText, "disabled") /\ NoLoopText \in LoopTexts
  BY <1>5, FreshStatus, LoopValues DEF Shape, LoopStatuses
<1>7. /\ job[a] = NoLoopJob /\ (V \/ \A b \in LoopActors : job[b] = NoLoopJob)
      /\ job' = [job EXCEPT ![a] = j] /\ "delete" \in Proto(T, H, V, C, M, F)!OpsOf(a)
      /\ UNCHANGED <<doc, st, events, torn, answered, closed>>
  BY <1>4, LoopMay, LoopBegin
<1> QED
  BY <1>5, <1>6, <1>7, OwnStarts

\* LOOP.md is replaced and what was done is recorded: patch, update, close.
LEMMA ShapeWritten ==
    ASSUME NEW op \in {"update", "activate", "close"}, NEW q,
           q = << <<"writedoc", "none">> >> \o
               << <<"read", op>>, <<"count", op>>, <<"append", op>>, <<"write", op>> >>
    PROVE  Shape(q) /\ End(q) = op /\ q[1] = <<"writedoc", "none">>
<1> DEFINE r == << <<"read", op>>, <<"count", op>>, <<"append", op>>, <<"write", op>> >>
<1>1. op \in ReadFirst
  BY DEF ReadFirst
<1>2. Shape(r) /\ End(r) = op /\ r[1] = <<"read", op>>
  BY <1>1, ShapeRecord
<1>3. <<"writedoc", "none">> \in FileSteps /\ Follows(<<"writedoc", "none">>, r[1], End(r))
  BY <1>2 DEF FileSteps, Follows
<1> HIDE DEF r
<1>4. q = << <<"writedoc", "none">> >> \o r
  BY DEF r
<1> QED
  BY <1>2, <1>3, <1>4, ShapeAhead

LEMMA WrittenStarts ==
    ASSUME NEW T, NEW H, NEW V, NEW C, NEW M, NEW F, NEW a \in LoopActors,
           NEW op \in {"update", "close"}, NEW name \in Setters, NEW text \in LoopTexts,
           text.found, text.status \in {"draft", "closed"},
           NEW j, j = [Proto(T, H, V, C, M, F)!Idle EXCEPT
                !.todo = Proto(T, H, V, C, M, F)!WriteDoc \o Proto(T, H, V, C, M, F)!RecordSteps(op),
                !.proto = text],
           Proto(T, H, V, C, M, F)!MayStart(a, name), Proto(T, H, V, C, M, F)!Begin(a, j)
    PROVE  Starts(Proto(T, H, V, C, M, F)!OpsOf(a), V, a)
<1> PICK q : q = Proto(T, H, V, C, M, F)!WriteDoc \o Proto(T, H, V, C, M, F)!RecordSteps(op)
  OBVIOUS
<1>1. q = << <<"writedoc", "none">> >> \o
          << <<"read", op>>, <<"count", op>>, <<"append", op>>, <<"write", op>> >>
  <2> PICK w, r : /\ w = Proto(T, H, V, C, M, F)!WriteDoc
                  /\ r = Proto(T, H, V, C, M, F)!RecordSteps(op)
    OBVIOUS
  <2>1. w = << <<"writedoc", "none">> >>
    BY LoopWriteDoc
  <2>2. r = << <<"read", op>>, <<"count", op>>, <<"append", op>>, <<"write", op>> >>
    BY LoopLists
  <2>3. q = w \o r
    OBVIOUS
  <2> QED
    BY <2>1, <2>2, <2>3
<1>2. Shape(q) /\ End(q) = op /\ q[1] = <<"writedoc", "none">>
  BY <1>1, ShapeWritten
<1>3. j = [NoLoopJob EXCEPT !.todo = q, !.proto = text]
  BY LoopConstants
<1>4. JobIs(j, q, text, "none")
  BY <1>2, <1>3, FreshText DEF Shape
<1>5. /\ job[a] = NoLoopJob /\ (V \/ \A b \in LoopActors : job[b] = NoLoopJob)
      /\ job' = [job EXCEPT ![a] = j]
      /\ UNCHANGED <<doc, st, events, torn, answered, closed>>
  BY LoopMay, LoopBegin
<1>6. name \in Proto(T, H, V, C, M, F)!OpsOf(a)
  BY LoopMay
<1>7. Proto(T, H, V, C, M, F)!OpsOf(a) \cap Setters # {}
  BY <1>6
<1> QED
  BY <1>2, <1>4, <1>5, <1>7, OwnStarts DEF CountFirst

LEMMA StartPatch ==
    ASSUME NEW T, NEW H, NEW V, NEW C, NEW M, NEW F, NEW a \in LoopActors,
           Proto(T, H, V, C, M, F)!StartPatch(a)
    PROVE  Starts(Proto(T, H, V, C, M, F)!OpsOf(a), V, a)
<1>1. PICK text \in Proto(T, H, V, C, M, F)!Text("draft") :
         Proto(T, H, V, C, M, F)!Begin(a, [Proto(T, H, V, C, M, F)!Idle EXCEPT
            !.todo = Proto(T, H, V, C, M, F)!WriteDoc \o Proto(T, H, V, C, M, F)!RecordSteps("update"),
            !.proto = text])
  BY DEF Proto!StartPatch
<1>2. text \in LoopTexts /\ text.found /\ text.status = "draft"
  BY <1>1, LoopConstants DEF Proto!Text
<1>3. Proto(T, H, V, C, M, F)!MayStart(a, "patch") /\ "patch" \in Setters
  BY DEF Setters, Proto!StartPatch
<1> QED
  BY <1>1, <1>2, <1>3, WrittenStarts

LEMMA StartUpdate ==
    ASSUME NEW T, NEW H, NEW V, NEW C, NEW M, NEW F, NEW a \in LoopActors,
           Proto(T, H, V, C, M, F)!StartUpdate(a)
    PROVE  Starts(Proto(T, H, V, C, M, F)!OpsOf(a), V, a)
<1>1. PICK text \in Proto(T, H, V, C, M, F)!Text("draft") \cup Proto(T, H, V, C, M, F)!Text("closed") :
         Proto(T, H, V, C, M, F)!Begin(a, [Proto(T, H, V, C, M, F)!Idle EXCEPT
            !.todo = Proto(T, H, V, C, M, F)!WriteDoc \o Proto(T, H, V, C, M, F)!RecordSteps("update"),
            !.proto = text])
  BY DEF Proto!StartUpdate
<1>2. text \in LoopTexts /\ text.found /\ text.status \in {"draft", "closed"}
  BY <1>1, LoopConstants DEF Proto!Text
<1>3. Proto(T, H, V, C, M, F)!MayStart(a, "update") /\ "update" \in Setters
  BY DEF Setters, Proto!StartUpdate
<1> QED
  BY <1>1, <1>2, <1>3, WrittenStarts

LEMMA StartClose ==
    ASSUME NEW T, NEW H, NEW V, NEW C, NEW M, NEW F, NEW a \in LoopActors, doc \in LoopTexts,
           Proto(T, H, V, C, M, F)!StartClose(a)
    PROVE  Starts(Proto(T, H, V, C, M, F)!OpsOf(a), V, a)
<1> PICK text : text = [doc EXCEPT !.status = "closed"]
  OBVIOUS
<1>1. /\ doc.found /\ Proto(T, H, V, C, M, F)!MayStart(a, "close")
      /\ Proto(T, H, V, C, M, F)!Begin(a, [Proto(T, H, V, C, M, F)!Idle EXCEPT
            !.todo = Proto(T, H, V, C, M, F)!WriteDoc \o Proto(T, H, V, C, M, F)!RecordSteps("close"),
            !.proto = text])
  BY DEF Proto!StartClose
<1>2. text \in LoopTexts
  BY DEF LoopTexts
<1>3. text.found /\ text.status = "closed"
  BY <1>1 DEF LoopTexts
<1>4. "close" \in Setters
  BY DEF Setters
<1> QED
  BY <1>1, <1>2, <1>3, <1>4, WrittenStarts

LEMMA TwoSteps ==
    ASSUME NEW k \in FileSteps, NEW n \in FileSteps, NEW p, p = <<k>> \o <<n>>
    PROVE  p \in Seq(FileSteps) /\ Len(p) = 2 /\ p[1] = k /\ p[2] = n
  OBVIOUS

LEMMA ThreeSteps ==
    ASSUME NEW k \in FileSteps, NEW n \in FileSteps, NEW s \in FileSteps,
           NEW p, p = <<k, n>> \o <<s>>
    PROVE  p \in Seq(FileSteps) /\ Len(p) = 3 /\ p[1] = k /\ p[2] = n /\ p[3] = s
  OBVIOUS

LEMMA StartPut ==
    ASSUME NEW T, NEW H, NEW V, NEW C, NEW M, NEW F, NEW a \in LoopActors,
           Proto(T, H, V, C, M, F)!StartPut(a)
    PROVE  Starts(Proto(T, H, V, C, M, F)!OpsOf(a), V, a)
<1> DEFINE r == << <<"count", "put">>, <<"append", "put">>, <<"read", "put">>, <<"write", "put">> >>
           w == << <<"writedoc", "none">> >>
           p == w \o << <<"summarize", "none">> >>
           q == p \o r
<1>1. /\ w = Proto(T, H, V, C, M, F)!WriteDoc
      /\ r = Proto(T, H, V, C, M, F)!AppendFirstSteps("put")
      /\ NoLoopJob = Proto(T, H, V, C, M, F)!Idle
      /\ Proto(T, H, V, C, M, F)!Docs = LoopTexts
  <2>1. w = Proto(T, H, V, C, M, F)!WriteDoc
    BY LoopWriteDoc
  <2>2. r = Proto(T, H, V, C, M, F)!AppendFirstSteps("put")
    BY LoopLists
  <2> QED
    BY <2>1, <2>2, LoopConstants
<1>2. Shape(r) /\ End(r) = "put" /\ r[1] = <<"count", "put">>
  BY ShapeCounted DEF CountFirst
<1>3. <<"writedoc", "none">> \in FileSteps /\ <<"summarize", "none">> \in FileSteps
  BY DEF FileSteps
<1>4. /\ p \in Seq(FileSteps) /\ Len(p) = 2
      /\ p[1] = <<"writedoc", "none">> /\ p[2] = <<"summarize", "none">>
  <2> PICK x, y : x = <<"writedoc", "none">> /\ y = <<"summarize", "none">>
    OBVIOUS
  <2> HIDE DEF p
  <2>1. p = <<x>> \o <<y>>
    BY DEF p
  <2>2. x \in FileSteps /\ y \in FileSteps
    BY <1>3
  <2>3. p \in Seq(FileSteps) /\ Len(p) = 2 /\ p[1] = x /\ p[2] = y
    BY <2>1, <2>2, TwoSteps
  <2> QED
    BY <2>3
<1> HIDE DEF r, p, w
<1>5. PICK text \in LoopTexts :
         text.found /\ Proto(T, H, V, C, M, F)!Begin(a, [NoLoopJob EXCEPT !.todo = q, !.proto = text])
  BY <1>1 DEF Proto!StartPut, p
<1>6. Follows(p[1], p[1 + 1], "put") /\ Follows(p[Len(p)], r[1], "put")
  <2>1. /\ Follows(<<"writedoc", "none">>, <<"summarize", "none">>, "put")
        /\ Follows(<<"summarize", "none">>, <<"count", "put">>, "put")
    BY DEF Follows
  <2>2. 1 + 1 = 2
    OBVIOUS
  <2> QED
    BY <1>2, <1>4, <2>1, <2>2
<1>7. \A i \in 1..(Len(p) - 1) : Follows(p[i], p[i + 1], "put")
  <2>1. Len(p) = 2
    BY <1>4
  <2>3. Len(p) - 1 = 1
    BY <2>1
  <2>2. \A i \in 1..1 : i = 1
    OBVIOUS
  <2> QED
    BY <1>6, <2>2, <2>3
<1>8. Shape(q) /\ End(q) = "put" /\ q[1] = <<"writedoc", "none">>
  <2>1. p \in Seq(FileSteps) /\ Len(p) > 0 /\ q = p \o r
    BY <1>4
  <2>2. Shape(r) /\ End(r) = "put"
    BY <1>2
  <2>3. Shape(q) /\ End(q) = "put" /\ q[1] = p[1]
    BY <1>6, <1>7, <2>1, <2>2, ShapeJoined
  <2> QED
    BY <1>4, <2>3
<1> HIDE DEF q
<1> PICK j : j = [NoLoopJob EXCEPT !.todo = q, !.proto = text]
  OBVIOUS
<1>9. JobIs(j, q, text, "none")
  BY <1>5, <1>8, FreshText DEF Shape
<1>10. Proto(T, H, V, C, M, F)!MayStart(a, "put")
  BY DEF Proto!StartPut
<1>11. /\ job[a] = NoLoopJob /\ (V \/ \A b \in LoopActors : job[b] = NoLoopJob)
      /\ job' = [job EXCEPT ![a] = j] /\ "put" \in Proto(T, H, V, C, M, F)!OpsOf(a)
      /\ UNCHANGED <<doc, st, events, torn, answered, closed>>
  BY <1>5, <1>10, LoopMay, LoopBegin
<1> QED
  BY <1>5, <1>8, <1>9, <1>11, OwnStarts

LEMMA StartActivate ==
    ASSUME NEW T, NEW H, NEW V, NEW C, NEW M, NEW F, NEW a \in LoopActors, doc \in LoopTexts,
           Proto(T, H, V, C, M, F)!StartActivate(a)
    PROVE  Starts(Proto(T, H, V, C, M, F)!OpsOf(a), V, a)
<1> DEFINE r == << <<"read", "activate">>, <<"count", "activate">>, <<"append", "activate">>, <<"write", "activate">> >>
           w == << <<"writedoc", "none">> >>
           p == << <<"repair", "none">>, <<"ready", "none">> >> \o w
           q == p \o r
<1>1. /\ w = Proto(T, H, V, C, M, F)!WriteDoc
      /\ r = Proto(T, H, V, C, M, F)!RecordSteps("activate")
      /\ NoLoopJob = Proto(T, H, V, C, M, F)!Idle
      /\ Proto(T, H, V, C, M, F)!Docs = LoopTexts
  <2>1. w = Proto(T, H, V, C, M, F)!WriteDoc
    BY LoopWriteDoc
  <2>2. r = Proto(T, H, V, C, M, F)!RecordSteps("activate")
    BY LoopLists
  <2> QED
    BY <2>1, <2>2, LoopConstants
<1>2. Shape(r) /\ End(r) = "activate" /\ r[1] = <<"read", "activate">>
  BY ShapeRecord DEF ReadFirst
<1>3. <<"writedoc", "none">> \in FileSteps /\ <<"repair", "none">> \in FileSteps /\ <<"ready", "none">> \in FileSteps
  BY DEF FileSteps
<1>4. /\ p \in Seq(FileSteps) /\ Len(p) = 3
      /\ p[1] = <<"repair", "none">> /\ p[2] = <<"ready", "none">> /\ p[3] = <<"writedoc", "none">>
  <2> PICK x, y, z : x = <<"repair", "none">> /\ y = <<"ready", "none">> /\ z = <<"writedoc", "none">>
    OBVIOUS
  <2> HIDE DEF p
  <2>1. p = <<x, y>> \o <<z>>
    BY DEF p
  <2>2. x \in FileSteps /\ y \in FileSteps /\ z \in FileSteps
    BY <1>3
  <2>3. p \in Seq(FileSteps) /\ Len(p) = 3 /\ p[1] = x /\ p[2] = y /\ p[3] = z
    BY <2>1, <2>2, ThreeSteps
  <2> QED
    BY <2>3
<1> HIDE DEF r, p, w
<1>5. PICK d \in {doc} \cup Proto(T, H, V, C, M, F)!Text("draft") \cup Proto(T, H, V, C, M, F)!Text("running") :
         /\ Proto(T, H, V, C, M, F)!PrepareProtocolActivation(d)
         /\ Proto(T, H, V, C, M, F)!Begin(a,
              [NoLoopJob EXCEPT !.todo = q, !.proto = [d EXCEPT !.status = "running"]])
  BY <1>1 DEF Proto!StartActivate, p
<1>6. d \in LoopTexts /\ d.found
  BY <1>1, <1>5 DEF Proto!Text, Proto!PrepareProtocolActivation
<1> PICK text : text = [d EXCEPT !.status = "running"]
  OBVIOUS
<1>7. text \in LoopTexts /\ text.found
  <2>1. text \in LoopTexts
    BY <1>6 DEF LoopTexts
  <2>2. text.found
    BY <1>6 DEF LoopTexts
  <2> QED
    BY <2>1, <2>2
<1>8. /\ Follows(p[1], p[1 + 1], "activate") /\ Follows(p[2], p[2 + 1], "activate")
      /\ Follows(p[Len(p)], r[1], "activate")
  <2>1. /\ Follows(<<"repair", "none">>, <<"ready", "none">>, "activate")
        /\ Follows(<<"ready", "none">>, <<"writedoc", "none">>, "activate")
        /\ Follows(<<"writedoc", "none">>, <<"read", "activate">>, "activate")
    BY DEF Follows
  <2>2. 1 + 1 = 2 /\ 2 + 1 = 3
    OBVIOUS
  <2> QED
    BY <1>2, <1>4, <2>1, <2>2
<1>9. \A i \in 1..(Len(p) - 1) : Follows(p[i], p[i + 1], "activate")
  <2>1. Len(p) = 3
    BY <1>4
  <2>3. Len(p) - 1 = 2
    BY <2>1
  <2>2. \A i \in 1..2 : i = 1 \/ i = 2
    OBVIOUS
  <2> QED
    BY <1>8, <2>2, <2>3
<1>10. Shape(q) /\ End(q) = "activate" /\ q[1] = <<"repair", "none">>
  <2>1. p \in Seq(FileSteps) /\ Len(p) > 0 /\ q = p \o r
    BY <1>4
  <2>2. Shape(r) /\ End(r) = "activate"
    BY <1>2
  <2>3. Shape(q) /\ End(q) = "activate" /\ q[1] = p[1]
    BY <1>8, <1>9, <2>1, <2>2, ShapeJoined
  <2> QED
    BY <1>4, <2>3
<1> HIDE DEF q
<1> PICK j : j = [NoLoopJob EXCEPT !.todo = q, !.proto = text]
  OBVIOUS
<1>11. JobIs(j, q, text, "none")
  BY <1>7, <1>10, FreshText DEF Shape
<1>12. Proto(T, H, V, C, M, F)!MayStart(a, "activate")
  BY DEF Proto!StartActivate
<1>13. /\ job[a] = NoLoopJob /\ (V \/ \A b \in LoopActors : job[b] = NoLoopJob)
       /\ job' = [job EXCEPT ![a] = j]
       /\ UNCHANGED <<doc, st, events, torn, answered, closed>>
  BY <1>5, <1>12, LoopMay, LoopBegin
<1> QED
  BY <1>7, <1>10, <1>11, <1>13, OwnStarts DEF CountFirst

-----------------------------------------------------------------------------
(* A step of one actor.                                                      *)

LEMMA TypeMoves ==
    ASSUME LoopType, NEW a \in LoopActors, NEW x \in LoopJobs, x = NoLoopJob \/ Shape(x.todo),
           job' = [job EXCEPT ![a] = x], doc' \in LoopTexts, st' \in LoopStates,
           events' \in Nat, torn' \in BOOLEAN, answered' \in BOOLEAN, closed' \in BOOLEAN
    PROVE  LoopType' /\ job'[a] = x /\ \A b \in LoopActors : b # a => job'[b] = job[b]
<1>1. /\ job \in [LoopActors -> LoopJobs]
      /\ \A b \in LoopActors : job[b] = NoLoopJob \/ Shape(job[b].todo)
  BY DEF LoopType
<1>2. /\ job' \in [LoopActors -> LoopJobs] /\ job'[a] = x
      /\ \A b \in LoopActors : b # a => job'[b] = job[b]
  BY <1>1
<1>3. \A b \in LoopActors : job'[b] = NoLoopJob \/ Shape(job'[b].todo)
  BY <1>1, <1>2
<1> QED
  BY <1>2, <1>3 DEF LoopType

\* LOOP.md and the recorded answer stay.
LEMMA SoundMoves ==
    ASSUME Calibrated, NEW a \in LoopActors, NEW x, job'[a] = x,
           \A b \in LoopActors : b # a => job'[b] = job[b],
           UNCHANGED <<doc, answered>>, Counts(st)', Honest(a, x)
    PROVE  Calibrated'
<1>1. \A b \in LoopActors : Honest(b, job[b])'
  <2>1. ASSUME NEW b \in LoopActors PROVE Honest(b, job[b])'
    <3>1. CASE b = a
      BY <3>1 DEF Honest, Counts
    <3>2. CASE b # a
      BY <3>2 DEF Calibrated, Honest, Counts
    <3> QED
      BY <3>1, <3>2
  <2> QED
    BY <2>1
<1> QED
  BY <1>1 DEF Calibrated

\* With one actor at work, its job is all that counts.
LEMMA AloneMoves ==
    ASSUME OneAtWork, NEW a \in LoopActors, NEW x, job'[a] = x,
           \A b \in LoopActors : b # a => job'[b] = job[b],
           job[a] # NoLoopJob \/ \A b \in LoopActors : job[b] = NoLoopJob
    PROVE  /\ OneAtWork' /\ \A b \in LoopActors : b # a => job'[b] = NoLoopJob
           /\ MirrorOf(x)' => Mirrored'
           /\ (closed' => (st').found /\ Down((st').status)) /\ KeepsShut(x)' => StaysClosed'
<1>1. \A b \in LoopActors : b # a => job'[b] = NoLoopJob
  BY DEF OneAtWork
<1>2. OneAtWork'
  BY <1>1 DEF OneAtWork
<1>3. ASSUME MirrorOf(x)' PROVE Mirrored'
  <2>1. ASSUME NEW c \in LoopActors, \A b \in LoopActors : b # c => job'[b] = NoLoopJob
        PROVE  MirrorOf(job[c])'
    <3>1. job'[c] = x
      BY <1>1, <2>1
    <3> QED
      BY <1>3, <3>1 DEF MirrorOf
  <2> QED
    BY <2>1 DEF Mirrored
<1>4. ASSUME closed' => (st').found /\ Down((st').status), KeepsShut(x)' PROVE StaysClosed'
  <2>1. NoLoopJob.todo = << >>
    BY NoJob
  <2>2. ASSUME NEW c \in LoopActors PROVE KeepsShut(job[c])'
    <3>1. CASE c = a
      BY <1>4, <3>1 DEF KeepsShut
    <3>2. CASE c # a
      BY <1>1, <2>1, <3>2 DEF KeepsShut
    <3> QED
      BY <3>1, <3>2
  <2> QED
    BY <1>4, <2>2 DEF StaysClosed
<1> QED
  BY <1>1, <1>2, <1>3, <1>4

LoopKept(T, H) ==
    /\ LoopType'
    /\ T \cap {"put", "delete"} = {} /\ H \cap (CountFirst \cup Setters) = {} /\ Calibrated => Calibrated'
    /\ OneAtWork => OneAtWork'
    /\ OneAtWork /\ Mirrored => Mirrored'
    /\ OneAtWork /\ StaysClosed => StaysClosed'

OpsFor(a, T, H) == IF a = "turn" THEN T ELSE H

LEMMA StartsKeep ==
    ASSUME NEW T, NEW H, NEW V, NEW a \in LoopActors, LoopType,
           Starts(OpsFor(a, T, H), V, a)
    PROVE  /\ LoopType'
           /\ T \cap {"put", "delete"} = {} /\ H \cap (CountFirst \cup Setters) = {} /\ Calibrated => Calibrated'
           /\ ~V => /\ OneAtWork => OneAtWork'
                    /\ OneAtWork /\ Mirrored => Mirrored'
                    /\ OneAtWork /\ StaysClosed => StaysClosed'
<1> DEFINE ops == OpsFor(a, T, H)
<1> PICK j : OpStarted(ops, V, a, j)
  BY DEF Starts
<1>1. /\ job[a] = NoLoopJob /\ (V \/ \A b \in LoopActors : job[b] = NoLoopJob)
      /\ job' = [job EXCEPT ![a] = j] /\ UNCHANGED <<doc, st, events, torn, answered, closed>>
      /\ j \in LoopJobs /\ j.snap = NoLoopState /\ Shape(j.todo)
  BY DEF OpStarted
<1>2. LoopType' /\ job'[a] = j /\ \A b \in LoopActors : b # a => job'[b] = job[b]
  <2>1. /\ doc' \in LoopTexts /\ st' \in LoopStates
        /\ events' \in Nat /\ torn' \in BOOLEAN /\ answered' \in BOOLEAN /\ closed' \in BOOLEAN
    BY <1>1 DEF LoopType
  <2> QED
    BY <1>1, <2>1, TypeMoves
<1> PICK h, e : h = Head(j.todo) /\ e = End(j.todo)
  OBVIOUS
<1>3. /\ h[1] \in {"read", "writedoc", "repair", "remove", "decide"}
      /\ h[2] # "none" => h[2] \in ReadFirst \ {"update"}
      /\ e \in CountFirst => e \in ops
      /\ e \in {"update", "close"} => ops \cap Setters # {}
      /\ h[2] # "none" \/ h[1] = "decide" => doc.found \/ st.found
      /\ h[1] = "writedoc" => e # "activate"
      /\ h[1] = "writedoc" /\ e = "init" => ~doc.found
      /\ e \in {"init", "update", "close"} => j.proto.found /\ j.proto.status \in {"draft", "closed"}
      /\ e \in {"activate", "put"} => j.proto.found
      /\ e = "delete" => j.status = "disabled"
  BY DEF OpStarted
<1>4. ASSUME T \cap {"put", "delete"} = {}, H \cap (CountFirst \cup Setters) = {}, Calibrated
      PROVE  Calibrated'
  <2>1. Counts(j.snap)
    BY <1>1 DEF Counts, NoLoopState
  <2>2. e \notin {"put", "delete"} /\ (a = "http" => e \notin {"init", "update", "close"})
    BY <1>3, <1>4 DEF CountFirst, ops, OpsFor
  <2>3. st.found => doc.found
    BY <1>4 DEF Calibrated, Counts
  <2>4. Honest(a, j)
    BY <1>3, <2>1, <2>2, <2>3 DEF Honest
  <2>5. Counts(st)'
    BY <1>1, <1>4 DEF Calibrated, Counts
  <2> QED
    BY <1>1, <1>2, <1>4, <2>4, <2>5, SoundMoves
<1>5. ASSUME ~V, OneAtWork
      PROVE  OneAtWork' /\ (Mirrored => Mirrored') /\ (StaysClosed => StaysClosed')
  <2>1. /\ OneAtWork'
        /\ MirrorOf(j)' => Mirrored'
        /\ (closed' => (st').found /\ Down((st').status)) /\ KeepsShut(j)' => StaysClosed'
    BY <1>1, <1>2, <1>5, AloneMoves
  <2>2. ~Behind(h)
    <3>1. ~(h[1] = "read" /\ h[2] \in CountFirst)
      BY <1>3 DEF CountFirst, ReadFirst
    <3> QED
      BY <1>3, <3>1 DEF Behind
  <2>3. ASSUME Mirrored PROVE MirrorOf(j)'
    <3>1. MirrorOf(NoLoopJob)
      BY <1>1, <1>5, <2>3 DEF Mirrored
    <3>2. st.found => st.seq = events
      BY <3>1, NoJob DEF MirrorOf
    <3>3. h[1] # "append"
      BY <1>3
    <3> QED
      BY <1>1, <2>2, <3>2, <3>3 DEF MirrorOf
  <2>4. ASSUME StaysClosed PROVE (closed' => (st').found /\ Down((st').status)) /\ KeepsShut(j)'
    <3>1. closed' => (st').found /\ Down((st').status)
      BY <1>1, <2>4 DEF StaysClosed
    <3>2. h[2] # "none" => h[1] = "read" /\ h[2] \notin {"update", "init", "put", "delete"}
      <4>1. Head(j.todo) \in FileSteps
        BY <1>1, ShapeTail
      <4>2. h[1] \in {"writedoc", "repair", "remove", "decide"} => h[2] = "none"
        BY <4>1 DEF FileSteps
      <4> QED
        BY <1>3, <4>2 DEF ReadFirst
    <3>3. h # <<"read", "update">>
      BY <3>2, StepIs
    <3>4. KeepsShut(j)'
      BY <1>3, <3>2, <3>3 DEF KeepsShut, ReadFirst
    <3> QED
      BY <3>1, <3>4
  <2> QED
    BY <2>1, <2>3, <2>4
<1> QED
  BY <1>2, <1>4, <1>5

\* r is job j after its first step.
Stepped(j, r) ==
    \/ Head(j.todo)[1] = "write" /\ r = NoLoopJob
    \/ /\ Shape(r.todo) /\ r.todo # << >> /\ End(r.todo) = End(j.todo)
       /\ Follows(Head(j.todo), Head(r.todo), End(j.todo))
       /\ r.snap = j.snap /\ r.proto = j.proto /\ r.status = j.status /\ r.seq = j.seq

StepLists == Seq(FileSteps)
WithSteps(j, q) == [j EXCEPT !.todo = q]
HavingRead(j, s, u) == [j EXCEPT !.snap = s, !.status = u]

LEMMA TailOf ==
    ASSUME NEW j \in LoopJobs, NEW q \in StepLists, NEW r, r = WithSteps(j, q)
    PROVE  /\ r \in LoopJobs /\ r.todo = q /\ r.snap = j.snap /\ r.proto = j.proto
           /\ r.status = j.status /\ r.seq = j.seq
  BY DEF LoopJobs, WithSteps, StepLists

LEMMA SteppedRest ==
    ASSUME NEW j \in LoopJobs, Shape(j.todo), NEW r,
           Len(j.todo) = 1 => r = NoLoopJob,
           Len(j.todo) # 1 => r = WithSteps(j, Tail(j.todo))
    PROVE  r \in LoopJobs /\ Stepped(j, r)
<1>1. /\ Len(j.todo) = 1 => Head(j.todo)[1] = "write"
      /\ Len(j.todo) # 1 => /\ Tail(j.todo) \in Seq(FileSteps) /\ Shape(Tail(j.todo))
                            /\ End(Tail(j.todo)) = End(j.todo)
                            /\ Follows(Head(j.todo), Head(Tail(j.todo)), End(j.todo))
  BY ShapeTail
<1>2. CASE Len(j.todo) = 1
  BY <1>1, <1>2, NoJob DEF Stepped
<1>3. CASE Len(j.todo) # 1
  <2> PICK q : q = Tail(j.todo)
    OBVIOUS
  <2>1. q \in StepLists /\ r = WithSteps(j, q)
    BY <1>1, <1>3 DEF StepLists
  <2>2. /\ r \in LoopJobs /\ r.todo = q /\ r.snap = j.snap /\ r.proto = j.proto
        /\ r.status = j.status /\ r.seq = j.seq
    BY <2>1, TailOf
  <2>3. r.todo # << >>
    BY <1>1, <1>3, <2>2, ShapeTail
  <2> QED
    BY <1>1, <1>3, <2>2, <2>3 DEF Stepped
<1> QED
  BY <1>2, <1>3

LEMMA RestOf ==
    ASSUME NEW T, NEW H, NEW V, NEW C, NEW M, NEW F, NEW a \in LoopActors, LoopType, NEW k,
           Proto(T, H, V, C, M, F)!At(a, k)
    PROVE  /\ job[a] \in LoopJobs /\ Shape(job[a].todo) /\ job[a] # NoLoopJob
           /\ job[a].todo # << >> /\ Head(job[a].todo)[1] = k
           /\ Head(job[a].todo) \in FileSteps
           /\ Proto(T, H, V, C, M, F)!Rest(a) \in LoopJobs
           /\ Stepped(job[a], Proto(T, H, V, C, M, F)!Rest(a))
<1> PICK j : j = job[a]
  OBVIOUS
<1>1. j \in LoopJobs /\ (j = NoLoopJob \/ Shape(j.todo))
  BY DEF LoopType
<1>2. j.todo # << >> /\ Head(j.todo)[1] = k
  BY DEF Proto!At
<1>3. j # NoLoopJob /\ Shape(j.todo)
  BY <1>1, <1>2, NoJob
<1>4. Head(j.todo) \in FileSteps
  BY <1>3, ShapeTail
<1>5. /\ Len(j.todo) = 1 => Proto(T, H, V, C, M, F)!Rest(a) = NoLoopJob
      /\ Len(j.todo) # 1 => Proto(T, H, V, C, M, F)!Rest(a) = WithSteps(j, Tail(j.todo))
  BY LoopConstants DEF Proto!Rest, WithSteps
<1>6. Proto(T, H, V, C, M, F)!Rest(a) \in LoopJobs /\ Stepped(j, Proto(T, H, V, C, M, F)!Rest(a))
  BY <1>1, <1>3, <1>5, SteppedRest
<1> QED
  BY <1>1, <1>2, <1>3, <1>4, <1>6

\* Field by field: what a step puts into the job.
LEMMA JobSeq ==
    ASSUME NEW r \in LoopJobs, NEW n \in Nat, NEW x, x = [r EXCEPT !.seq = n]
    PROVE  /\ x \in LoopJobs /\ x.todo = r.todo /\ x.snap = r.snap /\ x.proto = r.proto
           /\ x.status = r.status /\ x.seq = n
  BY DEF LoopJobs

LEMMA JobStatus ==
    ASSUME NEW r \in LoopJobs, NEW s \in LoopStatuses, NEW x, x = [r EXCEPT !.status = s]
    PROVE  /\ x \in LoopJobs /\ x.todo = r.todo /\ x.snap = r.snap /\ x.proto = r.proto
           /\ x.status = s /\ x.seq = r.seq
  BY DEF LoopJobs

LEMMA JobMode ==
    ASSUME NEW r \in LoopJobs, NEW m \in LoopModes, NEW x, x = [r EXCEPT !.mode = m]
    PROVE  /\ x \in LoopJobs /\ x.todo = r.todo /\ x.snap = r.snap /\ x.proto = r.proto
           /\ x.status = r.status /\ x.seq = r.seq
  BY DEF LoopJobs

LEMMA JobSnap ==
    ASSUME NEW r \in LoopJobs, NEW s \in LoopStates, NEW u \in LoopStatuses,
           NEW x, x = HavingRead(r, s, u)
    PROVE  /\ x \in LoopJobs /\ x.todo = r.todo /\ x.snap = s /\ x.proto = r.proto
           /\ x.status = u /\ x.seq = r.seq
<1>1. x \in LoopJobs
  BY DEF LoopJobs, HavingRead
<1>2. x.todo = r.todo /\ x.snap = s /\ x.proto = r.proto
  BY DEF LoopJobs, HavingRead
<1>3. x.status = u /\ x.seq = r.seq
  BY DEF LoopJobs, HavingRead
<1> QED
  BY <1>1, <1>2, <1>3

\* A step that leaves the files alone, but for a line of events.jsonl: the job
\* of a was j and is now x, and what was sound of j is sound of x.
QuietStep(a, j, x) ==
    /\ j = job[a] /\ j # NoLoopJob
    /\ x \in LoopJobs /\ (x = NoLoopJob \/ Shape(x.todo))
    /\ job' = [job EXCEPT ![a] = x]
    /\ UNCHANGED <<doc, st, torn, answered, closed>> /\ events' \in Nat
    /\ Honest(a, j) /\ Counts(st) => Honest(a, x)
    /\ MirrorOf(j) => MirrorOf(x)'
    /\ KeepsShut(j) /\ (closed => st.found /\ Down(st.status)) => KeepsShut(x)

LEMMA StepKeeps ==
    ASSUME NEW T, NEW H, NEW a \in LoopActors, LoopType, NEW j, NEW x, QuietStep(a, j, x)
    PROVE  LoopKept(T, H)
<1> USE DEF QuietStep
<1>1. LoopType' /\ job'[a] = x /\ \A b \in LoopActors : b # a => job'[b] = job[b]
  <2>1. /\ doc' \in LoopTexts /\ st' \in LoopStates
        /\ torn' \in BOOLEAN /\ answered' \in BOOLEAN /\ closed' \in BOOLEAN
    BY DEF LoopType
  <2> QED
    BY <2>1, TypeMoves
<1>2. ASSUME Calibrated PROVE Calibrated'
  <2>1. Honest(a, x)
    BY <1>2 DEF Calibrated
  <2>2. Counts(st)'
    BY <1>2 DEF Calibrated, Counts
  <2> QED
    BY <1>1, <1>2, <2>1, <2>2, SoundMoves
<1>3. ASSUME OneAtWork
      PROVE  OneAtWork' /\ (Mirrored => Mirrored') /\ (StaysClosed => StaysClosed')
  <2>1. /\ OneAtWork' /\ MirrorOf(x)' => Mirrored'
        /\ (closed' => (st').found /\ Down((st').status)) /\ KeepsShut(x)' => StaysClosed'
    BY <1>1, <1>3, AloneMoves
  <2>2. \A b \in LoopActors : b # a => job[b] = NoLoopJob
    BY <1>3 DEF OneAtWork
  <2>3. Mirrored => MirrorOf(j)
    BY <2>2 DEF Mirrored
  <2>4. StaysClosed => KeepsShut(j) /\ (closed => st.found /\ Down(st.status))
    BY DEF StaysClosed
  <2>5. KeepsShut(x) => KeepsShut(x)'
    BY DEF KeepsShut
  <2>6. OneAtWork'
    BY <1>1, <1>3, AloneMoves
  <2> QED
    BY <2>1, <2>3, <2>4, <2>5, <2>6
<1> QED
  BY <1>1, <1>2, <1>3 DEF LoopKept

LEMMA NoJobSound ==
    ASSUME NEW a
    PROVE  Honest(a, NoLoopJob) /\ KeepsShut(NoLoopJob) /\ NoLoopJob \in LoopJobs
           /\ ((st.found => st.seq = events) => MirrorOf(NoLoopJob))
  BY NoJob DEF Honest, Counts, NoLoopState, KeepsShut, MirrorOf

\* The first step of a list and what is still to come.
LEMMA StepNames ==
    ASSUME NEW h \in FileSteps
    PROVE  /\ h[2] \in CountFirst \cup ReadFirst \cup {"none"}
           /\ h[1] \in {"read", "count", "append", "write"} => h[2] # "none"
           /\ h[1] \in {"writedoc", "remove", "summarize", "repair", "ready", "decide"} => h[2] = "none"
  BY DEF FileSteps, CountFirst, ReadFirst

LEMMA CountKeeps ==
    ASSUME NEW T, NEW H, NEW V, NEW C, NEW M, NEW F, NEW a \in LoopActors, LoopType,
           Proto(T, H, V, C, M, F)!CountEvents(a)
    PROVE  LoopKept(T, H)
<1> PICK j, r : j = job[a] /\ r = Proto(T, H, V, C, M, F)!Rest(a)
  OBVIOUS
<1> PICK h, e : h = Head(j.todo) /\ e = End(j.todo)
  OBVIOUS
<1>1. /\ j \in LoopJobs /\ Shape(j.todo) /\ j # NoLoopJob /\ j.todo # << >> /\ h[1] = "count"
      /\ h \in FileSteps /\ r \in LoopJobs /\ Stepped(j, r)
  BY RestOf DEF Proto!CountEvents
<1> PICK x : x = IF torn THEN NoLoopJob ELSE [r EXCEPT !.seq = events + 1]
  OBVIOUS
<1>2. job' = [job EXCEPT ![a] = x] /\ UNCHANGED <<doc, st, events, torn, answered, closed>>
  BY LoopConstants DEF Proto!CountEvents, Proto!Advance
<1>3. /\ Shape(r.todo) /\ r.todo # << >> /\ End(r.todo) = e /\ Head(r.todo) = <<"append", h[2]>>
      /\ r.snap = j.snap /\ r.proto = j.proto /\ r.status = j.status
  BY <1>1 DEF Stepped, Follows
<1>4. events \in Nat /\ events + 1 \in Nat
  BY DEF LoopType
<1>5. \/ x = NoLoopJob
      \/ /\ x \in LoopJobs /\ x.todo = r.todo /\ x.seq = events + 1 /\ x.snap = j.snap
         /\ x.proto = j.proto /\ x.status = j.status
  BY <1>1, <1>3, <1>4, JobSeq
<1>6. Head(r.todo)[1] = "append" /\ Head(r.todo)[2] = h[2] /\ h[2] # "none"
  BY <1>1, <1>3, StepIs, StepNames
<1>7. Honest(a, j) => Honest(a, x)
  BY <1>1, <1>3, <1>5, <1>6, NoJobSound DEF Honest
<1>8. MirrorOf(j) => MirrorOf(x)'
  BY <1>1, <1>2, <1>5, <1>6, NoJob DEF MirrorOf, Behind
<1>9. KeepsShut(j) => KeepsShut(x)
  BY <1>1, <1>3, <1>5, <1>6, NoJobSound DEF KeepsShut
<1>10. QuietStep(a, j, x)
  BY <1>1, <1>2, <1>3, <1>4, <1>5, <1>7, <1>8, <1>9, NoJob DEF QuietStep
<1> QED
  BY <1>10, StepKeeps

LEMMA AppendKeeps ==
    ASSUME NEW T, NEW H, NEW V, NEW C, NEW M, NEW F, NEW a \in LoopActors, LoopType,
           Proto(T, H, V, C, M, F)!AppendEvent(a)
    PROVE  LoopKept(T, H)
<1> PICK j, x : j = job[a] /\ x = Proto(T, H, V, C, M, F)!Rest(a)
  OBVIOUS
<1> PICK h, e : h = Head(j.todo) /\ e = End(j.todo)
  OBVIOUS
<1>1. /\ j \in LoopJobs /\ Shape(j.todo) /\ j # NoLoopJob /\ j.todo # << >> /\ h[1] = "append"
      /\ h \in FileSteps /\ x \in LoopJobs /\ Stepped(j, x)
  BY RestOf DEF Proto!AppendEvent
<1>2. /\ job' = [job EXCEPT ![a] = x] /\ UNCHANGED <<doc, st, torn, answered, closed>>
      /\ events' = events + 1
  BY DEF Proto!AppendEvent, Proto!Advance
<1>3. /\ Shape(x.todo) /\ x.todo # << >> /\ End(x.todo) = e
      /\ Head(x.todo) = <<IF h[2] \in CountFirst THEN "read" ELSE "write", h[2]>>
      /\ x.snap = j.snap /\ x.proto = j.proto /\ x.status = j.status /\ x.seq = j.seq
  BY <1>1 DEF Stepped, Follows
<1>4. events \in Nat /\ events' \in Nat
  BY <1>2 DEF LoopType
<1>5. /\ Head(x.todo)[1] = IF h[2] \in CountFirst THEN "read" ELSE "write"
      /\ Head(x.todo)[2] = h[2] /\ h[2] # "none"
  BY <1>1, <1>3, StepIs, StepNames
<1>6. Honest(a, j) => Honest(a, x)
  BY <1>1, <1>3, <1>5 DEF Honest
<1>7. MirrorOf(j) => MirrorOf(x)'
  BY <1>1, <1>2, <1>3, <1>5 DEF MirrorOf, Behind
<1>8. Head(x.todo) # <<"read", "update">>
  BY <1>5, StepIs DEF CountFirst
<1>9. KeepsShut(j) => KeepsShut(x)
  BY <1>1, <1>3, <1>5, <1>8 DEF KeepsShut
<1>10. QuietStep(a, j, x)
  BY <1>1, <1>2, <1>3, <1>4, <1>6, <1>7, <1>9 DEF QuietStep
<1> QED
  BY <1>10, StepKeeps

\* What is read of state.json is what it says now.
LEMMA ReadKeeps ==
    ASSUME NEW T, NEW H, NEW V, NEW C, NEW M, NEW F, NEW a \in LoopActors, LoopType,
           Proto(T, H, V, C, M, F)!ReadState(a)
    PROVE  LoopKept(T, H)
<1> PICK j, r : j = job[a] /\ r = Proto(T, H, V, C, M, F)!Rest(a)
  OBVIOUS
<1> PICK h, e : h = Head(j.todo) /\ e = End(j.todo)
  OBVIOUS
<1>1. /\ j \in LoopJobs /\ Shape(j.todo) /\ j # NoLoopJob /\ j.todo # << >> /\ h[1] = "read"
      /\ h \in FileSteps /\ r \in LoopJobs /\ Stepped(j, r)
  BY RestOf DEF Proto!ReadState
<1> PICK s : s = IF h[2] = "update" THEN doc.status ELSE r.status
  OBVIOUS
<1> PICK x : x = HavingRead(r, st, s)
  OBVIOUS
<1>2. job' = [job EXCEPT ![a] = x] /\ UNCHANGED <<doc, st, events, torn, answered, closed>>
  <2>1. UNCHANGED <<doc, st, events, torn, answered, closed>>
    BY DEF Proto!ReadState
  <2>2. job' = [job EXCEPT ![a] = [r EXCEPT !.snap = st,
                  !.status = IF h[2] = "update" THEN doc.status ELSE @]]
    BY DEF Proto!ReadState, Proto!Advance, Proto!OpAt
  <2> QED
    BY <2>1, <2>2 DEF HavingRead
<1>3. /\ Shape(r.todo) /\ r.todo # << >> /\ End(r.todo) = e
      /\ Head(r.todo) = <<IF h[2] \in CountFirst THEN "write" ELSE "count", h[2]>>
      /\ r.snap = j.snap /\ r.proto = j.proto /\ r.status = j.status /\ r.seq = j.seq
  BY <1>1 DEF Stepped, Follows
<1>4. st \in LoopStates /\ s \in LoopStatuses /\ events \in Nat
  <2>1. doc.status \in LoopStatuses
    BY DEF LoopType, LoopTexts, LoopStatuses
  <2>2. r.status \in LoopStatuses
    BY <1>1 DEF LoopJobs
  <2> QED
    BY <2>1, <2>2 DEF LoopType
<1>5. /\ x \in LoopJobs /\ x.todo = r.todo /\ x.snap = st /\ x.proto = j.proto
      /\ x.status = s /\ x.seq = j.seq
  <2>1. r \in LoopJobs /\ st \in LoopStates /\ s \in LoopStatuses
    BY <1>1, <1>4
  <2>2. /\ x \in LoopJobs /\ x.todo = r.todo /\ x.snap = st /\ x.proto = r.proto
        /\ x.status = s /\ x.seq = r.seq
    BY <2>1, JobSnap
  <2> QED
    BY <1>3, <2>2
<1>6. /\ Head(x.todo)[1] = IF h[2] \in CountFirst THEN "write" ELSE "count"
      /\ Head(x.todo)[2] = h[2] /\ h[2] # "none"
  BY <1>1, <1>3, <1>5, StepIs, StepNames
<1>7. ASSUME Honest(a, j), Counts(st) PROVE Honest(a, x)
  <2>1. x.todo # << >> /\ End(x.todo) = e /\ x.snap = st /\ x.proto = j.proto
    BY <1>3, <1>5
  <2>2. /\ e \notin {"put", "delete"} /\ (a = "http" => e \notin {"init", "update", "close"})
        /\ e \in {"init", "update", "close"} =>
              j.proto.found /\ j.proto.status \in {"draft", "closed"}
        /\ e = "activate" => j.proto.found
        /\ h[2] # "none" => doc.found
    BY <1>1, <1>7 DEF Honest
  <2>3. doc.found
    BY <1>6, <2>2
  <2>4. Head(x.todo)[1] # "writedoc"
    BY <1>6
  <2> QED
    BY <1>7, <2>1, <2>2, <2>3, <2>4 DEF Honest
<1>8. MirrorOf(j) => MirrorOf(x)'
  BY <1>1, <1>2, <1>3, <1>5, <1>6 DEF MirrorOf, Behind
<1>9. h[2] = "update" => h = <<"read", "update">> /\ s = doc.status /\ e = "update"
  <2>1. h[2] = "update" => h = <<"read", "update">>
    BY <1>1 DEF FileSteps
  <2>2. h[2] = "update" => e = "update"
    BY <1>1 DEF Stepped, Follows
  <2> QED
    BY <2>1, <2>2
<1>10. Head(x.todo) # <<"read", "update">>
  <2>1. Head(x.todo)[1] # "read"
    BY <1>6
  <2> QED
    BY <2>1, StepIsNot
<1>11. ASSUME KeepsShut(j), closed => st.found /\ Down(st.status) PROVE KeepsShut(x)
  <2>1. /\ e = "delete" => j.status = "disabled"
        /\ e \in {"init", "update", "close"} => j.proto.found /\ j.proto.status \in {"draft", "closed"}
        /\ e = "put" => j.proto.found
        /\ h = <<"read", "update">> => doc.status \in {"draft", "closed"}
        /\ h[2] = "init" => ~closed
        /\ closed /\ h[2] \in {"put", "delete"} => Down(j.status)
    BY <1>1, <1>11 DEF KeepsShut
  <2>2. h[2] # "update" => s = j.status
    BY <1>3
  <2>3. x.todo # << >> /\ End(x.todo) = e /\ Head(x.todo)[2] = h[2] /\ Head(x.todo)[1] # "read"
    BY <1>3, <1>5, <1>6
  <2>4. /\ e = "delete" => x.status = "disabled"
        /\ closed /\ h[2] \in {"put", "delete"} => Down(x.status)
    BY <1>5, <1>9, <2>1, <2>2
  <2>5. h[2] = "update" => x.status \in {"draft", "closed"}
    BY <1>5, <1>9, <2>1
  <2> QED
    BY <1>5, <1>10, <1>11, <2>1, <2>3, <2>4, <2>5 DEF KeepsShut
<1>12. x \in LoopJobs /\ Shape(x.todo) /\ j \in LoopJobs /\ j # NoLoopJob /\ events' \in Nat
  BY <1>1, <1>2, <1>3, <1>4, <1>5
<1>13. KeepsShut(j) /\ (closed => st.found /\ Down(st.status)) => KeepsShut(x)
  BY <1>11
<1>14. Honest(a, j) /\ Counts(st) => Honest(a, x)
  BY <1>7
<1>15. QuietStep(a, j, x)
  BY <1>2, <1>8, <1>12, <1>13, <1>14 DEF QuietStep
<1> QED
  BY <1>15, StepKeeps

LEMMA ReadyKeeps ==
    ASSUME NEW T, NEW H, NEW V, NEW C, NEW M, NEW F, NEW a \in LoopActors, LoopType,
           Proto(T, H, V, C, M, F)!ValidateProtocolActivationReady(a)
    PROVE  LoopKept(T, H)
<1> PICK j, r : j = job[a] /\ r = Proto(T, H, V, C, M, F)!Rest(a)
  OBVIOUS
<1> PICK h, e : h = Head(j.todo) /\ e = End(j.todo)
  OBVIOUS
<1>1. /\ j \in LoopJobs /\ Shape(j.todo) /\ j # NoLoopJob /\ j.todo # << >> /\ h[1] = "ready"
      /\ h \in FileSteps /\ r \in LoopJobs /\ Stepped(j, r)
  BY RestOf DEF Proto!ValidateProtocolActivationReady
<1> DEFINE ready == st.found /\ st.q > 0 /\ st.a > 0 /\ st.a >= st.q
<1> PICK x : x = IF ready THEN r ELSE NoLoopJob
  OBVIOUS
<1>2. job' = [job EXCEPT ![a] = x] /\ UNCHANGED <<doc, st, events, torn, answered, closed>>
  BY LoopConstants DEF Proto!ValidateProtocolActivationReady, Proto!Advance, Proto!ActivationReady
<1>3. /\ Shape(r.todo) /\ r.todo # << >> /\ End(r.todo) = e /\ Head(r.todo) = <<"writedoc", "none">>
      /\ e = "activate" /\ r.snap = j.snap /\ r.proto = j.proto /\ r.status = j.status
  BY <1>1 DEF Stepped, Follows
<1>4. events \in Nat /\ Head(r.todo)[1] = "writedoc" /\ Head(r.todo)[2] = "none" /\ h[2] = "none"
  BY <1>1, <1>3, StepIs, StepNames DEF LoopType
<1>5. x = NoLoopJob \/ (x = r /\ st.found /\ st.a > 0)
  OBVIOUS
<1> HIDE DEF ready
<1>6. Honest(a, j) /\ Counts(st) => Honest(a, x)
  BY <1>1, <1>3, <1>4, <1>5, NoJobSound DEF Honest, Counts
<1>7. MirrorOf(j) => MirrorOf(x)'
  BY <1>1, <1>2, <1>3, <1>4, <1>5, NoJob DEF MirrorOf, Behind
<1>8. KeepsShut(x)
  <2>1. CASE x = NoLoopJob
    BY <2>1, NoJobSound
  <2>2. CASE x = r
    <3>1. Head(r.todo) # <<"read", "update">>
      BY <1>4, StepIsNot
    <3> QED
      BY <1>3, <1>4, <2>2, <3>1 DEF KeepsShut, ReadFirst
  <2> QED
    BY <1>5, <2>1, <2>2
<1>9. /\ x \in LoopJobs /\ (x = NoLoopJob \/ Shape(x.todo))
      /\ j \in LoopJobs /\ j # NoLoopJob /\ events' \in Nat
  BY <1>1, <1>2, <1>3, <1>4, <1>5, NoJobSound
<1>10. QuietStep(a, j, x)
  BY <1>2, <1>6, <1>7, <1>8, <1>9 DEF QuietStep
<1> QED
  BY <1>10, StepKeeps

LEMMA DecideKeeps ==
    ASSUME NEW T, NEW H, NEW V, NEW C, NEW M, NEW F, NEW a \in LoopActors, LoopType,
           Proto(T, H, V, C, M, F)!DecideFeed(a)
    PROVE  LoopKept(T, H)
<1> PICK j, r : j = job[a] /\ r = Proto(T, H, V, C, M, F)!Rest(a)
  OBVIOUS
<1> PICK h, e : h = Head(j.todo) /\ e = End(j.todo)
  OBVIOUS
<1>1. /\ j \in LoopJobs /\ Shape(j.todo) /\ j # NoLoopJob /\ j.todo # << >> /\ h[1] = "decide"
      /\ h \in FileSteps /\ r \in LoopJobs /\ Stepped(j, r)
  BY RestOf DEF Proto!DecideFeed
<1> PICK mode : mode = Proto(T, H, V, C, M, F)!nextLoopProtocolFeedDecision(st)
  OBVIOUS
<1> PICK x : x = IF ~st.found \/ st.status \in {"none", "running"}
                 THEN [r EXCEPT !.mode = mode] ELSE NoLoopJob
  OBVIOUS
<1>2. job' = [job EXCEPT ![a] = x] /\ UNCHANGED <<doc, st, events, torn, answered, closed>>
  BY LoopConstants DEF Proto!DecideFeed, Proto!Advance
<1>3. /\ Shape(r.todo) /\ r.todo # << >> /\ End(r.todo) = e /\ Head(r.todo) = <<"read", "feed">>
      /\ e = "feed" /\ r.snap = j.snap /\ r.proto = j.proto /\ r.status = j.status
  BY <1>1 DEF Stepped, Follows
<1>4. events \in Nat /\ Head(r.todo)[1] = "read" /\ Head(r.todo)[2] = "feed" /\ h[2] = "none"
  BY <1>1, <1>3, StepIs, StepNames DEF LoopType
<1>5. mode \in LoopModes
  BY DEF Proto!nextLoopProtocolFeedDecision, Proto!loopProtocolFeedMode, LoopModes
<1>6. \/ x = NoLoopJob
      \/ /\ x \in LoopJobs /\ x.todo = r.todo /\ x.snap = j.snap
         /\ x.proto = j.proto /\ x.status = j.status
  BY <1>1, <1>3, <1>5, JobMode
<1>7. Honest(a, j) => Honest(a, x)
  BY <1>1, <1>3, <1>4, <1>6, NoJobSound DEF Honest
<1>8. MirrorOf(j) => MirrorOf(x)'
  BY <1>1, <1>2, <1>3, <1>4, <1>6, NoJob DEF MirrorOf, Behind, CountFirst
<1>9. Head(r.todo) # <<"read", "update">>
  <2>1. ASSUME Head(r.todo) = <<"read", "update">> PROVE FALSE
    <3>1. Head(r.todo)[2] = "update"
      BY <2>1, StepIs
    <3> QED
      BY <1>4, <3>1
  <2> QED
    BY <2>1
<1>10. KeepsShut(x)
  <2>1. CASE x = NoLoopJob
    BY <2>1, NoJobSound
  <2>2. CASE x.todo = r.todo
    BY <1>3, <1>4, <1>9, <2>2 DEF KeepsShut
  <2> QED
    BY <1>6, <2>1, <2>2
<1>11. /\ x \in LoopJobs /\ (x = NoLoopJob \/ Shape(x.todo))
       /\ j \in LoopJobs /\ j # NoLoopJob /\ events' \in Nat
  BY <1>1, <1>2, <1>3, <1>4, <1>6, NoJobSound
<1>12. Honest(a, j) /\ Counts(st) => Honest(a, x)
  BY <1>7
<1>13. QuietStep(a, j, x)
  BY <1>2, <1>8, <1>10, <1>11, <1>12 DEF QuietStep
<1> QED
  BY <1>13, StepKeeps

LEMMA SummarizeKeeps ==
    ASSUME NEW T, NEW H, NEW V, NEW C, NEW M, NEW F, NEW a \in LoopActors, LoopType,
           Proto(T, H, V, C, M, F)!SummarizeFile(a)
    PROVE  LoopKept(T, H)
<1> PICK j, r : j = job[a] /\ r = Proto(T, H, V, C, M, F)!Rest(a)
  OBVIOUS
<1> PICK h, e : h = Head(j.todo) /\ e = End(j.todo)
  OBVIOUS
<1>1. /\ j \in LoopJobs /\ Shape(j.todo) /\ j # NoLoopJob /\ j.todo # << >> /\ h[1] = "summarize"
      /\ h \in FileSteps /\ r \in LoopJobs /\ Stepped(j, r)
  BY RestOf DEF Proto!SummarizeFile
<1> PICK s : s = IF st.found /\ st.status # "none" THEN st.status ELSE doc.status
  OBVIOUS
<1> PICK x : x = IF ~doc.found THEN NoLoopJob ELSE [r EXCEPT !.status = s]
  OBVIOUS
<1>2. job' = [job EXCEPT ![a] = x] /\ UNCHANGED <<doc, st, events, torn, answered, closed>>
  BY LoopConstants DEF Proto!SummarizeFile, Proto!Advance
<1>3. /\ Shape(r.todo) /\ r.todo # << >> /\ End(r.todo) = e /\ Head(r.todo) = <<"count", "put">>
      /\ e = "put" /\ r.snap = j.snap /\ r.proto = j.proto
  BY <1>1 DEF Stepped, Follows
<1>4. events \in Nat /\ Head(r.todo)[1] = "count" /\ Head(r.todo)[2] = "put" /\ h[2] = "none"
  BY <1>1, <1>3, StepIs, StepNames DEF LoopType
<1>5. s \in LoopStatuses
  BY DEF LoopType, LoopTexts, LoopStates, LoopStatuses
<1>6. \/ x = NoLoopJob
      \/ /\ x \in LoopJobs /\ x.todo = r.todo /\ x.snap = j.snap
         /\ x.proto = j.proto /\ x.status = s
  BY <1>1, <1>3, <1>5, JobStatus
<1>7. Honest(a, j) => Honest(a, x)
  BY <1>1, <1>3 DEF Honest
<1>8. MirrorOf(j) => MirrorOf(x)'
  BY <1>1, <1>2, <1>3, <1>4, <1>6, NoJob DEF MirrorOf, Behind
<1>9. KeepsShut(j) /\ (closed => st.found /\ Down(st.status)) => KeepsShut(x)
  <2>1. closed /\ st.found /\ Down(st.status) => Down(s)
    BY DEF Down
  <2>2. Head(r.todo) # <<"read", "update">>
    BY <1>4, StepIs
  <2> QED
    BY <1>1, <1>3, <1>4, <1>6, <2>1, <2>2, NoJobSound DEF KeepsShut, ReadFirst
<1>10. /\ x \in LoopJobs /\ (x = NoLoopJob \/ Shape(x.todo)) /\ j # NoLoopJob /\ j = job[a]
       /\ job' = [job EXCEPT ![a] = x] /\ UNCHANGED <<doc, st, torn, answered, closed>>
       /\ events' \in Nat
  BY <1>1, <1>2, <1>3, <1>4, <1>6, NoJob
<1>11. QuietStep(a, j, x)
  BY <1>7, <1>8, <1>9, <1>10 DEF QuietStep
<1> QED
  BY <1>11, StepKeeps

LEMMA RecordAhead ==
    ASSUME NEW op \in {"question", "answer"}
    PROVE  LET p == << <<"read", op>>, <<"count", op>>, <<"append", op>>, <<"write", op>> >>
           IN  /\ p \in Seq(FileSteps) /\ Len(p) = 4
               /\ \A i \in 1..3 : Follows(p[i], p[i + 1], "activate")
               /\ op = "question" => Follows(p[4], <<"read", "answer">>, "activate")
               /\ op = "answer" => Follows(p[4], <<"ready", "none">>, "activate")
               /\ p[1] = <<"read", op>>
<1> PICK p : p = << <<"read", op>>, <<"count", op>>, <<"append", op>>, <<"write", op>> >>
  OBVIOUS
<1>1. Shape(p) /\ p[1] = <<"read", op>> /\ Len(p) = 4
  BY ShapeRecord DEF ReadFirst
<1>2. /\ p[2] = <<"count", op>> /\ p[3] = <<"append", op>> /\ p[4] = <<"write", op>>
  OBVIOUS
<1>3. op \notin CountFirst
  BY DEF CountFirst
<1>4. \A i \in 1..3 : Follows(p[i], p[i + 1], "activate")
  <2>1. /\ Follows(p[1], p[1 + 1], "activate") /\ Follows(p[2], p[2 + 1], "activate")
        /\ Follows(p[3], p[3 + 1], "activate")
    BY <1>1, <1>2, <1>3 DEF Follows
  <2> QED
    BY <2>1
<1>5. /\ op = "question" => Follows(p[4], <<"read", "answer">>, "activate")
      /\ op = "answer" => Follows(p[4], <<"ready", "none">>, "activate")
  BY <1>2 DEF Follows
<1>6. p \in Seq(FileSteps)
  BY <1>1 DEF Shape
<1> QED
  BY <1>1, <1>4, <1>5, <1>6

\* The steps put before those of an activation.
AnswerSteps == << <<"read", "answer">>, <<"count", "answer">>, <<"append", "answer">>, <<"write", "answer">> >>
QuestionSteps ==
    << <<"read", "question">>, <<"count", "question">>, <<"append", "question">>, <<"write", "question">> >>
Repaired(fix) ==
    \/ fix = << >>
    \/ st.found /\ (fix = AnswerSteps \/ fix = QuestionSteps \o AnswerSteps)

LEMMA RepairedShape ==
    ASSUME NEW fix, Repaired(fix), NEW w, Shape(w), End(w) = "activate", w[1] = <<"ready", "none">>
    PROVE  /\ Shape(fix \o w) /\ End(fix \o w) = "activate"
           /\ fix \o w \in StepLists /\ fix \o w # << >>
           /\ Head(fix \o w)[1] \in {"ready", "read"}
           /\ Head(fix \o w)[1] = "read" => st.found /\ Head(fix \o w)[2] \in {"question", "answer"}
           /\ Head(fix \o w)[1] = "ready" => Head(fix \o w)[2] = "none"
<1>4. \A z, o : Shape(z) /\ z[1] = <<"read", o>> => Head(z)[1] = "read" /\ Head(z)[2] = o
  BY FirstStep
<1> PICK q : q = fix \o w
  OBVIOUS
<1>1. w \in Seq(FileSteps)
  BY DEF Shape
<1>2. CASE fix = << >>
  <2>1. fix \o w = w
    BY <1>1, <1>2, ConcatEmptySeq
  <2>2. Head(w)[1] = "ready" /\ Head(w)[2] = "none"
    BY FirstStep
  <2>3. w # << >>
    BY ShapeTail
  <2> QED
    BY <1>1, <2>1, <2>2, <2>3 DEF StepLists
<1>3. CASE fix # << >>
  <2> PICK u, v : u = AnswerSteps /\ v = QuestionSteps
    OBVIOUS
  <2>0. fix = u \/ fix = v \o u
    BY <1>3 DEF Repaired
  <2>1. /\ u \in Seq(FileSteps) /\ Len(u) = 4
        /\ \A i \in 1..3 : Follows(u[i], u[i + 1], "activate")
        /\ Follows(u[4], <<"ready", "none">>, "activate")
        /\ u[1] = <<"read", "answer">>
    BY RecordAhead DEF AnswerSteps, QuestionSteps
  <2>2. /\ v \in Seq(FileSteps) /\ Len(v) = 4
        /\ \A i \in 1..3 : Follows(v[i], v[i + 1], "activate")
        /\ Follows(v[4], <<"read", "answer">>, "activate")
        /\ v[1] = <<"read", "question">>
    BY RecordAhead DEF AnswerSteps, QuestionSteps
  <2>3. Shape(u \o w) /\ End(u \o w) = "activate" /\ (u \o w)[1] = <<"read", "answer">>
    <3>1. u \in Seq(FileSteps) /\ Len(u) > 0 /\ Len(u) - 1 = 3 /\ Len(u) = 4
      BY <2>1
    <3>2. (\A i \in 1..(Len(u) - 1) : Follows(u[i], u[i + 1], End(w)))
          /\ Follows(u[Len(u)], w[1], End(w))
      BY <2>1, <3>1
    <3>3. Shape(u \o w) /\ End(u \o w) = End(w) /\ (u \o w)[1] = u[1]
      BY <3>1, <3>2, ShapeJoined
    <3> QED
      BY <2>1, <3>3
  <2>4. Shape(v \o (u \o w)) /\ End(v \o (u \o w)) = "activate"
        /\ (v \o (u \o w))[1] = <<"read", "question">>
    <3>1. v \in Seq(FileSteps) /\ Len(v) > 0 /\ Len(v) - 1 = 3 /\ Len(v) = 4
      BY <2>2
    <3> PICK z : z = u \o w
      OBVIOUS
    <3>2. (\A i \in 1..(Len(v) - 1) : Follows(v[i], v[i + 1], End(z)))
          /\ Follows(v[Len(v)], z[1], End(z)) /\ Shape(z) /\ End(z) = "activate"
      BY <2>2, <2>3, <3>1
    <3>3. Shape(v \o z) /\ End(v \o z) = End(z) /\ (v \o z)[1] = v[1]
      BY <3>1, <3>2, ShapeJoined
    <3> QED
      BY <2>2, <3>2, <3>3
  <2>5. (v \o u) \o w = v \o (u \o w)
    <3>1. u \in Seq(FileSteps) /\ v \in Seq(FileSteps) /\ w \in Seq(FileSteps)
      BY <1>1, <2>1, <2>2
    <3>2. \A x, y, z \in Seq(FileSteps) : (x \o y) \o z = x \o (y \o z)
      BY ConcatAssociative
    <3> QED
      BY <3>1, <3>2
  <2>6. Shape(q) /\ End(q) = "activate" /\ \E op \in {"question", "answer"} : q[1] = <<"read", op>>
    <3>1. CASE fix = u
      <4>1. q = u \o w
        BY <3>1
      <4> QED
        BY <4>1, <2>3
    <3>2. CASE fix = v \o u
      <4>1. q = v \o (u \o w)
        BY <3>2, <2>5
      <4>2. Shape(q) /\ End(q) = "activate" /\ q[1] = <<"read", "question">>
        BY <4>1, <2>4
      <4> QED
        BY <4>2
    <3> QED
      BY <2>0, <3>1, <3>2
  <2> PICK op \in {"question", "answer"} : q[1] = <<"read", op>>
    BY <2>6
  <2>7. Head(q)[1] = "read" /\ Head(q)[2] = op
    <3>1. Shape(q) /\ q[1] = <<"read", op>>
      BY <2>6
    <3> QED
      BY <3>1, <1>4
  <2>8. q \in StepLists /\ q # << >>
    BY <2>6, ShapeTail DEF StepLists
  <2>9. st.found
    BY <1>3 DEF Repaired
  <2> QED
    BY <2>6, <2>7, <2>8, <2>9
<1> QED
  BY <1>2, <1>3

LEMMA RepairedJob ==
    ASSUME NEW f, Repaired(f), NEW r \in LoopJobs,
           Shape(r.todo), End(r.todo) = "activate", r.todo[1] = <<"ready", "none">>
    PROVE  \E x \in LoopJobs :
              /\ x = WithSteps(r, f \o r.todo) /\ x.snap = r.snap /\ x.proto = r.proto
              /\ x.status = r.status /\ Shape(x.todo) /\ End(x.todo) = "activate" /\ x.todo # << >>
              /\ Head(x.todo)[1] \in {"ready", "read"}
              /\ Head(x.todo)[1] = "read" => st.found /\ Head(x.todo)[2] \in {"question", "answer"}
              /\ Head(x.todo)[1] = "ready" => Head(x.todo)[2] = "none"
<1>1. \A q \in StepLists : \E x \in LoopJobs :
         /\ x = WithSteps(r, q) /\ x.snap = r.snap /\ x.proto = r.proto
         /\ x.status = r.status /\ x.todo = q
  BY TailOf
<1>2. /\ Shape(f \o r.todo) /\ End(f \o r.todo) = "activate"
      /\ f \o r.todo \in StepLists /\ f \o r.todo # << >>
      /\ Head(f \o r.todo)[1] \in {"ready", "read"}
      /\ Head(f \o r.todo)[1] = "read" => st.found /\ Head(f \o r.todo)[2] \in {"question", "answer"}
      /\ Head(f \o r.todo)[1] = "ready" => Head(f \o r.todo)[2] = "none"
  BY RepairedShape
<1> QED
  BY <1>1, <1>2

LEMMA RepairKeeps ==
    ASSUME NEW T, NEW H, NEW V, NEW C, NEW M, NEW F, NEW a \in LoopActors, LoopType,
           Proto(T, H, V, C, M, F)!RepairRecordedCalibrationFromProtocol(a)
    PROVE  LoopKept(T, H)
<1> PICK j, r : j = job[a] /\ r = Proto(T, H, V, C, M, F)!Rest(a)
  OBVIOUS
<1> PICK h, e : h = Head(j.todo) /\ e = End(j.todo)
  OBVIOUS
<1>1. /\ j \in LoopJobs /\ Shape(j.todo) /\ j # NoLoopJob /\ j.todo # << >> /\ h[1] = "repair"
      /\ h \in FileSteps /\ r \in LoopJobs /\ Stepped(j, r)
  BY RestOf DEF Proto!RepairRecordedCalibrationFromProtocol
<1>2. \E f : /\ Repaired(f)
             /\ job' = [job EXCEPT ![a] = WithSteps(r, f \o r.todo)]
             /\ UNCHANGED <<doc, st, events, torn, answered, closed>>
  <2> PICK f : f = IF ~st.found \/ st.status # "draft" \/ st.a > 0 \/ ~job[a].proto.pairs THEN << >>
                   ELSE IF st.q = 0
                        THEN Proto(T, H, V, C, M, F)!RecordSteps("question") \o Proto(T, H, V, C, M, F)!RecordSteps("answer")
                        ELSE Proto(T, H, V, C, M, F)!RecordSteps("answer")
    OBVIOUS
  <2>1. /\ job' = [job EXCEPT ![a] = [r EXCEPT !.todo = f \o @]]
        /\ UNCHANGED <<doc, st, events, torn, answered, closed>>
    BY DEF Proto!RepairRecordedCalibrationFromProtocol, Proto!Advance
  <2>2. /\ Proto(T, H, V, C, M, F)!RecordSteps("answer") = AnswerSteps
        /\ Proto(T, H, V, C, M, F)!RecordSteps("question") = QuestionSteps
    BY LoopLists DEF AnswerSteps, QuestionSteps
  <2>3. Repaired(f)
    BY <2>2 DEF Repaired
  <2> QED
    BY <2>1, <2>3 DEF WithSteps
<1> PICK f : /\ Repaired(f)
             /\ job' = [job EXCEPT ![a] = WithSteps(r, f \o r.todo)]
             /\ UNCHANGED <<doc, st, events, torn, answered, closed>>
  BY <1>2
<1>4. /\ Shape(r.todo) /\ End(r.todo) = "activate" /\ r.todo[1] = <<"ready", "none">>
      /\ e = "activate" /\ r.snap = j.snap /\ r.proto = j.proto /\ r.status = j.status
  <2>1. /\ Shape(r.todo) /\ r.todo # << >> /\ End(r.todo) = e /\ Head(r.todo) = <<"ready", "none">>
        /\ e = "activate" /\ r.snap = j.snap /\ r.proto = j.proto /\ r.status = j.status
    BY <1>1 DEF Stepped, Follows
  <2> QED
    BY <2>1, ShapeTail
<1>5. \E x \in LoopJobs :
         /\ x = WithSteps(r, f \o r.todo) /\ x.snap = r.snap /\ x.proto = r.proto
         /\ x.status = r.status /\ Shape(x.todo) /\ End(x.todo) = "activate" /\ x.todo # << >>
         /\ Head(x.todo)[1] \in {"ready", "read"}
         /\ Head(x.todo)[1] = "read" => st.found /\ Head(x.todo)[2] \in {"question", "answer"}
         /\ Head(x.todo)[1] = "ready" => Head(x.todo)[2] = "none"
  BY <1>1, <1>4, RepairedJob
<1>6. \E x \in LoopJobs :
         /\ job' = [job EXCEPT ![a] = x] /\ x.snap = j.snap /\ x.proto = j.proto
         /\ x.status = j.status /\ Shape(x.todo) /\ End(x.todo) = "activate" /\ x.todo # << >>
         /\ Head(x.todo)[1] \in {"ready", "read"}
         /\ Head(x.todo)[1] = "read" => st.found /\ Head(x.todo)[2] \in {"question", "answer"}
         /\ Head(x.todo)[1] = "ready" => Head(x.todo)[2] = "none"
  BY <1>4, <1>5
<1> PICK x \in LoopJobs :
         /\ job' = [job EXCEPT ![a] = x] /\ x.snap = j.snap /\ x.proto = j.proto
         /\ x.status = j.status /\ Shape(x.todo) /\ End(x.todo) = "activate" /\ x.todo # << >>
         /\ Head(x.todo)[1] \in {"ready", "read"}
         /\ Head(x.todo)[1] = "read" => st.found /\ Head(x.todo)[2] \in {"question", "answer"}
         /\ Head(x.todo)[1] = "ready" => Head(x.todo)[2] = "none"
  BY <1>6
<1> PICK q : q = x.todo
  OBVIOUS
<1>8. events \in Nat /\ h[2] = "none"
  BY <1>1, StepNames DEF LoopType
<1>9. Honest(a, j) /\ Counts(st) => Honest(a, x)
  BY <1>1, <1>4 DEF Honest, Counts
<1>10. MirrorOf(j) => MirrorOf(x)'
  BY <1>1, <1>4, <1>8 DEF MirrorOf, Behind, CountFirst
<1>11. KeepsShut(x)
  <2>1. Head(q) # <<"read", "update">>
    <3>1. Head(q) = <<"read", "update">> => Head(q)[1] = "read" /\ Head(q)[2] = "update"
      BY StepIs
    <3> QED
      BY <3>1
  <2>2. ~(Head(q)[2] # "none" /\ Head(q)[1] # "read") /\ Head(q)[2] \notin {"init", "put", "delete"}
    OBVIOUS
  <2> QED
    BY <1>4, <2>1, <2>2 DEF KeepsShut, ReadFirst
<1>12. /\ x \in LoopJobs /\ Shape(x.todo) /\ j # NoLoopJob /\ j = job[a]
       /\ job' = [job EXCEPT ![a] = x] /\ UNCHANGED <<doc, st, torn, answered, closed>>
       /\ events' \in Nat
  BY <1>1, <1>8
<1>13. QuietStep(a, j, x)
  BY <1>9, <1>10, <1>11, <1>12 DEF QuietStep
<1> QED
  BY <1>13, StepKeeps

LEMMA RemoveKeeps ==
    ASSUME NEW T, NEW H, NEW V, NEW C, NEW M, NEW F, NEW a \in LoopActors, LoopType,
           Proto(T, H, V, C, M, F)!RemoveProtocol(a)
    PROVE  LoopKept(T, H)
<1> PICK j, r : j = job[a] /\ r = Proto(T, H, V, C, M, F)!Rest(a)
  OBVIOUS
<1> PICK h, e : h = Head(j.todo) /\ e = End(j.todo)
  OBVIOUS
<1>1. /\ j \in LoopJobs /\ Shape(j.todo) /\ j # NoLoopJob /\ j.todo # << >> /\ h[1] = "remove"
      /\ h \in FileSteps /\ r \in LoopJobs /\ Stepped(j, r)
  BY RestOf DEF Proto!RemoveProtocol
<1> PICK x : x = IF ~doc.found /\ ~st.found THEN NoLoopJob ELSE r
  OBVIOUS
<1>2. /\ job' = [job EXCEPT ![a] = x] /\ UNCHANGED <<st, events, torn, answered, closed>>
      /\ doc' = NoLoopText
  BY LoopConstants DEF Proto!RemoveProtocol, Proto!Advance
<1>3. /\ Shape(r.todo) /\ r.todo # << >> /\ End(r.todo) = e /\ Head(r.todo) = <<"count", "delete">>
      /\ e = "delete" /\ r.snap = j.snap /\ r.proto = j.proto /\ r.status = j.status
  BY <1>1 DEF Stepped, Follows
<1>4. Head(r.todo)[1] = "count" /\ Head(r.todo)[2] = "delete"
  BY <1>3, StepIs
<1>5. x \in LoopJobs /\ (x = NoLoopJob \/ Shape(x.todo)) /\ (x = NoLoopJob \/ x = r)
  BY <1>1, <1>3, NoJob
<1>6. LoopType' /\ job'[a] = x /\ \A b \in LoopActors : b # a => job'[b] = job[b]
  <2>1. /\ doc' \in LoopTexts /\ st' \in LoopStates /\ events' \in Nat
        /\ torn' \in BOOLEAN /\ answered' \in BOOLEAN /\ closed' \in BOOLEAN
    BY <1>2, NoJob DEF LoopType
  <2> QED
    BY <1>2, <1>5, <2>1, TypeMoves
<1>7. ~Calibrated
  BY <1>1, <1>3 DEF Calibrated, Honest
<1>8. ASSUME OneAtWork
      PROVE  OneAtWork' /\ (Mirrored => Mirrored') /\ (StaysClosed => StaysClosed')
  <2>1. /\ OneAtWork' /\ MirrorOf(x)' => Mirrored'
        /\ (closed' => (st').found /\ Down((st').status)) /\ KeepsShut(x)' => StaysClosed'
    BY <1>1, <1>6, <1>8, AloneMoves
  <2>2. OneAtWork'
    BY <1>1, <1>6, <1>8, AloneMoves
  <2>3. ASSUME Mirrored PROVE MirrorOf(x)'
    <3>1. MirrorOf(j)
      <4>1. \A b \in LoopActors : b # a => job[b] = NoLoopJob
        BY <1>1, <1>8 DEF OneAtWork
      <4> QED
        BY <2>3, <4>1 DEF Mirrored
    <3> QED
      BY <1>1, <1>2, <1>3, <1>4, <1>5, <3>1, NoJob DEF MirrorOf, Behind
  <2>4. ASSUME StaysClosed
        PROVE  (closed' => (st').found /\ Down((st').status)) /\ KeepsShut(x)'
    <3>1. KeepsShut(j)
      BY <2>4 DEF StaysClosed
    <3>2. Head(r.todo) # <<"read", "update">>
      BY <1>4, StepIs
    <3>3. j.status = "disabled"
      BY <1>1, <1>3, <3>1 DEF KeepsShut
    <3>4. KeepsShut(x)'
      BY <1>3, <1>4, <1>5, <3>2, <3>3, NoJob DEF KeepsShut, ReadFirst, Down
    <3> QED
      BY <1>2, <2>4, <3>4 DEF StaysClosed
  <2> QED
    BY <2>1, <2>2, <2>3, <2>4
<1> QED
  BY <1>6, <1>7, <1>8 DEF LoopKept

\* What is pending of LOOP.md names the step that comes next.
LEMMA AfterDocument ==
    ASSUME NEW j \in LoopJobs, Shape(j.todo), Head(j.todo)[1] = "writedoc"
    PROVE  Follows(Head(j.todo), j.todo[2], End(j.todo))
  BY ShapeTail

\* LOOP.md is replaced: an initial draft takes back the answer of an earlier
\* loop, and no other text runs uncalibrated.
LEMMA DocumentSound ==
    ASSUME LoopType, Calibrated, NEW a \in LoopActors, NEW j, j = job[a], NEW r, NEW e,
           j.todo # << >>, Head(j.todo)[1] = "writedoc", Head(j.todo)[2] = "none", e = End(j.todo),
           job'[a] = r, \A b \in LoopActors : b # a => job'[b] = job[b],
           r.todo # << >>, End(r.todo) = e, r.snap = j.snap, r.proto = j.proto,
           e \in {"init", "put", "update", "activate", "close"}, Head(r.todo)[1] # "writedoc",
           UNCHANGED st, doc' = j.proto, answered' = (answered /\ e # "init")
    PROVE  Calibrated'
<1>1. /\ e \notin {"put", "delete"} /\ (a = "http" => e \notin {"init", "update", "close"})
      /\ e = "init" => ~doc.found
      /\ e = "activate" => answered /\ doc.found
      /\ e \in {"init", "update", "close"} => j.proto.found /\ j.proto.status \in {"draft", "closed"}
      /\ e = "activate" => j.proto.found
      /\ Counts(j.snap)
  BY DEF Calibrated, Honest
<1>2. doc'.found
  BY <1>1
<1>3. ASSUME NEW s, Counts(s) PROVE Counts(s)'
  <2>1. s.found => doc.found
    BY <1>3 DEF Counts
  <2>2. ~s.found => s.a = 0
    BY <1>3 DEF Counts
  <2>3. s.a > 0 => answered
    BY <1>3 DEF Counts
  <2>4. s.a > 0 => answered'
    <3>1. CASE e = "init"
      <4>1. s.a = 0
        BY <1>1, <2>1, <2>2, <3>1
      <4> QED
        BY <4>1
    <3>2. CASE e # "init"
      BY <2>3, <3>2
    <3> QED
      BY <3>1, <3>2
  <2> QED
    BY <1>2, <2>2, <2>4 DEF Counts
<1>4. doc'.status \in {"none", "running"} => answered'
  BY <1>1
<1>5. Counts(st)'
  <2>1. Counts(st)
    BY DEF Calibrated
  <2> PICK s : s = st
    OBVIOUS
  <2>2. Counts(s) => Counts(s)'
    BY <1>3
  <2> QED
    BY <2>1, <2>2 DEF Counts
<1>6. Honest(a, r)'
  <2>1. Counts(r.snap)'
    BY <1>1, <1>3 DEF Counts
  <2> QED
    BY <1>1, <1>2, <2>1 DEF Honest
<1>7. ASSUME NEW b \in LoopActors, b # a PROVE Honest(b, job[b])'
  <2> PICK o : o = job[b]
    OBVIOUS
  <2> PICK p, k : p = End(o.todo) /\ k = Head(o.todo)
    OBVIOUS
  <2>1. Honest(b, o) /\ job'[b] = o
    BY <1>7 DEF Calibrated
  <2>2. Counts(o.snap)'
    <3>1. Counts(o.snap)
      BY <2>1 DEF Honest
    <3> QED
      BY <1>3, <3>1 DEF Counts
  <2>3. o.todo # << >> =>
          /\ p \notin {"put", "delete"} /\ (b = "http" => p \notin {"init", "update", "close"})
          /\ k[1] = "writedoc" /\ p = "init" => ~doc.found
          /\ k[1] = "writedoc" /\ p = "activate" => answered /\ doc.found
          /\ p \in {"init", "update", "close"} =>
               o.proto.found /\ o.proto.status \in {"draft", "closed"}
          /\ p = "activate" => o.proto.found
    BY <2>1 DEF Honest
  <2>4. o.todo # << >> => ~(k[1] = "writedoc" /\ p = "init")
    <3>1. a # "http" => b = "http"
      BY <1>7 DEF LoopActors
    <3> QED
      BY <1>1, <2>3, <3>1
  <2>5. o.todo # << >> /\ k[1] = "writedoc" /\ p = "activate" => answered'
    BY <1>1, <2>3
  <2>6. Honest(b, o)'
    BY <1>2, <2>2, <2>3, <2>4, <2>5 DEF Honest
  <2> QED
    BY <2>1, <2>6 DEF Honest, Counts
<1>8. ASSUME NEW b \in LoopActors PROVE Honest(b, job[b])'
  <2>1. CASE b = a
    BY <1>6, <2>1 DEF Honest, Counts
  <2> QED
    BY <1>7, <2>1
<1> QED
  BY <1>4, <1>5, <1>8 DEF Calibrated

LEMMA WriteDocKeeps ==
    ASSUME NEW T, NEW H, NEW V, NEW C, NEW M, NEW F, NEW a \in LoopActors, LoopType,
           Proto(T, H, V, C, M, F)!WriteProtocol(a)
    PROVE  LoopKept(T, H)
<1> PICK j, r : j = job[a] /\ r = Proto(T, H, V, C, M, F)!Rest(a)
  OBVIOUS
<1> PICK h, e, y : h = Head(j.todo) /\ e = End(j.todo) /\ y = j.todo[2]
  OBVIOUS
<1>1. /\ j \in LoopJobs /\ Shape(j.todo) /\ j # NoLoopJob /\ j.todo # << >> /\ h[1] = "writedoc"
      /\ h \in FileSteps /\ r \in LoopJobs /\ Stepped(j, r)
  BY RestOf DEF Proto!WriteProtocol
<1>2. \/ e = "init" /\ y = <<"count", "init">>
      \/ e = "put" /\ y = <<"summarize", "none">>
      \/ e \in {"update", "activate", "close"} /\ y = <<"read", e>>
  BY <1>1, AfterDocument DEF Follows
<1>3. /\ Shape(r.todo) /\ r.todo # << >> /\ End(r.todo) = e
      /\ \/ e = "init" /\ Head(r.todo) = <<"count", "init">>
         \/ e = "put" /\ Head(r.todo) = <<"summarize", "none">>
         \/ e \in {"update", "activate", "close"} /\ Head(r.todo) = <<"read", e>>
      /\ r.snap = j.snap /\ r.proto = j.proto /\ r.status = j.status
  BY <1>1 DEF Stepped, Follows
<1>4. y = <<"count", "init">> <=> e = "init"
  <2>1. y = <<"count", "init">> => y[1] = "count"
    BY StepIs
  <2>2. y = <<"summarize", "none">> => y[1] = "summarize"
    BY StepIs
  <2>3. y = <<"read", e>> => y[1] = "read"
    BY StepIs
  <2> QED
    BY <1>2, <2>1, <2>2, <2>3
<1>5. /\ job' = [job EXCEPT ![a] = r] /\ UNCHANGED <<st, events, torn>> /\ doc' = j.proto
      /\ answered' = (answered /\ e # "init") /\ closed' = (closed /\ e \notin {"activate", "init"})
  <2>1. /\ job' = [job EXCEPT ![a] = r] /\ UNCHANGED <<st, events, torn>> /\ doc' = j.proto
        /\ answered' = (answered /\ y # <<"count", "init">>)
    BY DEF Proto!WriteProtocol, Proto!Advance
  <2>2. closed' = (closed /\ e \notin {"activate", "init"})
    BY DEF Proto!WriteProtocol, End
  <2> QED
    BY <1>4, <2>1, <2>2
<1>6. \/ e = "init" /\ Head(r.todo)[1] = "count" /\ Head(r.todo)[2] = "init"
      \/ e = "put" /\ Head(r.todo)[1] = "summarize" /\ Head(r.todo)[2] = "none"
      \/ e \in {"update", "activate", "close"} /\ Head(r.todo)[1] = "read" /\ Head(r.todo)[2] = e
  BY <1>3, StepIs
<1>7. h[2] = "none"
  BY <1>1, StepNames
<1>8. LoopType' /\ job'[a] = r /\ \A b \in LoopActors : b # a => job'[b] = job[b]
  <2>1. /\ st' \in LoopStates /\ events' \in Nat
        /\ torn' \in BOOLEAN /\ answered' \in BOOLEAN /\ closed' \in BOOLEAN
    BY <1>5 DEF LoopType
  <2>2. doc' \in LoopTexts
    <3>1. j.proto \in LoopTexts
      BY <1>1 DEF LoopJobs
    <3> QED
      BY <1>5, <3>1
  <2> QED
    BY <1>1, <1>3, <1>5, <2>1, <2>2, TypeMoves
<1>9. Calibrated => Calibrated'
  <2>1. /\ j.todo # << >> /\ Head(j.todo)[1] = "writedoc" /\ Head(j.todo)[2] = "none"
        /\ e \in {"init", "put", "update", "activate", "close"} /\ Head(r.todo)[1] # "writedoc"
        /\ UNCHANGED st
    BY <1>1, <1>5, <1>6, <1>7
  <2> QED
    BY <1>3, <1>5, <1>8, <2>1, DocumentSound
<1>10. ASSUME OneAtWork
       PROVE  OneAtWork' /\ (Mirrored => Mirrored') /\ (StaysClosed => StaysClosed')
  <2>1. /\ OneAtWork' /\ MirrorOf(r)' => Mirrored'
        /\ (closed' => (st').found /\ Down((st').status)) /\ KeepsShut(r)' => StaysClosed'
    BY <1>1, <1>8, <1>10, AloneMoves
  <2>2. OneAtWork'
    BY <1>1, <1>8, <1>10, AloneMoves
  <2>3. ASSUME Mirrored PROVE MirrorOf(r)'
    <3>1. MirrorOf(j)
      <4>1. \A b \in LoopActors : b # a => job[b] = NoLoopJob
        BY <1>1, <1>10 DEF OneAtWork
      <4> QED
        BY <2>3, <4>1 DEF Mirrored
    <3>2. st.found => st.seq = events
      BY <1>1, <3>1 DEF MirrorOf, Behind
    <3>3. ~Behind(Head(r.todo)) /\ Head(r.todo)[1] # "append"
      BY <1>6 DEF Behind, CountFirst
    <3> QED
      BY <1>5, <3>2, <3>3 DEF MirrorOf
  <2>4. ASSUME StaysClosed
        PROVE  (closed' => (st').found /\ Down((st').status)) /\ KeepsShut(r)'
    <3>1. KeepsShut(j)
      BY <2>4 DEF StaysClosed
    <3>2. /\ e \in {"init", "update", "close"} => j.proto.found /\ j.proto.status \in {"draft", "closed"}
          /\ e = "put" => j.proto.found
      BY <1>1, <3>1 DEF KeepsShut
    <3>3. Head(r.todo) = <<"read", "update">> => doc'.status \in {"draft", "closed"}
      <4>1. Head(r.todo) = <<"read", "update">> => Head(r.todo)[2] = "update"
        BY StepIs
      <4> QED
        BY <1>5, <1>6, <3>2, <4>1
    <3>4. e # "delete" /\ (Head(r.todo)[2] = "init" => ~closed')
      BY <1>5, <1>6
    <3>5. KeepsShut(r)'
      BY <1>3, <1>6, <3>2, <3>3, <3>4 DEF KeepsShut, ReadFirst
    <3> QED
      BY <1>5, <2>4, <3>5 DEF StaysClosed
  <2> QED
    BY <2>1, <2>2, <2>3, <2>4
<1> QED
  BY <1>8, <1>9, <1>10 DEF LoopKept

\* The status an operation leaves in the state it read.
StatusAfter(op, u, j) ==
    IF op = "init" THEN "draft"
    ELSE IF op = "update" THEN IF j.status = "none" THEN u ELSE j.status
    ELSE IF op = "activate" THEN "running"
    ELSE IF op = "close" THEN "closed"
    ELSE IF op \in {"put", "delete"} THEN IF j.status # "none" THEN j.status ELSE u
    ELSE u

\* What a written state is, as far as a calibration and a closing go.
RecordsOf(op, n, j, z) ==
    /\ z \in LoopStates /\ z.found = n.found
    /\ z.a = (IF op = "answer" THEN n.a + 1 ELSE n.a)
    /\ z.status = StatusAfter(op, n.status, j)

WithStatus(n, u, v) == [n EXCEPT !.status = u, !.full = v]

LEMMA RecordStatus ==
    ASSUME NEW n \in LoopStates, NEW u \in LoopStatuses, NEW v \in BOOLEAN, NEW z,
           z = WithStatus(n, u, v)
    PROVE  z \in LoopStates /\ z.found = n.found /\ z.a = n.a /\ z.status = u
<1>1. z \in LoopStates
  BY DEF LoopStates, WithStatus
<1> QED
  BY <1>1 DEF LoopStates, WithStatus

LEMMA RecordedIs ==
    ASSUME NEW T, NEW H, NEW V, NEW C, NEW M, NEW F,
           NEW n \in LoopStates, NEW j \in LoopJobs, NEW op \in CountFirst \cup ReadFirst,
           NEW z, z = Proto(T, H, V, C, M, F)!Recorded(op, n, j)
    PROVE  RecordsOf(op, n, j, z)
<1>1. /\ n.status \in LoopStatuses /\ j.status \in LoopStatuses /\ j.mode \in LoopModes
      /\ n.full \in BOOLEAN /\ n.q \in Nat /\ n.a \in Nat /\ n.feeds \in Nat
  BY DEF LoopStates, LoopJobs
<1>2. {"draft", "running", "closed"} \subseteq LoopStatuses
  BY DEF LoopStatuses
<1>3. CASE op = "init"
  <2>1. z = [n EXCEPT !.status = "draft"]
    BY <1>3 DEF Proto!Recorded
  <2>2. z \in LoopStates
    BY <1>1, <1>2, <2>1 DEF LoopStates
  <2>3. z.found = n.found /\ z.a = (IF op = "answer" THEN n.a + 1 ELSE n.a)
    BY <1>3, <2>1 DEF LoopStates
  <2>4. z.status = StatusAfter(op, n.status, j)
    BY <1>3, <2>1 DEF LoopStates, StatusAfter
  <2> QED
    BY <2>2, <2>3, <2>4 DEF RecordsOf
<1>4. CASE op = "question"
  <2>1. z = [n EXCEPT !.q = n.q + 1]
    BY <1>4 DEF Proto!Recorded, Proto!RecordProtocolCalibrationQuestion
  <2>2. z \in LoopStates
    BY <1>1, <1>2, <2>1 DEF LoopStates
  <2>3. z.found = n.found /\ z.a = (IF op = "answer" THEN n.a + 1 ELSE n.a)
    BY <1>4, <2>1 DEF LoopStates
  <2>4. z.status = StatusAfter(op, n.status, j)
    BY <1>4, <2>1 DEF LoopStates, StatusAfter
  <2> QED
    BY <2>2, <2>3, <2>4 DEF RecordsOf
<1>5. CASE op = "answer"
  <2>1. z = [n EXCEPT !.a = n.a + 1]
    BY <1>5 DEF Proto!Recorded, Proto!RecordProtocolCalibrationAnswer
  <2>2. z \in LoopStates
    BY <1>1, <1>2, <2>1 DEF LoopStates
  <2>3. z.found = n.found /\ z.a = (IF op = "answer" THEN n.a + 1 ELSE n.a)
    BY <1>5, <2>1 DEF LoopStates
  <2>4. z.status = StatusAfter(op, n.status, j)
    BY <1>5, <2>1 DEF LoopStates, StatusAfter
  <2> QED
    BY <2>2, <2>3, <2>4 DEF RecordsOf
<1>6. CASE op = "update"
  <2>1. z = [n EXCEPT !.status = IF j.status = "none" THEN n.status ELSE j.status, !.full = n.full \/ j.status \in {"none", "running"}]
    BY <1>6 DEF Proto!Recorded, Proto!RecordProtocolUpdate
  <2>2. \E u \in LoopStatuses, v \in BOOLEAN :
           z = WithStatus(n, u, v) /\ u = StatusAfter(op, n.status, j)
    <3> PICK u, v : u = (IF j.status = "none" THEN n.status ELSE j.status) /\ v = (n.full \/ j.status \in {"none", "running"})
      OBVIOUS
    <3>1. u \in LoopStatuses /\ v \in BOOLEAN /\ z = WithStatus(n, u, v)
      BY <1>1, <1>2, <2>1 DEF WithStatus
    <3>2. u = StatusAfter(op, n.status, j)
      BY <1>6 DEF StatusAfter
    <3> QED
      BY <3>1, <3>2
  <2>3. op # "answer"
    BY <1>6
  <2> QED
    BY <2>2, <2>3, RecordStatus DEF RecordsOf
<1>7. CASE op = "activate"
  <2>1. z = [n EXCEPT !.status = "running", !.full = TRUE]
    BY <1>7 DEF Proto!Recorded, Proto!RecordProtocolActivation
  <2>2. \E u \in LoopStatuses, v \in BOOLEAN :
           z = WithStatus(n, u, v) /\ u = StatusAfter(op, n.status, j)
    <3> PICK u, v : u = "running" /\ v = TRUE
      OBVIOUS
    <3>1. u \in LoopStatuses /\ v \in BOOLEAN /\ z = WithStatus(n, u, v)
      BY <1>1, <1>2, <2>1 DEF WithStatus
    <3>2. u = StatusAfter(op, n.status, j)
      BY <1>7 DEF StatusAfter
    <3> QED
      BY <3>1, <3>2
  <2>3. op # "answer"
    BY <1>7
  <2> QED
    BY <2>2, <2>3, RecordStatus DEF RecordsOf
<1>8. CASE op = "close"
  <2>1. z = [n EXCEPT !.status = "closed", !.full = FALSE]
    BY <1>8 DEF Proto!Recorded, Proto!RecordProtocolStatus
  <2>2. \E u \in LoopStatuses, v \in BOOLEAN :
           z = WithStatus(n, u, v) /\ u = StatusAfter(op, n.status, j)
    <3> PICK u, v : u = "closed" /\ v = FALSE
      OBVIOUS
    <3>1. u \in LoopStatuses /\ v \in BOOLEAN /\ z = WithStatus(n, u, v)
      BY <1>1, <1>2, <2>1 DEF WithStatus
    <3>2. u = StatusAfter(op, n.status, j)
      BY <1>8 DEF StatusAfter
    <3> QED
      BY <3>1, <3>2
  <2>3. op # "answer"
    BY <1>8
  <2> QED
    BY <2>2, <2>3, RecordStatus DEF RecordsOf
<1>9. CASE op = "feed"
  <2>1. z = [n EXCEPT !.feeds = n.feeds + 1, !.mode = j.mode, !.full = n.full /\ j.mode # "full"]
    BY <1>9 DEF Proto!Recorded, Proto!RecordProtocolFeed
  <2>2. z \in LoopStates
    <3> PICK v, m, k : v = (n.full /\ j.mode # "full") /\ m = j.mode /\ k = n.feeds + 1
      OBVIOUS
    <3>1. v \in BOOLEAN /\ m \in LoopModes /\ k \in Nat
      BY <1>1
    <3>2. z = [n EXCEPT !.feeds = k, !.mode = m, !.full = v]
      BY <2>1
    <3> QED
      BY <3>1, <3>2 DEF LoopStates
  <2>3. z.found = n.found /\ z.a = (IF op = "answer" THEN n.a + 1 ELSE n.a)
    BY <1>9, <2>1 DEF LoopStates
  <2>4. z.status = StatusAfter(op, n.status, j)
    BY <1>9, <2>1 DEF LoopStates, StatusAfter
  <2> QED
    BY <2>2, <2>3, <2>4 DEF RecordsOf
<1>10. CASE op = "compaction"
  <2>1. z = [n EXCEPT !.full = n.full \/ j.mode = "reactive"]
    BY <1>10 DEF Proto!Recorded, Proto!RecordContextCompaction
  <2>2. z \in LoopStates
    BY <1>1, <1>2, <2>1 DEF LoopStates
  <2>3. z.found = n.found /\ z.a = (IF op = "answer" THEN n.a + 1 ELSE n.a)
    BY <1>10, <2>1 DEF LoopStates
  <2>4. z.status = StatusAfter(op, n.status, j)
    BY <1>10, <2>1 DEF LoopStates, StatusAfter
  <2> QED
    BY <2>2, <2>3, <2>4 DEF RecordsOf
<1>11. CASE op = "checkpoint"
  <2>1. z = n
    BY <1>11 DEF Proto!Recorded
  <2>2. z \in LoopStates
    BY <1>1, <1>2, <2>1 DEF LoopStates
  <2>3. z.found = n.found /\ z.a = (IF op = "answer" THEN n.a + 1 ELSE n.a)
    BY <1>11, <2>1 DEF LoopStates
  <2>4. z.status = StatusAfter(op, n.status, j)
    BY <1>11, <2>1 DEF LoopStates, StatusAfter
  <2> QED
    BY <2>2, <2>3, <2>4 DEF RecordsOf
<1>12. CASE op = "put"
  <2>1. z = [n EXCEPT !.status = IF j.status # "none" THEN j.status ELSE n.status, !.full = n.full \/ (IF j.status # "none" THEN j.status ELSE n.status) = "running"]
    BY <1>12 DEF Proto!Recorded, Proto!recordSessionLoopProtocolEvent
  <2>2. \E u \in LoopStatuses, v \in BOOLEAN :
           z = WithStatus(n, u, v) /\ u = StatusAfter(op, n.status, j)
    <3> PICK u, v : u = (IF j.status # "none" THEN j.status ELSE n.status) /\ v = (n.full \/ u = "running")
      OBVIOUS
    <3>1. u \in LoopStatuses /\ v \in BOOLEAN /\ z = WithStatus(n, u, v)
      BY <1>1, <1>2, <2>1 DEF WithStatus
    <3>2. u = StatusAfter(op, n.status, j)
      BY <1>12 DEF StatusAfter
    <3> QED
      BY <3>1, <3>2
  <2>3. op # "answer"
    BY <1>12
  <2> QED
    BY <2>2, <2>3, RecordStatus DEF RecordsOf
<1>13. CASE op = "delete"
  <2>1. z = [n EXCEPT !.status = IF j.status # "none" THEN j.status ELSE n.status, !.full = n.full \/ (FALSE /\ (IF j.status # "none" THEN j.status ELSE n.status) = "running")]
    BY <1>13 DEF Proto!Recorded, Proto!recordSessionLoopProtocolEvent
  <2>2. \E u \in LoopStatuses, v \in BOOLEAN :
           z = WithStatus(n, u, v) /\ u = StatusAfter(op, n.status, j)
    <3> PICK u, v : u = (IF j.status # "none" THEN j.status ELSE n.status) /\ v = (n.full \/ (FALSE /\ u = "running"))
      OBVIOUS
    <3>1. u \in LoopStatuses /\ v \in BOOLEAN /\ z = WithStatus(n, u, v)
      BY <1>1, <1>2, <2>1 DEF WithStatus
    <3>2. u = StatusAfter(op, n.status, j)
      BY <1>13 DEF StatusAfter
    <3> QED
      BY <3>1, <3>2
  <2>3. op # "answer"
    BY <1>13
  <2> QED
    BY <2>2, <2>3, RecordStatus DEF RecordsOf
<1> QED
  BY <1>3, <1>4, <1>5, <1>6, <1>7, <1>8, <1>9, <1>10, <1>11, <1>12, <1>13 DEF CountFirst, ReadFirst

\* The state as it is written, with the number of the line.
WithSeq(s, n) == [s EXCEPT !.seq = n]

Written(op, j, z) ==
    /\ z \in LoopStates /\ z.found /\ z.seq = j.seq
    /\ z.a = (IF op = "answer" THEN j.snap.a + 1 ELSE j.snap.a)
    /\ z.status = StatusAfter(op, IF j.snap.status = "none" THEN "running" ELSE j.snap.status, j)

LEMMA WrittenState ==
    ASSUME NEW T, NEW H, NEW V, NEW C, NEW M, NEW F,
           NEW j \in LoopJobs, NEW op \in CountFirst \cup ReadFirst, NEW z,
           z = WithSeq(Proto(T, H, V, C, M, F)!Recorded(
                  op, Proto(T, H, V, C, M, F)!normalizeStateForProtocol(j.snap), j), j.seq)
    PROVE  Written(op, j, z)
<1> PICK s, l : s = j.snap /\ l = j.seq
  OBVIOUS
<1>1. s \in LoopStates /\ l \in Nat
  BY DEF LoopJobs
<1> PICK n : n = Proto(T, H, V, C, M, F)!normalizeStateForProtocol(s)
  OBVIOUS
<1>2. /\ n \in LoopStates /\ n.found /\ n.a = s.a
      /\ n.status = (IF s.status = "none" THEN "running" ELSE s.status)
  <2> PICK u : u = IF s.status = "none" THEN "running" ELSE s.status
    OBVIOUS
  <2>1. n = [s EXCEPT !.found = TRUE, !.status = u]
    BY DEF Proto!normalizeStateForProtocol
  <2>2. u \in LoopStatuses
    BY <1>1 DEF LoopStates, LoopStatuses
  <2>3. n \in LoopStates
    BY <1>1, <2>1, <2>2 DEF LoopStates
  <2>4. n.found /\ n.a = s.a /\ n.status = u
    BY <1>1, <2>1 DEF LoopStates
  <2> QED
    BY <2>3, <2>4
<1> PICK y : y = Proto(T, H, V, C, M, F)!Recorded(op, n, j)
  OBVIOUS
<1>3. RecordsOf(op, n, j, y)
  BY <1>2, RecordedIs
<1>4. z = [y EXCEPT !.seq = l]
  BY DEF WithSeq
<1>5. y \in LoopStates
  BY <1>3 DEF RecordsOf
<1>6. z \in LoopStates /\ z.seq = l
  BY <1>1, <1>4, <1>5 DEF LoopStates
<1>7. z.found = y.found /\ z.a = y.a /\ z.status = y.status
  BY <1>4, <1>5 DEF LoopStates
<1> QED
  BY <1>2, <1>3, <1>6, <1>7 DEF RecordsOf, Written

LEMMA WriteStateKeeps ==
    ASSUME NEW T, NEW H, NEW V, NEW C, NEW M, NEW F, NEW a \in LoopActors, LoopType,
           Proto(T, H, V, C, M, F)!WriteState(a)
    PROVE  LoopKept(T, H)
<1> PICK j, r : j = job[a] /\ r = Proto(T, H, V, C, M, F)!Rest(a)
  OBVIOUS
<1> PICK h, e, op : h = Head(j.todo) /\ e = End(j.todo) /\ op = h[2]
  OBVIOUS
<1>1. /\ j \in LoopJobs /\ Shape(j.todo) /\ j # NoLoopJob /\ j.todo # << >> /\ h[1] = "write"
      /\ h \in FileSteps /\ r \in LoopJobs /\ Stepped(j, r)
  BY RestOf DEF Proto!WriteState
<1>2. op \in CountFirst \cup ReadFirst /\ op # "none"
  BY <1>1, StepNames
<1>3. /\ job' = [job EXCEPT ![a] = r] /\ UNCHANGED <<doc, events, torn>>
      /\ answered' = (answered \/ op = "answer")
      /\ closed' = ((closed \/ op = "close") /\ op # "activate")
  BY DEF Proto!WriteState, Proto!Advance, Proto!OpAt
<1> PICK z : z = st'
  OBVIOUS
<1>4. /\ z \in LoopStates /\ z.found /\ z.seq = j.seq
      /\ z.a = (IF op = "answer" THEN j.snap.a + 1 ELSE j.snap.a)
      /\ z.status = StatusAfter(op, IF j.snap.status = "none" THEN "running" ELSE j.snap.status, j)
  <2>1. z = WithSeq(Proto(T, H, V, C, M, F)!Recorded(
               op, Proto(T, H, V, C, M, F)!normalizeStateForProtocol(j.snap), j), j.seq)
    BY DEF WithSeq, Proto!WriteState, Proto!OpAt
  <2> QED
    <3>1. Written(op, j, z)
      BY <1>1, <1>2, <2>1, WrittenState
    <3> QED
      BY <3>1 DEF Written
<1>5. \/ r = NoLoopJob
      \/ /\ Shape(r.todo) /\ r.todo # << >> /\ End(r.todo) = e
         /\ Head(r.todo) = <<"read", "answer">> \/ Head(r.todo) = <<"ready", "none">>
         /\ r.snap = j.snap /\ r.proto = j.proto /\ r.status = j.status /\ r.seq = j.seq
  <2>1. CASE r = NoLoopJob
    BY <2>1
  <2>2. CASE r # NoLoopJob
    <3>1. /\ Shape(r.todo) /\ r.todo # << >> /\ End(r.todo) = e
          /\ r.snap = j.snap /\ r.proto = j.proto /\ r.status = j.status /\ r.seq = j.seq
          /\ Follows(h, Head(r.todo), e)
      BY <1>1, <2>2 DEF Stepped
    <3>2. /\ Head(r.todo) = <<"read", "answer">> \/ Head(r.todo) = <<"ready", "none">>
      BY <1>1, <3>1 DEF Follows
    <3> QED
      BY <3>1, <3>2
  <2> QED
    BY <2>1, <2>2
<1>6. \/ r = NoLoopJob
      \/ /\ Head(r.todo)[1] = "read" /\ Head(r.todo)[2] = "answer"
      \/ /\ Head(r.todo)[1] = "ready" /\ Head(r.todo)[2] = "none"
  BY <1>5, StepIs
<1>7. LoopType' /\ job'[a] = r /\ \A b \in LoopActors : b # a => job'[b] = job[b]
  <2>1. /\ doc' \in LoopTexts /\ events' \in Nat /\ st' \in LoopStates
        /\ torn' \in BOOLEAN /\ answered' \in BOOLEAN /\ closed' \in BOOLEAN
    BY <1>3, <1>4 DEF LoopType
  <2>2. r = NoLoopJob \/ Shape(r.todo)
    BY <1>5
  <2> QED
    BY <1>1, <1>3, <2>1, <2>2, TypeMoves
<1>8. ASSUME Calibrated PROVE Calibrated'
  <2>1. Honest(a, j) /\ Counts(j.snap) /\ doc.found
    <3>1. Honest(a, j)
      BY <1>8 DEF Calibrated
    <3> QED
      BY <1>1, <1>2, <3>1 DEF Honest
  <2>2. Counts(st)'
    <3>1. Counts(z)'
      <4>1. z.found /\ doc'.found
        BY <1>3, <1>4, <2>1
      <4>2. z.a > 0 => answered'
        BY <1>3, <1>4, <2>1 DEF Counts
      <4> QED
        BY <4>1, <4>2 DEF Counts
    <3> QED
      BY <3>1 DEF Counts
  <2>3. ASSUME NEW s, Counts(s) PROVE Counts(s)'
    BY <1>3, <2>3 DEF Counts
  <2>4. doc'.found /\ doc'.status \in {"none", "running"} => answered'
    BY <1>3, <1>8 DEF Calibrated
  <2>5. ASSUME NEW b \in LoopActors PROVE Honest(b, job[b])'
    <3>1. CASE b = a
      <4>1. Honest(a, r)'
        <5>1. CASE r = NoLoopJob
          BY <5>1, NoJob DEF Honest, Counts, NoLoopState
        <5>2. CASE r # NoLoopJob
          <6>1. Counts(r.snap)'
            BY <1>5, <2>1, <2>3, <5>2 DEF Counts
          <6>2. e \notin {"put", "delete"} /\ (a = "http" => e \notin {"init", "update", "close"})
            BY <1>1, <2>1 DEF Honest
          <6>3. /\ e = "activate" => j.proto.found
                /\ e \in {"init", "update", "close"} =>
                     j.proto.found /\ j.proto.status \in {"draft", "closed"}
            BY <1>1, <2>1 DEF Honest
          <6> QED
            BY <1>3, <1>5, <1>6, <2>1, <5>2, <6>1, <6>2, <6>3 DEF Honest
        <5> QED
          BY <5>1, <5>2
      <4> QED
        BY <1>7, <3>1, <4>1 DEF Honest, Counts
    <3>2. CASE b # a
      <4> PICK o : o = job[b]
        OBVIOUS
      <4>1. Honest(b, o) /\ job'[b] = o
        BY <1>7, <1>8, <3>2 DEF Calibrated
      <4>2. Counts(o.snap)'
        BY <2>3, <4>1 DEF Honest, Counts
      <4>3. Honest(b, o)'
        BY <1>3, <4>1, <4>2 DEF Honest
      <4> QED
        BY <4>1, <4>3 DEF Honest, Counts
    <3> QED
      BY <3>1, <3>2
  <2> QED
    BY <2>2, <2>4, <2>5 DEF Calibrated
<1>9. ASSUME OneAtWork
      PROVE  OneAtWork' /\ (Mirrored => Mirrored') /\ (StaysClosed => StaysClosed')
  <2>1. /\ OneAtWork' /\ MirrorOf(r)' => Mirrored'
        /\ (closed' => (st').found /\ Down((st').status)) /\ KeepsShut(r)' => StaysClosed'
    BY <1>1, <1>7, <1>9, AloneMoves
  <2>2. OneAtWork'
    BY <1>1, <1>7, <1>9, AloneMoves
  <2>3. ASSUME Mirrored PROVE MirrorOf(r)'
    <3>1. MirrorOf(j)
      <4>1. \A b \in LoopActors : b # a => job[b] = NoLoopJob
        BY <1>1, <1>9 DEF OneAtWork
      <4> QED
        BY <2>3, <4>1 DEF Mirrored
    <3>2. z.seq = events'
      BY <1>1, <1>3, <1>4, <3>1 DEF MirrorOf, Behind
    <3>3. r.todo # << >> => ~Behind(Head(r.todo)) /\ Head(r.todo)[1] # "append"
      BY <1>6, NoJob DEF Behind, CountFirst
    <3> QED
      BY <3>2, <3>3 DEF MirrorOf
  <2>4. ASSUME StaysClosed
        PROVE  (closed' => (st').found /\ Down((st').status)) /\ KeepsShut(r)'
    <3>1. KeepsShut(j)
      BY <2>4 DEF StaysClosed
    <3>2. /\ op = "update" => j.status \in {"draft", "closed"}
          /\ op = "init" => ~closed
          /\ closed /\ op \in ReadFirst => j.snap.found /\ Down(j.snap.status)
          /\ closed /\ op \in {"put", "delete"} => Down(j.status)
      BY <1>1, <1>2, <3>1 DEF KeepsShut
    <3>3. closed' => Down(z.status)
      <4>1. closed' => op # "activate" /\ (closed \/ op = "close")
        BY <1>3
      <4>2. op = "close" => z.status = "closed"
        BY <1>4 DEF StatusAfter
      <4>3. op = "update" => z.status = j.status
        BY <1>4, <3>2 DEF StatusAfter
      <4>4. closed /\ op \in {"put", "delete"} => z.status = j.status
        BY <1>4, <3>2 DEF StatusAfter, Down
      <4>5. closed /\ op \in ReadFirst \ {"update", "close", "activate"} => z.status = j.snap.status
        BY <1>4, <3>2 DEF StatusAfter, Down, ReadFirst
      <4> QED
        BY <1>2, <3>2, <4>1, <4>2, <4>3, <4>4, <4>5 DEF Down, CountFirst
    <3>4. KeepsShut(r)'
      <4>1. CASE r = NoLoopJob
        BY <4>1, NoJob DEF KeepsShut
      <4>2. CASE r # NoLoopJob
        <5>1. Head(r.todo) # <<"read", "update">>
          <6>1. Head(r.todo) = <<"read", "update">> => Head(r.todo)[2] = "update"
            BY StepIs
          <6> QED
            BY <1>6, <4>2, <6>1
        <5>2. /\ e = "delete" => j.status = "disabled"
              /\ e \in {"init", "update", "close"} => j.proto.found /\ j.proto.status \in {"draft", "closed"}
              /\ e = "put" => j.proto.found
          BY <1>1, <3>1 DEF KeepsShut
        <5> QED
          BY <1>5, <1>6, <4>2, <5>1, <5>2 DEF KeepsShut, ReadFirst
      <4> QED
        BY <4>1, <4>2
    <3> QED
      BY <1>4, <3>3, <3>4
  <2> QED
    BY <2>1, <2>2, <2>3, <2>4
<1> QED
  BY <1>7, <1>8, <1>9 DEF LoopKept

\* The process dies: nobody is at work, and the files stay.
LEMMA LoopCrashKeeps ==
    ASSUME NEW T, NEW H, NEW V, NEW C, NEW M, NEW F, LoopType,
           Proto(T, H, V, C, M, F)!Crash
    PROVE  C /\ LoopType' /\ (Calibrated => Calibrated')
<1>1. /\ C /\ job' = [a \in LoopActors |-> NoLoopJob]
      /\ torn' \in {torn} \cup {TRUE : a \in {b \in LoopActors : Proto(T, H, V, C, M, F)!At(b, "append")}}
      /\ UNCHANGED <<doc, st, events, answered, closed>>
  BY LoopConstants DEF Proto!Crash
<1>2. torn' \in BOOLEAN
  BY <1>1 DEF LoopType
<1>3. job' \in [LoopActors -> LoopJobs] /\ \A a \in LoopActors : job'[a] = NoLoopJob
  BY <1>1, NoJob
<1>4. LoopType'
  BY <1>1, <1>2, <1>3 DEF LoopType
<1>5. ASSUME Calibrated PROVE Calibrated'
  <2>1. \A a \in LoopActors : Honest(a, job[a])'
    BY <1>3, NoJob DEF Honest, Counts, NoLoopState
  <2> QED
    BY <1>1, <1>5, <2>1 DEF Calibrated, Counts
<1> QED
  BY <1>1, <1>4, <1>5

\* Whatever the two actors may do, and whether or not they overlap or die.
LEMMA LoopKeeps ==
    ASSUME NEW T, NEW H, NEW V, NEW C, NEW M, NEW F, LoopType,
           Proto(T, H, V, C, M, F)!Next
    PROVE  /\ LoopType'
           /\ T \cap {"put", "delete"} = {} /\ H \cap (CountFirst \cup Setters) = {} /\ Calibrated => Calibrated'
           /\ ~V /\ ~C => /\ OneAtWork => OneAtWork'
                          /\ OneAtWork /\ Mirrored => Mirrored'
                          /\ OneAtWork /\ StaysClosed => StaysClosed'
<1>1. CASE Proto(T, H, V, C, M, F)!Crash
  BY <1>1, LoopCrashKeeps
<1>2. CASE ~Proto(T, H, V, C, M, F)!Crash
  <2>1. PICK a \in LoopActors :
          \/ Proto(T, H, V, C, M, F)!StartInit(a) \/ Proto(T, H, V, C, M, F)!StartQuestion(a)
          \/ Proto(T, H, V, C, M, F)!StartAnswer(a) \/ Proto(T, H, V, C, M, F)!StartPatch(a)
          \/ Proto(T, H, V, C, M, F)!StartUpdate(a) \/ Proto(T, H, V, C, M, F)!StartActivate(a)
          \/ Proto(T, H, V, C, M, F)!StartClose(a) \/ Proto(T, H, V, C, M, F)!StartFeed(a)
          \/ \E kind \in {"reactive", "proactive"} : Proto(T, H, V, C, M, F)!StartCompaction(a, kind)
          \/ Proto(T, H, V, C, M, F)!StartCheckpoint(a) \/ Proto(T, H, V, C, M, F)!StartPut(a)
          \/ Proto(T, H, V, C, M, F)!StartDelete(a)
          \/ Proto(T, H, V, C, M, F)!WriteProtocol(a) \/ Proto(T, H, V, C, M, F)!RemoveProtocol(a)
          \/ Proto(T, H, V, C, M, F)!SummarizeFile(a) \/ Proto(T, H, V, C, M, F)!ReadState(a)
          \/ Proto(T, H, V, C, M, F)!CountEvents(a) \/ Proto(T, H, V, C, M, F)!AppendEvent(a)
          \/ Proto(T, H, V, C, M, F)!WriteState(a)
          \/ Proto(T, H, V, C, M, F)!RepairRecordedCalibrationFromProtocol(a)
          \/ Proto(T, H, V, C, M, F)!ValidateProtocolActivationReady(a)
          \/ Proto(T, H, V, C, M, F)!DecideFeed(a)
    BY <1>2, LoopConstants DEF Proto!Next
  <2>2. doc \in LoopTexts
    BY DEF LoopType
  <2>3. Proto(T, H, V, C, M, F)!OpsOf(a) = OpsFor(a, T, H)
    BY DEF OpsFor, Proto!OpsOf
  <2>4. CASE Starts(OpsFor(a, T, H), V, a)
    BY <2>4, StartsKeep
  <2>5. CASE LoopKept(T, H)
    BY <2>5 DEF LoopKept
  <2>6. CASE Proto(T, H, V, C, M, F)!StartInit(a)
    BY <2>3, <2>4, <2>6, StartInit
  <2>7. CASE Proto(T, H, V, C, M, F)!StartQuestion(a)
    BY <2>3, <2>4, <2>7, StartQuestion
  <2>8. CASE Proto(T, H, V, C, M, F)!StartAnswer(a)
    BY <2>3, <2>4, <2>8, StartAnswer
  <2>9. CASE Proto(T, H, V, C, M, F)!StartPatch(a)
    BY <2>3, <2>4, <2>9, StartPatch
  <2>10. CASE Proto(T, H, V, C, M, F)!StartUpdate(a)
    BY <2>3, <2>4, <2>10, StartUpdate
  <2>11. CASE Proto(T, H, V, C, M, F)!StartActivate(a)
    BY <2>2, <2>3, <2>4, <2>11, StartActivate
  <2>12. CASE Proto(T, H, V, C, M, F)!StartClose(a)
    BY <2>2, <2>3, <2>4, <2>12, StartClose
  <2>13. CASE Proto(T, H, V, C, M, F)!StartFeed(a)
    BY <2>3, <2>4, <2>13, StartFeed
  <2>14. CASE \E kind \in {"reactive", "proactive"} : Proto(T, H, V, C, M, F)!StartCompaction(a, kind)
    BY <2>3, <2>4, <2>14, StartCompaction
  <2>15. CASE Proto(T, H, V, C, M, F)!StartCheckpoint(a)
    BY <2>3, <2>4, <2>15, StartCheckpoint
  <2>16. CASE Proto(T, H, V, C, M, F)!StartPut(a)
    BY <2>3, <2>4, <2>16, StartPut
  <2>17. CASE Proto(T, H, V, C, M, F)!StartDelete(a)
    BY <2>3, <2>4, <2>17, StartDelete
  <2>18. CASE Proto(T, H, V, C, M, F)!WriteProtocol(a) \/ Proto(T, H, V, C, M, F)!RemoveProtocol(a)
              \/ Proto(T, H, V, C, M, F)!SummarizeFile(a) \/ Proto(T, H, V, C, M, F)!ReadState(a)
    BY <2>5, <2>18, WriteDocKeeps, RemoveKeeps, SummarizeKeeps, ReadKeeps
  <2>19. CASE Proto(T, H, V, C, M, F)!CountEvents(a) \/ Proto(T, H, V, C, M, F)!AppendEvent(a)
              \/ Proto(T, H, V, C, M, F)!WriteState(a)
    BY <2>5, <2>19, CountKeeps, AppendKeeps, WriteStateKeeps
  <2>20. CASE \/ Proto(T, H, V, C, M, F)!RepairRecordedCalibrationFromProtocol(a)
              \/ Proto(T, H, V, C, M, F)!ValidateProtocolActivationReady(a)
              \/ Proto(T, H, V, C, M, F)!DecideFeed(a)
    BY <2>5, <2>20, RepairKeeps, ReadyKeeps, DecideKeeps
  <2> QED
    BY <2>1, <2>6, <2>7, <2>8, <2>9, <2>10, <2>11, <2>12, <2>13, <2>14, <2>15, <2>16, <2>17,
       <2>18, <2>19, <2>20
<1> QED
  BY <1>1, <1>2

LoopVars == <<doc, st, events, torn, job, answered, closed>>

LEMMA LoopRest ==
    ASSUME UNCHANGED LoopVars
    PROVE  /\ LoopType => LoopType' /\ (Calibrated => Calibrated')
           /\ (OneAtWork => OneAtWork') /\ (Mirrored => Mirrored') /\ (StaysClosed => StaysClosed')
<1>1. /\ UNCHANGED doc /\ UNCHANGED st /\ UNCHANGED events /\ UNCHANGED torn /\ UNCHANGED job
      /\ UNCHANGED answered /\ UNCHANGED closed
  BY DEF LoopVars
<1>2. LoopType => LoopType'
  BY <1>1 DEF LoopType
<1>3. Calibrated => Calibrated'
  BY <1>1 DEF Calibrated, Honest, Counts
<1>4. OneAtWork => OneAtWork'
  BY <1>1 DEF OneAtWork
<1>5. Mirrored => Mirrored'
  BY <1>1 DEF Mirrored, MirrorOf
<1>6. StaysClosed => StaysClosed'
  BY <1>1 DEF StaysClosed, KeepsShut
<1> QED
  BY <1>2, <1>3, <1>4, <1>5, <1>6

LEMMA LoopStart ==
    ASSUME NEW T, NEW H, NEW V, NEW C, NEW M, NEW F, Proto(T, H, V, C, M, F)!Init
    PROVE  LoopType /\ Calibrated /\ OneAtWork /\ Mirrored /\ StaysClosed
<1>1. /\ doc = NoLoopText /\ st = NoLoopState /\ events = 0 /\ torn = FALSE
      /\ job = [a \in LoopActors |-> NoLoopJob] /\ answered = FALSE /\ closed = FALSE
  BY LoopConstants DEF Proto!Init
<1>2. \A a \in LoopActors : job[a] = NoLoopJob
  BY <1>1
<1>3. LoopType
  BY <1>1, NoJob, LoopValues DEF LoopType
<1>4. Counts(st) /\ ~doc.found /\ ~st.found
  BY <1>1 DEF Counts, NoLoopState, NoLoopText
<1>5. Calibrated
  BY <1>2, <1>4, NoJobSound DEF Calibrated
<1>6. OneAtWork
  BY <1>2 DEF OneAtWork
<1>7. Mirrored
  BY <1>2, <1>4, NoJobSound DEF Mirrored
<1>8. StaysClosed
  BY <1>1, <1>2, NoJobSound DEF StaysClosed
<1> QED
  BY <1>3, <1>5, <1>6, <1>7, <1>8

LEMMA LoopMeans ==
    ASSUME NEW T, NEW H, NEW V, NEW C, NEW M, NEW F
    PROVE  /\ Calibrated => Proto(T, H, V, C, M, F)!ActiveCalibrated
           /\ Mirrored => Proto(T, H, V, C, M, F)!MirrorsLatest
           /\ StaysClosed => Proto(T, H, V, C, M, F)!ClosedStaysClosed
<1>1. Calibrated => Proto(T, H, V, C, M, F)!ActiveCalibrated
  BY DEF Calibrated, Proto!ActiveCalibrated, Proto!Active
<1>2. Mirrored => Proto(T, H, V, C, M, F)!MirrorsLatest
  <2>1. ASSUME Mirrored, \A a \in LoopActors : job[a] = NoLoopJob, st.found PROVE st.seq = events
    <3>1. MirrorOf(job["turn"]) /\ job["turn"] = NoLoopJob
      BY <2>1 DEF Mirrored, LoopActors
    <3> QED
      BY <2>1, <3>1, NoJob DEF MirrorOf
  <2> QED
    BY <2>1, LoopConstants DEF Proto!MirrorsLatest
<1>3. StaysClosed => Proto(T, H, V, C, M, F)!ClosedStaysClosed
  BY DEF StaysClosed, Down, Proto!ClosedStaysClosed, Proto!Active
<1> QED
  BY <1>1, <1>2, <1>3
-----------------------------------------------------------------------------
(* The behaviours of MCStores: in its scene, a component behaves as alone. *)

\* A behaviour keeps its scene.
LEMMA SceneKept ==
    [Next]_vars => scene' = scene
  BY DEF Next, Kept, Stop, vars

\* SlotRunsOnce of MCStores: for any number of schedules and turns, any
\* intervals and delays, and any edits and restarts.
THEOREM SlotRunsOnceInScene ==
    Spec => SlotRunsOnce
<1>1. Init => (scene = "schedules" => Sched!Init)
  BY DEF Init
<1>2. [Next]_vars => (scene = "schedules" => [Sched!Next]_(Sched!vars))
  BY DEF Next, Stop, vars, Sched!vars
<1>3. [Next]_vars => ((scene = "schedules") <=> (scene = "schedules")')
  BY SceneKept
<1>4. Sched!Spec => [][Sched!SlotRunsOnce /\ Sched!MovesPastClaim]_(Sched!vars)
  BY MCStoresAssumption, SlotRunsOnceCorrect DEF MCStoresAssumption
<1>5. Sched!Spec => []Sched!QuietIsClean
  BY MCStoresAssumption, QuietIsCleanCorrect DEF MCStoresAssumption
<1>6. [Next]_vars /\ scene = "schedules" /\ UNCHANGED Sched!vars => UNCHANGED vars
  BY DEF Next, Kept, vars, Sched!vars
<1> QED
  BY <1>1, <1>2, <1>3, <1>4, <1>5, <1>6, PTL DEF Spec, Sched!Spec, SlotRunsOnce

\* KeyKept of MCStores: for any callers and any number of keys.
THEOREM KeyKeptInScenes ==
    Spec => []KeyKept
<1>1. Init => /\ scene = "account_legacy" => Key(KeyReaders, "pair", FALSE, FALSE)!Init
              /\ scene = "account_fresh" => Key(KeyReaders, "none", TRUE, TRUE)!Init
              /\ scene = "account_faulty" => Key({}, "pair", TRUE, TRUE)!Init
  BY DEF Init
<1>2. [Next]_vars =>
        /\ scene = "account_legacy" =>
             [Key(KeyReaders, "pair", FALSE, FALSE)!Next]_(Key(KeyReaders, "pair", FALSE, FALSE)!vars)
        /\ scene = "account_fresh" =>
             [Key(KeyReaders, "none", TRUE, TRUE)!Next]_(Key(KeyReaders, "none", TRUE, TRUE)!vars)
        /\ scene = "account_faulty" =>
             [Key({}, "pair", TRUE, TRUE)!Next]_(Key({}, "pair", TRUE, TRUE)!vars)
  BY DEF Next, Stop, vars, Key!vars
<1>3. [Next]_vars => /\ (scene = "account_legacy") <=> (scene = "account_legacy")'
                     /\ (scene = "account_fresh") <=> (scene = "account_fresh")'
                     /\ (scene = "account_faulty") <=> (scene = "account_faulty")'
  BY SceneKept
<1>4. /\ Key(KeyReaders, "pair", FALSE, FALSE)!AccountsAssumption
      /\ Key(KeyReaders, "none", TRUE, TRUE)!AccountsAssumption
      /\ Key({}, "pair", TRUE, TRUE)!AccountsAssumption
  BY MCStoresAssumption DEF MCStoresAssumption
<1>5. /\ Key(KeyReaders, "pair", FALSE, FALSE)!Init => MovedInv(KeyReaders, FALSE, FALSE)
      /\ Key({}, "pair", TRUE, TRUE)!Init => MovedInv({}, TRUE, TRUE)
  BY <1>4, MovedInit
<1>6. /\ MovedInv(KeyReaders, FALSE, FALSE)
      /\ [Key(KeyReaders, "pair", FALSE, FALSE)!Next]_(Key(KeyReaders, "pair", FALSE, FALSE)!vars)
      => MovedInv(KeyReaders, FALSE, FALSE)'
  BY <1>4, MovedFreely, MovedOneByOne DEF MovedInv
<1>7. /\ MovedInv({}, TRUE, TRUE)
      /\ [Key({}, "pair", TRUE, TRUE)!Next]_(Key({}, "pair", TRUE, TRUE)!vars)
      => MovedInv({}, TRUE, TRUE)'
  BY <1>4, MovedOneByOne DEF MovedInv
<1>8. /\ MovedInv(KeyReaders, FALSE, FALSE) =>
           /\ Key(KeyReaders, "pair", FALSE, FALSE)!KeyKept
           /\ Key(KeyReaders, "pair", FALSE, FALSE)!PairMatches
      /\ MovedInv({}, TRUE, TRUE) => /\ Key({}, "pair", TRUE, TRUE)!KeyKept
                                     /\ Key({}, "pair", TRUE, TRUE)!PairMatches
  BY MovedMeans
<1>9. /\ Key(KeyReaders, "none", TRUE, TRUE)!Init => FreshInv(KeyReaders)
      /\ FreshInv(KeyReaders)
         /\ [Key(KeyReaders, "none", TRUE, TRUE)!Next]_(Key(KeyReaders, "none", TRUE, TRUE)!vars)
         => FreshInv(KeyReaders)'
      /\ FreshInv(KeyReaders) => /\ Key(KeyReaders, "none", TRUE, TRUE)!PairMatches
                                 /\ Key(KeyReaders, "none", TRUE, TRUE)!OneAccountKey
  BY <1>4, FreshInit, FreshSteps, FreshMeans
<1> QED
  BY <1>1, <1>2, <1>3, <1>5, <1>6, <1>7, <1>8, <1>9, PTL DEF Spec, KeyKept

\* EventsInOrder of MCStores: for any numbers of events, sessions, connections
\* and edits, and any sizes of the channel and the page.
THEOREM EventsInOrderInScenes ==
    Spec => []EventsInOrder
<1>1. Init => /\ scene = "events" => Ev(Opens, Connects, 0, FALSE)!Init
              /\ scene = "events_faulty" => Ev(FewOpens, FewConnects, Rewrites, TRUE)!Init
  BY DEF Init
<1>2. [Next]_vars =>
        /\ scene = "events" => Ev(Opens, Connects, 0, FALSE)!Next \/ UNCHANGED EvVars
        /\ scene = "events_faulty" =>
             Ev(FewOpens, FewConnects, Rewrites, TRUE)!Next \/ UNCHANGED EvVars
  BY DEF Next, Stop, vars, EvVars
<1>3. [Next]_vars => /\ (scene = "events") <=> (scene = "events")'
                     /\ (scene = "events_faulty") <=> (scene = "events_faulty")'
  BY SceneKept
<1>4. /\ Ev(Opens, Connects, 0, FALSE)!EventStreamAssumption
      /\ Ev(FewOpens, FewConnects, Rewrites, TRUE)!EventStreamAssumption
  BY MCStoresAssumption DEF MCStoresAssumption
<1>5. /\ Ev(Opens, Connects, 0, FALSE)!Init => EvType /\ OrderInv /\ LineInv /\ GapInv
      /\ Ev(FewOpens, FewConnects, Rewrites, TRUE)!Init => EvType /\ OrderInv
  BY <1>4, EventsStart
<1>6. /\ EvType /\ OrderInv /\ Ev(Opens, Connects, 0, FALSE)!Next => EvType' /\ OrderInv'
      /\ EvType /\ OrderInv /\ Ev(FewOpens, FewConnects, Rewrites, TRUE)!Next
           => EvType' /\ OrderInv'
  BY <1>4, EventsOrdered
<1>7. EvType /\ OrderInv /\ LineInv /\ GapInv /\ Ev(Opens, Connects, 0, FALSE)!Next
        => LineInv' /\ GapInv'
  BY <1>4, EventsNumbered
<1>8. /\ EvType /\ OrderInv => Ev(FewOpens, FewConnects, Rewrites, TRUE)!InOrder
      /\ LineInv => Ev(Opens, Connects, 0, FALSE)!DurableIDs
      /\ EvType /\ GapInv => Ev(Opens, Connects, 0, FALSE)!NoGap
  BY OrderMeans, LinesMean
<1> QED
  BY <1>1, <1>2, <1>3, <1>5, <1>6, <1>7, <1>8, EventsIdle, PTL DEF Spec, EventsInOrder

\* MemoryKept of MCStores: for any stores that add to and replace in any topics,
\* and for one store that also removes; for any sizes, limits and lock files.
THEOREM MemoryKeptInScenes ==
    Spec => []MemoryKept
<1> DEFINE Shared == {"add", "replace"}
           All == {"add", "replace", "remove"}
           SharedInv == /\ MemType(MemoryStores, MemoryTopics, MemoryLocks)
                        /\ MemCore(MemoryStores, MemoryTopics)
                        /\ LockInv(MemoryStores, MemoryLocks)
           AloneInv == /\ MemType({OneStore}, AllTopics, LockFiles)
                       /\ MemCore({OneStore}, AllTopics)
                       /\ CapInv({OneStore}, AllTopics)
<1>1. /\ Mem(MemoryStores, MemoryTopics, Entries, Shared, MemoryLocks)!MemoryBounds
      /\ Mem({OneStore}, AllTopics, FewEntries, All, LockFiles)!MemoryBounds
  BY MCStoresAssumption DEF MCStoresAssumption
<1>2. Init =>
        /\ scene = "memory" =>
             Mem(MemoryStores, MemoryTopics, Entries, Shared, MemoryLocks)!Init
        /\ scene = "memory_topics" =>
             Mem({OneStore}, AllTopics, FewEntries, All, LockFiles)!Init
  BY DEF Init
<1>3. Init => /\ scene = "memory" => SharedInv
              /\ scene = "memory_topics" => AloneInv
  BY <1>1, <1>2, MemoryStart
<1>4. [Next]_vars =>
        /\ scene = "memory" =>
             Mem(MemoryStores, MemoryTopics, Entries, Shared, MemoryLocks)!Next
             \/ UNCHANGED MemVars
        /\ scene = "memory_topics" =>
             Mem({OneStore}, AllTopics, FewEntries, All, LockFiles)!Next
             \/ UNCHANGED MemVars
  BY DEF Next, Stop, vars, MemVars
<1>5. [Next]_vars => /\ (scene = "memory") <=> (scene = "memory")'
                     /\ (scene = "memory_topics") <=> (scene = "memory_topics")'
  BY SceneKept
<1>6. SharedInv /\ Mem(MemoryStores, MemoryTopics, Entries, Shared, MemoryLocks)!Next
        => SharedInv'
  BY <1>1, LockSerialises, MemoryCoreKept, LockKept
<1>7. AloneInv /\ Mem({OneStore}, AllTopics, FewEntries, All, LockFiles)!Next => AloneInv'
  BY <1>1, AloneSerialised, MemoryCoreKept, CapKept
<1>8. /\ SharedInv /\ UNCHANGED MemVars => SharedInv'
      /\ AloneInv /\ UNCHANGED MemVars => AloneInv'
  BY MemoryRests
<1>9. /\ SharedInv =>
           /\ Mem(MemoryStores, MemoryTopics, Entries, Shared, MemoryLocks)!Serialised
           /\ Mem(MemoryStores, MemoryTopics, Entries, Shared, MemoryLocks)!NothingLost
           /\ Mem(MemoryStores, MemoryTopics, Entries, Shared, MemoryLocks)!BucketsTidy
      /\ AloneInv => /\ Mem({OneStore}, AllTopics, FewEntries, All, LockFiles)!NothingLost
                     /\ Mem({OneStore}, AllTopics, FewEntries, All, LockFiles)!BucketsTidy
                     /\ Mem({OneStore}, AllTopics, FewEntries, All, LockFiles)!TopicCap
  BY LockSerialises, MemoryMeans
<1> HIDE DEF SharedInv, AloneInv
<1>10. Init => /\ scene = "memory" => SharedInv
               /\ scene = "memory_topics" => AloneInv
  BY <1>3
<1>11. [Next]_vars => /\ scene = "memory" /\ SharedInv => SharedInv'
                      /\ scene = "memory_topics" /\ AloneInv => AloneInv'
  BY <1>4, <1>6, <1>7, <1>8
<1>12. (scene = "memory" => SharedInv) /\ (scene = "memory_topics" => AloneInv) => MemoryKept
  BY <1>9 DEF MemoryKept
<1> QED
  BY <1>5, <1>10, <1>11, <1>12, PTL DEF Spec

\* FilesAgree of MCStores: for any number of session objects, messages and texts
\* one object at a time holds the directory, and the messages of the model lie on
\* the events of the journal; and with stragglers, drift and crashes a session of
\* the pool has its directory.
THEOREM FilesAgreeInScenes ==
    Spec => []FilesAgree
<1> DEFINE Drifts == {"prompt", "command", "compact"}
           Agree == DirInv(DirObjects, UserTexts)
           Has == Dir(FewObjects, FewMessages, EditCrashes, FewTexts, TRUE, Drifts)!PoolHasFiles
<1>1. Dir(DirObjects, DirMessages, 0, UserTexts, FALSE, {})!SessionFilesAssumption
  BY MCStoresAssumption DEF MCStoresAssumption
<1>2. Init =>
        /\ scene = "files" => Dir(DirObjects, DirMessages, 0, UserTexts, FALSE, {})!Init
        /\ scene = "files_pool" =>
             Dir(FewObjects, FewMessages, EditCrashes, FewTexts, TRUE, Drifts)!Init
  BY DEF Init
<1>3. Init => /\ scene = "files" => Agree
              /\ scene = "files_pool" => Has
  BY <1>1, <1>2, DirStart, HasFilesStart
<1>4. [Next]_vars =>
        /\ scene = "files" =>
             Dir(DirObjects, DirMessages, 0, UserTexts, FALSE, {})!Next \/ UNCHANGED FileVars
        /\ scene = "files_pool" =>
             Dir(FewObjects, FewMessages, EditCrashes, FewTexts, TRUE, Drifts)!Next
             \/ UNCHANGED FileVars
  BY DEF Next, Stop, vars, FileVars
<1>5. [Next]_vars => /\ (scene = "files") <=> (scene = "files")'
                     /\ (scene = "files_pool") <=> (scene = "files_pool")'
  BY SceneKept
<1>6. Agree /\ Dir(DirObjects, DirMessages, 0, UserTexts, FALSE, {})!Next => Agree'
  BY <1>1, FilesKept
<1>7. Has /\ Dir(FewObjects, FewMessages, EditCrashes, FewTexts, TRUE, Drifts)!Next => Has'
  BY HasFilesKept
<1>8. /\ Agree /\ UNCHANGED FileVars => Agree'
      /\ Has /\ UNCHANGED FileVars => Has'
  BY FilesRest
<1>9. Agree => /\ Dir(DirObjects, DirMessages, 0, UserTexts, FALSE, {})!MemoryMatchesFile
               /\ Dir(DirObjects, DirMessages, 0, UserTexts, FALSE, {})!ModelSeesNoMore
  BY <1>1, FilesMean
<1>10. (scene = "files" => Agree) /\ (scene = "files_pool" => Has) => FilesAgree
  BY <1>9 DEF FilesAgree
<1> HIDE DEF Agree, Has
<1>11. Init => /\ scene = "files" => Agree
               /\ scene = "files_pool" => Has
  BY <1>3
<1>12. [Next]_vars => /\ scene = "files" /\ Agree => Agree'
                      /\ scene = "files_pool" /\ Has => Has'
  BY <1>4, <1>6, <1>7, <1>8
<1> QED
  BY <1>5, <1>10, <1>11, <1>12, PTL DEF Spec

\* LoopStateHonest of MCStores: whatever operations the turn starts and the
\* handlers activate or answer, whether or not the two overlap or die, a loop
\* that is fed was calibrated; and with one of them at work at a time state.json
\* carries the number of the latest event, and a closed loop is not fed.
THEOREM LoopStateHonestInScenes ==
    Spec => []LoopStateHonest
<1> DEFINE Alone == LoopType /\ Calibrated /\ OneAtWork /\ Mirrored
           Both == LoopType /\ Calibrated
           Http == LoopType /\ OneAtWork /\ Mirrored /\ StaysClosed
<1>1. /\ LoopOps \cap {"put", "delete"} = {} /\ DraftOps \cap {"put", "delete"} = {}
      /\ {"answer"} \cap (CountFirst \cup Setters) = {}
      /\ {"answer", "activate"} \cap (CountFirst \cup Setters) = {}
  BY DEF LoopOps, DraftOps, CountFirst, Setters
<1>2. Init =>
        /\ scene = "loop" => Proto(LoopOps, {"answer"}, FALSE, FALSE, LoopLines, LoopFeeds)!Init
        /\ scene = "loop_overlap" =>
             Proto(DraftOps, {"answer", "activate"}, TRUE, TRUE, DraftLines, 0)!Init
        /\ scene = "loop_http" => Proto(AllOps, HandlerOps, FALSE, FALSE, HttpLines, HttpFeeds)!Init
  BY DEF Init
<1>3. Init => /\ scene = "loop" => Alone
              /\ scene = "loop_overlap" => Both
              /\ scene = "loop_http" => Http
  BY <1>2, LoopStart
<1>4. [Next]_vars =>
        /\ scene = "loop" =>
             Proto(LoopOps, {"answer"}, FALSE, FALSE, LoopLines, LoopFeeds)!Next \/ UNCHANGED LoopVars
        /\ scene = "loop_overlap" =>
             Proto(DraftOps, {"answer", "activate"}, TRUE, TRUE, DraftLines, 0)!Next
             \/ UNCHANGED LoopVars
        /\ scene = "loop_http" =>
             Proto(AllOps, HandlerOps, FALSE, FALSE, HttpLines, HttpFeeds)!Next \/ UNCHANGED LoopVars
  BY DEF Next, Stop, vars, LoopVars
<1>5. [Next]_vars => /\ (scene = "loop") <=> (scene = "loop")'
                     /\ (scene = "loop_overlap") <=> (scene = "loop_overlap")'
                     /\ (scene = "loop_http") <=> (scene = "loop_http")'
  BY SceneKept
<1>6. Alone /\ Proto(LoopOps, {"answer"}, FALSE, FALSE, LoopLines, LoopFeeds)!Next => Alone'
  BY <1>1, LoopKeeps
<1>7. Both /\ Proto(DraftOps, {"answer", "activate"}, TRUE, TRUE, DraftLines, 0)!Next => Both'
  BY <1>1, LoopKeeps
<1>8. Http /\ Proto(AllOps, HandlerOps, FALSE, FALSE, HttpLines, HttpFeeds)!Next => Http'
  BY LoopKeeps
<1>9. /\ Alone /\ UNCHANGED LoopVars => Alone'
      /\ Both /\ UNCHANGED LoopVars => Both'
      /\ Http /\ UNCHANGED LoopVars => Http'
  BY LoopRest
<1>10. (scene = "loop" => Alone) /\ (scene = "loop_overlap" => Both) /\ (scene = "loop_http" => Http)
         => LoopStateHonest
  BY LoopMeans DEF LoopStateHonest
<1> HIDE DEF Alone, Both, Http
<1>11. Init => /\ scene = "loop" => Alone
               /\ scene = "loop_overlap" => Both
               /\ scene = "loop_http" => Http
  BY <1>3
<1>12. [Next]_vars => /\ scene = "loop" /\ Alone => Alone'
                      /\ scene = "loop_overlap" /\ Both => Both'
                      /\ scene = "loop_http" /\ Http => Http'
  BY <1>4, <1>6, <1>7, <1>8, <1>9
<1> QED
  BY <1>5, <1>10, <1>11, <1>12, PTL DEF Spec
==============================================================================
