----------------------------- MODULE Tools_proofs ----------------------------
(***************************************************************************)
(* Theorems about the components behind the tools, one section for each,   *)
(* and what they say of the behaviours of MCTools, whose scenes run these  *)
(* components with the constants this module leaves open.                  *)
(***************************************************************************)
EXTENDS MCTools, FiniteSets, FiniteSetTheorems, SequenceTheorems, TLAPS

-----------------------------------------------------------------------------
(* The shell tool. *)

\* What holds between the child and the phases of Exec, and of the bytes.
ShellInv ==
    /\ pc \in {"idle", "running", "returned"}
    /\ pc = "idle" => child = "none"
    /\ child = "exited" => pc # "idle"
    /\ code \in Int /\ written \in Nat /\ buf \in Nat /\ dropped \in Nat
    /\ Shell!ShellReported

\* A command that ended well on the host is reported so, and no byte it wrote
\* is neither shown nor counted, for every cap of the output.
THEOREM ShellReportedCorrect ==
    ASSUME Shell!ExecBounds, Backend = "local"
    PROVE  Shell!Spec => []Shell!ShellReported
<1>1. Shell!Init => ShellInv
  BY DEF Shell!Init, ShellInv, Shell!ShellReported, Shell!SuccessReported,
         Shell!OutputAccounted, Shell!ExecBounds, Shell!NoResult
<1>2. ShellInv /\ [Shell!Next]_(Shell!vars) => ShellInv'
  <2> SUFFICES ASSUME ShellInv, [Shell!Next]_(Shell!vars) PROVE ShellInv'
    OBVIOUS
  <2> USE DEF ShellInv, Shell!ShellReported, Shell!SuccessReported,
              Shell!OutputAccounted, Shell!ExecBounds
  <2>1. CASE Shell!Start BY <2>1 DEF Shell!Start
  <2>2. CASE Shell!SpawnFails BY <2>2 DEF Shell!SpawnFails
  <2>3. CASE Shell!Fork BY <2>3 DEF Shell!Fork
  <2>4. CASE Shell!Output BY <2>4 DEF Shell!Output, Shell!CapWrite
  <2>5. CASE Shell!Kill BY <2>5 DEF Shell!Kill
  <2>6. CASE Shell!OrphanEnds BY <2>6 DEF Shell!OrphanEnds
  <2>7. CASE Shell!HelperEnds BY <2>7 DEF Shell!HelperEnds
  <2>8. CASE Shell!Return BY <2>8 DEF Shell!Return, Shell!LocalError
  <2>9. ASSUME NEW c \in {0, 3}, Shell!Exit(c) PROVE ShellInv'
    BY <2>9 DEF Shell!Exit
  <2>10. ASSUME NEW k \in {"deadline", "cancelled"}, Shell!CtxDone(k)
         PROVE ShellInv'
    BY <2>10 DEF Shell!CtxDone
  <2>11. CASE UNCHANGED Shell!vars BY <2>11 DEF Shell!vars
  <2> QED
    BY <2>1, <2>2, <2>3, <2>4, <2>5, <2>6, <2>7, <2>8, <2>9, <2>10, <2>11
       DEF Shell!Next
<1>3. ShellInv => Shell!ShellReported
  BY DEF ShellInv
<1> QED
  BY <1>1, <1>2, <1>3, PTL DEF Shell!Spec

-----------------------------------------------------------------------------
(* The completion guard of the workspace. *)

Whats == {"edit", "docs", "verify"}
Messages == [what : Whats, outcome : {"ok", "failed"}]

\* The last edit and the last test, as the guard sees them and as they were.
LogEdit == Verify!Latest(Verify!Edits(log))
LogTest == Verify!Latest(Verify!Tests(log))
DidEdit == Verify!Latest({i \in DOMAIN did : did[i] = "edit"})
DidTest == Verify!Latest({i \in DOMAIN did : did[i] = "verify"})

\* A new place after all others is the latest.
LEMMA LatestNew ==
    ASSUME NEW hits, NEW n \in Nat \ {0}, \A i \in hits : i \in Nat /\ i < n
    PROVE  Verify!Latest(hits \cup {n}) = n
<1>1. n \in hits \cup {n} /\ \A j \in hits \cup {n} : j \in Nat /\ j <= n
  OBVIOUS
<1>2. (CHOOSE i \in hits \cup {n} : \A j \in hits \cup {n} : j <= i) = n
  BY <1>1
<1> QED
  BY <1>2 DEF Verify!Latest

\* One more message: which of the sets of places it enters.
LEMMA PlacesAppend ==
    ASSUME NEW msgs \in Seq(Messages), NEW m \in Messages
    PROVE  /\ Verify!Edits(Append(msgs, m)) =
                IF m.what = "edit" /\ m.outcome # "failed"
                THEN Verify!Edits(msgs) \cup {Len(msgs) + 1} ELSE Verify!Edits(msgs)
           /\ Verify!Tests(Append(msgs, m)) =
                IF m.what = "verify"
                THEN Verify!Tests(msgs) \cup {Len(msgs) + 1} ELSE Verify!Tests(msgs)
  BY DEF Verify!Edits, Verify!Tests, Verify!workspaceGuardToolResultFailed

VerifyType ==
    /\ log \in Seq(Messages) /\ did \in Seq(Whats)
    /\ phase \in {"running", "completed", "max_turns"}
    /\ LogEdit \in 0..Len(log) /\ LogTest \in 0..Len(log)
    /\ DidEdit \in 0..Len(did) /\ DidTest \in 0..Len(did)

\* Where a call that ran leaves the last edit and the last test.
LEMMA CallPlaces ==
    ASSUME VerifyType, ~Skips, NEW what \in Whats, NEW res \in Verify!Outcomes,
           Verify!Call(what, res)
    PROVE  /\ LogEdit' = IF what = "edit" /\ res = "ok" THEN Len(log) + 1 ELSE LogEdit
           /\ DidEdit' = IF what = "edit" /\ res = "ok" THEN Len(did) + 1 ELSE DidEdit
           /\ LogTest' = IF what = "verify" THEN Len(log) + 1 ELSE LogTest
           /\ DidTest' = IF what = "verify" THEN Len(did) + 1 ELSE DidTest
           /\ VerifyType'
<1> DEFINE m == [what |-> what, outcome |-> res]
           edits(s) == {i \in DOMAIN s : s[i] = "edit"}
           tests(s) == {i \in DOMAIN s : s[i] = "verify"}
<1>1. /\ m \in Messages /\ log' = Append(log, m) /\ res \in {"ok", "failed"}
      /\ m.what = what /\ m.outcome = res
      /\ log \in Seq(Messages) /\ did \in Seq(Whats)
  BY DEF Verify!Call, Verify!Message, Messages, Verify!Outcomes, VerifyType
<1>2. did' = IF what = "verify" \/ res = "ok" THEN Append(did, what) ELSE did
  BY <1>1 DEF Verify!Call
<1>3. /\ \A i \in Verify!Edits(log) \cup Verify!Tests(log) : i \in Nat /\ i < Len(log) + 1
      /\ \A i \in edits(did) \cup tests(did) : i \in Nat /\ i < Len(did) + 1
  BY <1>1 DEF Verify!Edits, Verify!Tests
<1>4. /\ edits(Append(did, what)) =
           IF what = "edit" THEN edits(did) \cup {Len(did) + 1} ELSE edits(did)
      /\ tests(Append(did, what)) =
           IF what = "verify" THEN tests(did) \cup {Len(did) + 1} ELSE tests(did)
  BY <1>1
<1>5. /\ Verify!Latest(Verify!Edits(log) \cup {Len(log) + 1}) = Len(log) + 1
      /\ Verify!Latest(Verify!Tests(log) \cup {Len(log) + 1}) = Len(log) + 1
      /\ Verify!Latest(edits(did) \cup {Len(did) + 1}) = Len(did) + 1
      /\ Verify!Latest(tests(did) \cup {Len(did) + 1}) = Len(did) + 1
  <2>1. Len(log) + 1 \in Nat \ {0} /\ Len(did) + 1 \in Nat \ {0}
    BY <1>1
  <2> HIDE DEF edits, tests
  <2> QED
    BY <1>3, <2>1, LatestNew
<1>6. /\ LogEdit' = Verify!Latest(Verify!Edits(log'))
      /\ LogTest' = Verify!Latest(Verify!Tests(log'))
      /\ DidEdit' = Verify!Latest(edits(did')) /\ DidEdit = Verify!Latest(edits(did))
      /\ DidTest' = Verify!Latest(tests(did')) /\ DidTest = Verify!Latest(tests(did))
  BY DEF LogEdit, LogTest, DidEdit, DidTest
<1>7. /\ LogEdit' = IF what = "edit" /\ res = "ok" THEN Len(log) + 1 ELSE LogEdit
      /\ LogTest' = IF what = "verify" THEN Len(log) + 1 ELSE LogTest
  BY <1>1, <1>5, <1>6, PlacesAppend DEF LogEdit, LogTest
<1>8. /\ DidEdit' = IF what = "edit" /\ res = "ok" THEN Len(did) + 1 ELSE DidEdit
      /\ DidTest' = IF what = "verify" THEN Len(did) + 1 ELSE DidTest
  <2> HIDE DEF edits, tests
  <2> QED
    BY <1>1, <1>2, <1>4, <1>5, <1>6
<1>9. log' \in Seq(Messages) /\ did' \in Seq(Whats) /\ Len(log') = Len(log) + 1
      /\ Len(did') = (IF what = "verify" \/ res = "ok" THEN Len(did) + 1 ELSE Len(did))
  BY <1>1, <1>2
<1>10. VerifyType'
  BY <1>1, <1>7, <1>8, <1>9 DEF VerifyType, Verify!Call
<1> QED
  BY <1>7, <1>8, <1>10

\* A test and an edit of the turn are messages the guard sees, in their order.
VerifyInv ==
    /\ VerifyType
    /\ DidTest # 0 => LogTest # 0
    /\ DidTest # 0 /\ DidEdit > DidTest => LogTest # 0 /\ LogEdit > LogTest
    /\ phase = "completed" => ~(DidTest # 0 /\ DidEdit > DidTest)

\* With every call run, no answer truncated and nothing compacted away, no
\* turn of any session ends with an edit newer than its last test run.
THEOREM StaleNeverAcceptedCorrect ==
    ASSUME Verify!VerifyGuardAssumption, ~Skips, ~Recovers, ~Compacts
    PROVE  Verify!Spec => []Verify!StaleNeverAccepted
<1>1. Verify!Init => VerifyInv
  BY DEF Verify!Init, VerifyInv, VerifyType, Verify!Latest, Verify!Edits, Verify!Tests,
         LogEdit, LogTest, DidEdit, DidTest
<1>2. VerifyInv /\ [Verify!Next]_(Verify!vars) => VerifyInv'
  <2> SUFFICES ASSUME VerifyInv, [Verify!Next]_(Verify!vars) PROVE VerifyInv'
    OBVIOUS
  <2>1. ASSUME NEW what \in Whats, NEW res \in Verify!Outcomes,
               Verify!Call(what, res)
        PROVE  VerifyInv'
    <3>1. phase' = "running"
      BY <2>1 DEF Verify!Call
    <3>2. /\ LogEdit' = IF what = "edit" /\ res = "ok" THEN Len(log) + 1 ELSE LogEdit
          /\ DidEdit' = IF what = "edit" /\ res = "ok" THEN Len(did) + 1 ELSE DidEdit
          /\ LogTest' = IF what = "verify" THEN Len(log) + 1 ELSE LogTest
          /\ DidTest' = IF what = "verify" THEN Len(did) + 1 ELSE DidTest
          /\ VerifyType'
      BY <2>1, CallPlaces DEF VerifyInv
    <3>3. /\ Len(log) \in Nat /\ Len(did) \in Nat
          /\ LogEdit \in 0..Len(log) /\ LogTest \in 0..Len(log)
          /\ DidEdit \in 0..Len(did) /\ DidTest \in 0..Len(did)
      BY DEF VerifyInv, VerifyType
    <3> QED
      BY <3>1, <3>2, <3>3 DEF VerifyInv
  <2>2. CASE Verify!Finish
    <3>1. LogEdit' = LogEdit /\ LogTest' = LogTest /\ DidEdit' = DidEdit
          /\ DidTest' = DidTest /\ UNCHANGED <<log, did>>
      BY <2>2 DEF Verify!Finish, LogEdit, LogTest, DidEdit, DidTest
    <3>2. /\ phase' \in {"running", "completed", "max_turns"}
          /\ phase' = "completed" => ~Verify!freshness(log)
      BY <2>2 DEF Verify!Finish, VerifyInv, VerifyType
    <3>3. Verify!freshness(log) <=> LogTest # 0 /\ LogEdit # 0 /\ LogEdit > LogTest
      BY DEF Verify!freshness, LogEdit, LogTest
    <3> QED
      BY <3>1, <3>2, <3>3 DEF VerifyInv, VerifyType
  <2>3. CASE Verify!Recover
    BY <2>3 DEF Verify!Recover
  <2>4. CASE Verify!NextTurn
    <3>1. LogEdit' = LogEdit /\ LogTest' = LogTest /\ log' = log
      BY <2>4 DEF Verify!NextTurn, LogEdit, LogTest
    <3>2. DidEdit' = 0 /\ DidTest' = 0 /\ did' = <<>> /\ phase' = "running"
      BY <2>4 DEF Verify!NextTurn, DidEdit, DidTest, Verify!Latest
    <3> QED
      BY <3>1, <3>2 DEF VerifyInv, VerifyType
  <2>5. CASE Verify!Compact
    BY <2>5 DEF Verify!Compact
  <2>6. CASE UNCHANGED Verify!vars
    BY <2>6 DEF Verify!vars, VerifyInv, VerifyType, LogEdit, LogTest, DidEdit, DidTest
  <2> QED
    BY <2>1, <2>2, <2>3, <2>4, <2>5, <2>6 DEF Verify!Next, Verify!Done, Whats
<1>3. VerifyInv => Verify!StaleNeverAccepted
  BY DEF VerifyInv, Verify!StaleNeverAccepted, Verify!StaleNow, DidEdit, DidTest
<1> QED
  BY <1>1, <1>2, <1>3, PTL DEF Verify!Spec

\* In one turn the guard also sees nothing that was not there.
BlockInv ==
    /\ VerifyType
    /\ turn = 1
    /\ LogTest # 0 => DidTest # 0
    /\ LogTest # 0 /\ LogEdit > LogTest => DidTest # 0 /\ DidEdit > DidTest
    /\ blocked => DidTest # 0 /\ DidEdit > DidTest

\* In a session of one turn an answer is held back only when the turn ran a
\* test and edited a source file after it.
THEOREM BlockJustifiedCorrect ==
    ASSUME Verify!VerifyGuardAssumption, ~Skips, ~Compacts, MaxTurns = 1
    PROVE  Verify!Spec => []Verify!BlockJustified
<1>1. Verify!Init => BlockInv
  BY DEF Verify!Init, BlockInv, VerifyType, Verify!Latest, Verify!Edits, Verify!Tests,
         LogEdit, LogTest, DidEdit, DidTest
<1>2. BlockInv /\ [Verify!Next]_(Verify!vars) => BlockInv'
  <2> SUFFICES ASSUME BlockInv, [Verify!Next]_(Verify!vars) PROVE BlockInv'
    OBVIOUS
  <2>1. ASSUME NEW what \in Whats, NEW res \in Verify!Outcomes,
               Verify!Call(what, res)
        PROVE  BlockInv'
    <3>1. ~blocked' /\ turn' = turn
      BY <2>1 DEF Verify!Call
    <3>2. /\ LogEdit' = IF what = "edit" /\ res = "ok" THEN Len(log) + 1 ELSE LogEdit
          /\ DidEdit' = IF what = "edit" /\ res = "ok" THEN Len(did) + 1 ELSE DidEdit
          /\ LogTest' = IF what = "verify" THEN Len(log) + 1 ELSE LogTest
          /\ DidTest' = IF what = "verify" THEN Len(did) + 1 ELSE DidTest
          /\ VerifyType'
      BY <2>1, CallPlaces DEF BlockInv
    <3>3. /\ Len(log) \in Nat /\ Len(did) \in Nat
          /\ LogEdit \in 0..Len(log) /\ LogTest \in 0..Len(log)
          /\ DidEdit \in 0..Len(did) /\ DidTest \in 0..Len(did)
      BY DEF BlockInv, VerifyType
    <3>4. /\ LogTest' # 0 => DidTest' # 0
          /\ LogTest' # 0 /\ LogEdit' > LogTest' => DidTest' # 0 /\ DidEdit' > DidTest'
      <4>1. CASE what = "verify"
        BY <3>2, <3>3, <4>1 DEF BlockInv
      <4>2. CASE what # "verify"
        BY <3>2, <3>3, <4>2 DEF BlockInv
      <4> QED
        BY <4>1, <4>2
    <3> QED
      BY <3>1, <3>2, <3>4 DEF BlockInv
  <2>2. CASE Verify!Finish
    BY <2>2 DEF Verify!Finish, BlockInv, VerifyType, LogEdit, LogTest, DidEdit, DidTest,
                Verify!freshness
  <2>3. CASE Verify!Recover
    BY <2>3 DEF Verify!Recover, BlockInv, VerifyType, LogEdit, LogTest, DidEdit, DidTest
  <2>4. CASE Verify!NextTurn
    BY <2>4 DEF Verify!NextTurn, BlockInv
  <2>5. CASE Verify!Compact
    BY <2>5 DEF Verify!Compact
  <2>6. CASE UNCHANGED Verify!vars
    BY <2>6 DEF Verify!vars, BlockInv, VerifyType, LogEdit, LogTest, DidEdit, DidTest
  <2> QED
    BY <2>1, <2>2, <2>3, <2>4, <2>5, <2>6 DEF Verify!Next, Verify!Done, Whats
<1>3. BlockInv => Verify!BlockJustified
  BY DEF BlockInv, Verify!BlockJustified, Verify!StaleNow, DidEdit, DidTest
<1> QED
  BY <1>1, <1>2, <1>3, PTL DEF Verify!Spec

-----------------------------------------------------------------------------
(* The HTTP transport of an MCP server. *)

PostStates == {"idle", "counted", "posting", "pin", "json", "done"}

\* Once out is closed no POST is past its look at closed and no stream is
\* open, and none will be: close had set closed before it waited.
HttpInv ==
    /\ pc \in [Posts -> PostStates]
    /\ drain \in [Posts -> {"none", "open", "emit", "ended"}]
    /\ closer \in {"no", "wait", "done"}
    /\ closer # "no" => closed
    /\ closer = "done" => \A p \in Posts : /\ pc[p] \in {"idle", "counted", "done"}
                                           /\ drain[p] \in {"none", "ended"}
    /\ panicked = FALSE

\* A wait group at zero counts nobody.
LEMMA WgZero ==
    ASSUME Http!McpHttpAssumption, Http!wg = 0
    PROVE  \A p \in Posts : pc[p] \in {"idle", "done"} /\ drain[p] \notin {"open", "emit"}
<1> DEFINE posting == {p \in Posts : pc[p] \notin {"idle", "done"}}
           draining == {p \in Posts : drain[p] \in {"open", "emit"}}
<1>0. /\ Http!IsFiniteSet(Posts) = IsFiniteSet(Posts)
      /\ \A S : Http!Cardinality(S) = Cardinality(S)
  BY DEF Http!IsFiniteSet, IsFiniteSet, Http!Cardinality, Cardinality
<1>1. IsFiniteSet(posting) /\ IsFiniteSet(draining)
  <2>1. posting \subseteq Posts /\ draining \subseteq Posts /\ IsFiniteSet(Posts)
    BY <1>0 DEF Http!McpHttpAssumption
  <2> QED
    BY <2>1, FS_Subset
<1>2. Cardinality(posting) \in Nat /\ Cardinality(draining) \in Nat
  BY <1>1, FS_CardinalityType
<1>3. Cardinality(posting) + Cardinality(draining) = 0
  BY <1>0 DEF Http!wg
<1>4. posting = {} /\ draining = {}
  BY <1>1, <1>2, <1>3, FS_EmptySet
<1> QED
  BY <1>4

\* No POST and no stream sends on the closed out channel, for any number of
\* concurrent requests and any capacity.
THEOREM HttpNoPanicCorrect ==
    ASSUME Http!McpHttpAssumption
    PROVE  Http!Spec => []Http!NoPanic
<1>1. Http!Init => HttpInv
  BY DEF Http!Init, HttpInv, PostStates
<1>2. HttpInv /\ [Http!Next]_(Http!vars) => HttpInv'
  <2> SUFFICES ASSUME HttpInv, [Http!Next]_(Http!vars) PROVE HttpInv'
    OBVIOUS
  <2> USE DEF HttpInv, PostStates
  <2>1. ASSUME NEW p \in Posts, Http!Count(p) PROVE HttpInv'
    BY <2>1 DEF Http!Count
  <2>2. ASSUME NEW p \in Posts, Http!Check(p) PROVE HttpInv'
    BY <2>2 DEF Http!Check
  <2>3. ASSUME NEW p \in Posts, Http!Respond(p) PROVE HttpInv'
    BY <2>3 DEF Http!Respond
  <2>4. ASSUME NEW p \in Posts, Http!Pin(p) PROVE HttpInv'
    BY <2>4 DEF Http!Pin, Http!AfterPin
  <2>5. ASSUME NEW p \in Posts, Http!EmitJSON(p) PROVE HttpInv'
    BY <2>5 DEF Http!EmitJSON, Http!Emit
  <2>6. ASSUME NEW p \in Posts, Http!StreamLine(p) PROVE HttpInv'
    BY <2>6 DEF Http!StreamLine
  <2>7. ASSUME NEW p \in Posts, Http!StreamEmit(p) PROVE HttpInv'
    BY <2>7 DEF Http!StreamEmit, Http!Emit
  <2>8. ASSUME NEW p \in Posts, Http!StreamEnds(p) PROVE HttpInv'
    BY <2>8 DEF Http!StreamEnds
  <2>9. CASE Http!Take
    BY <2>9 DEF Http!Take
  <2>10. CASE Http!CloseBegins
    BY <2>10 DEF Http!CloseBegins
  <2>11. CASE Http!CloseOut
    BY <2>11, WgZero DEF Http!CloseOut
  <2>12. CASE UNCHANGED Http!vars
    BY <2>12 DEF Http!vars
  <2> QED
    BY <2>1, <2>2, <2>3, <2>4, <2>5, <2>6, <2>7, <2>8, <2>9, <2>10, <2>11, <2>12
       DEF Http!Next
<1>3. HttpInv => Http!NoPanic
  BY DEF HttpInv, Http!NoPanic
<1> QED
  BY <1>1, <1>2, <1>3, PTL DEF Http!Spec

\* The id comes with the reply to initialize, before any other request.
SidInv ==
    /\ pc \in [Posts -> PostStates] /\ given \in [Posts -> Sids \cup {Http!NoSid}]
    /\ body \in [Posts -> {"json", "sse", "ack", "error"}]
    /\ pc[1] \in {"idle", "counted", "posting", "pin"} => sid = Http!NoSid
    /\ pc[1] \in {"idle", "counted", "posting"} => body[1] = "ack"
    /\ pc[1] = "pin" => given[1] # Http!NoSid
    /\ pc[1] = "json" \/ (pc[1] = "done" /\ body[1] \in {"json", "sse"}) =>
         sid # Http!NoSid
    /\ \A p \in Posts \ {1} :
         /\ pc[p] # "idle" => pc[1] = "done" /\ sid # Http!NoSid
         /\ pc[p] = "pin" => given[p] = Http!NoSid

\* The first session id stays for the life of the connection, when the server
\* gives one in its reply to initialize.
THEOREM SessionPinnedCorrect ==
    ASSUME Http!McpHttpAssumption, InitGivesId
    PROVE  Http!Spec => [][Http!SessionPinned]_(Http!vars)
<1>1. Http!Init => SidInv
  BY DEF Http!Init, SidInv, PostStates, Http!McpHttpAssumption
<1>2. SidInv /\ [Http!Next]_(Http!vars) => SidInv' /\ (Http!SessionPinned \/ UNCHANGED Http!vars)
  <2> SUFFICES ASSUME SidInv, [Http!Next]_(Http!vars)
               PROVE  SidInv' /\ Http!SessionPinned
    OBVIOUS
  <2>0. 1 \in Posts
    BY DEF Http!McpHttpAssumption
  <2> USE <2>0 DEF SidInv, PostStates, Http!SessionPinned
  <2>1. ASSUME NEW p \in Posts, Http!Count(p) PROVE SidInv' /\ Http!SessionPinned
    BY <2>1 DEF Http!Count, Http!Initialized
  <2>2. ASSUME NEW p \in Posts, Http!Check(p) PROVE SidInv' /\ Http!SessionPinned
    BY <2>2 DEF Http!Check
  <2>3. ASSUME NEW p \in Posts, Http!Respond(p) PROVE SidInv' /\ Http!SessionPinned
    BY <2>3 DEF Http!Respond
  <2>4. ASSUME NEW p \in Posts, Http!Pin(p) PROVE SidInv' /\ Http!SessionPinned
    BY <2>4 DEF Http!Pin, Http!AfterPin
  <2>5. ASSUME NEW p \in Posts, Http!EmitJSON(p) PROVE SidInv' /\ Http!SessionPinned
    BY <2>5 DEF Http!EmitJSON
  <2>6. ASSUME NEW p \in Posts,
               Http!StreamLine(p) \/ Http!StreamEmit(p) \/ Http!StreamEnds(p)
        PROVE  SidInv' /\ Http!SessionPinned
    BY <2>6 DEF Http!StreamLine, Http!StreamEmit, Http!StreamEnds
  <2>7. CASE Http!Take \/ Http!CloseBegins \/ Http!CloseOut
    BY <2>7 DEF Http!Take, Http!CloseBegins, Http!CloseOut
  <2>8. CASE UNCHANGED Http!vars
    BY <2>8 DEF Http!vars
  <2> QED
    BY <2>1, <2>2, <2>3, <2>4, <2>5, <2>6, <2>7, <2>8 DEF Http!Next
<1> QED
  BY <1>1, <1>2, PTL DEF Http!Spec

-----------------------------------------------------------------------------
(* The stdio client of an MCP server. *)

Registered == {c \in Callers : id[c] # 0}

\* Ids are handed out once, one for each registered call.
McpIdInv ==
    /\ id \in [Callers -> 0..nextID] /\ nextID \in Nat
    /\ nextID = Cardinality(Registered)
    /\ \A c, d \in Callers : id[c] # 0 /\ id[c] = id[d] => c = d

\* A call has its id before it sends, and a reply is that of its id.
McpCallInv ==
    /\ pc \in [Callers -> {"idle", "checked", "sending", "waiting", "done"}]
    /\ result \in [Callers -> Int]
    /\ \A c \in Callers :
         /\ pc[c] \in {"idle", "checked"} => id[c] = 0
         /\ pc[c] \in {"sending", "waiting"} => id[c] # 0
         /\ result[c] \in Mcp!Ids => pc[c] = "done" /\ result[c] = id[c]

\* A channel holds the reply to its own id, and leaves the table when closed.
McpTableInv ==
    /\ pending \subseteq 1..nextID /\ shut \subseteq 1..nextID /\ pending \cap shut = {}
    /\ reply \in [Mcp!Ids -> Mcp!Ids \cup {0}]
    /\ \A i \in Mcp!Ids : reply[i] \in {0, i}

\* The wire closes out behind its reader.
McpWireInv == (reader # "gone" => outShut = FALSE) /\ panicked = FALSE

McpInv == McpIdInv /\ McpCallInv /\ McpTableInv /\ McpWireInv

LEMMA McpFinite ==
    ASSUME Mcp!McpAssumption
    PROVE  /\ IsFiniteSet(Callers) /\ Cardinality(Callers) \in Nat
           /\ Mcp!Ids = 1..Cardinality(Callers)
<1>1. /\ Mcp!IsFiniteSet(Callers) = IsFiniteSet(Callers)
      /\ Mcp!Cardinality(Callers) = Cardinality(Callers)
  BY DEF Mcp!IsFiniteSet, IsFiniteSet, Mcp!Cardinality, Cardinality
<1> QED
  BY <1>1, FS_CardinalityType DEF Mcp!McpAssumption, Mcp!Ids

\* There are no more ids than calls.
LEMMA McpIdsSuffice ==
    ASSUME Mcp!McpAssumption, nextID = Cardinality(Registered)
    PROVE  nextID \in Nat /\ nextID <= Cardinality(Callers)
<1>1. Registered \subseteq Callers
  BY DEF Registered
<1> QED
  BY <1>1, McpFinite, FS_Subset, FS_CardinalityType

\* A call that returns a reply returns the one to its own request, and no
\* goroutine sends on a closed channel: for any number of calls, any pipes and
\* any server.
THEOREM OwnReplyCorrect ==
    ASSUME Mcp!McpAssumption
    PROVE  Mcp!Spec => [](Mcp!OwnReply /\ Mcp!NoPanic)
<1>1. Mcp!Init => McpInv
  <2> SUFFICES ASSUME Mcp!Init PROVE McpInv
    OBVIOUS
  <2>1. Registered = {} /\ Cardinality(Registered) = 0
    BY FS_EmptySet DEF Mcp!Init, Registered, Mcp!NoId
  <2>2. Mcp!Ids \subseteq Int /\ 0 \notin Mcp!Ids
    BY McpFinite
  <2> QED
    BY <2>1, <2>2 DEF Mcp!Init, McpInv, McpIdInv, McpCallInv, McpTableInv, McpWireInv,
                      Mcp!NoId, Mcp!None
<1>2. McpInv /\ [Mcp!Next]_(Mcp!vars) => McpInv'
  <2> SUFFICES ASSUME McpInv, [Mcp!Next]_(Mcp!vars) PROVE McpInv'
    OBVIOUS
  <2>0. /\ Cardinality(Callers) \in Nat /\ Mcp!Ids = 1..Cardinality(Callers)
        /\ nextID \in Nat /\ nextID <= Cardinality(Callers)
    BY McpFinite, McpIdsSuffice DEF McpInv, McpIdInv
  <2>A. ASSUME UNCHANGED <<id, nextID>> PROVE McpIdInv'
    BY <2>A DEF McpInv, McpIdInv, Registered
  <2>B. ASSUME UNCHANGED <<pc, id, result>> PROVE McpCallInv'
    BY <2>B DEF McpInv, McpCallInv
  <2>C. ASSUME UNCHANGED <<nextID, pending, reply, shut>> PROVE McpTableInv'
    BY <2>C DEF McpInv, McpTableInv
  <2>D. ASSUME UNCHANGED <<reader, outShut, panicked>> PROVE McpWireInv'
    BY <2>D DEF McpInv, McpWireInv
  <2>1. ASSUME NEW c \in Callers, Mcp!Begin(c) PROVE McpInv'
    <3>1. McpCallInv'
      BY <2>0, <2>1 DEF Mcp!Begin, McpInv, McpCallInv, Mcp!Failed
    <3> QED
      BY <2>1, <3>1, <2>A, <2>C, <2>D DEF Mcp!Begin, Mcp!table, Mcp!wire, McpInv
  <2>2. ASSUME NEW c \in Callers, Mcp!Register(c) PROVE McpInv'
    <3>1. id[c] = 0 /\ id \in [Callers -> 0..nextID] /\ nextID' = nextID + 1
          /\ id' = [id EXCEPT ![c] = nextID + 1] /\ pc[c] = "checked"
      BY <2>2 DEF Mcp!Register, McpInv, McpIdInv, McpCallInv
    <3>2. Registered' = Registered \cup {c} /\ c \notin Registered
      BY <2>0, <3>1 DEF Registered
    <3>3. IsFiniteSet(Registered)
      BY McpFinite, FS_Subset DEF Registered
    <3>4. Cardinality(Registered') = nextID'
      BY <3>1, <3>2, <3>3, FS_AddElement DEF McpInv, McpIdInv
    <3>5. McpIdInv'
      BY <2>0, <3>1, <3>4 DEF McpInv, McpIdInv
    <3>6. McpCallInv'
      <4>1. pc' = [pc EXCEPT ![c] = "sending"] /\ result' = result
        BY <2>2 DEF Mcp!Register
      <4>2. result[c] \notin Mcp!Ids
        BY <3>1 DEF McpInv, McpCallInv
      <4> QED
        BY <2>0, <3>1, <4>1, <4>2 DEF McpInv, McpCallInv
    <3>7. McpTableInv'
      BY <2>0, <2>2 DEF Mcp!Register, McpInv, McpTableInv
    <3> QED
      BY <2>2, <3>5, <3>6, <3>7, <2>D DEF Mcp!Register, Mcp!wire, McpInv
  <2>3. ASSUME NEW c \in Callers, Mcp!Send(c) PROVE McpInv'
    <3>1. McpCallInv'
      BY <2>0, <2>3 DEF Mcp!Send, Mcp!Return, McpInv, McpCallInv, Mcp!Failed
    <3>2. McpTableInv'
      BY <2>0, <2>3 DEF Mcp!Send, Mcp!Return, McpInv, McpTableInv
    <3> QED
      BY <2>3, <3>1, <3>2, <2>A, <2>D DEF Mcp!Send, Mcp!wire, McpInv
  <2>4. ASSUME NEW c \in Callers, Mcp!Wait(c) PROVE McpInv'
    <3>1. id[c] \in Mcp!Ids /\ reply[id[c]] \in {0, id[c]} /\ id[c] \in Int
      BY <2>0, <2>4 DEF Mcp!Wait, McpInv, McpIdInv, McpCallInv, McpTableInv
    <3>2. PICK r \in {-2, -1, id[c]} : Mcp!Return(c, r)
      BY <2>4, <3>1 DEF Mcp!Wait, Mcp!Cancelled, Mcp!Failed, Mcp!NoId
    <3>3. pc' = [pc EXCEPT ![c] = "done"] /\ result' = [result EXCEPT ![c] = r]
          /\ pending' = pending \ {id[c]}
          /\ UNCHANGED <<id, nextID, reply, shut, reader, outShut, panicked>>
      BY <2>4, <3>2 DEF Mcp!Wait, Mcp!Return, Mcp!wire
    <3>4. McpCallInv'
      BY <2>0, <3>1, <3>3 DEF McpInv, McpCallInv
    <3>5. McpTableInv'
      BY <3>3 DEF McpInv, McpTableInv
    <3> QED
      BY <3>3, <3>4, <3>5, <2>A, <2>D DEF McpInv
  <2>5. ASSUME NEW c \in Callers, Mcp!Cancel(c) PROVE McpInv'
    BY <2>5, <2>A, <2>B, <2>C, <2>D
       DEF Mcp!Cancel, Mcp!calls, Mcp!table, Mcp!wire, McpInv
  <2>6. CASE Mcp!ServerReads \/ Mcp!ServerWrites \/ Mcp!ServerDies
    <3>1. UNCHANGED <<pc, id, result, nextID, pending, reply, shut, reader, outShut, panicked>>
      BY <2>6 DEF Mcp!ServerReads, Mcp!ServerWrites, Mcp!ServerDies, Mcp!calls,
                  Mcp!table, Mcp!wire
    <3> QED
      BY <3>1, <2>A, <2>B, <2>C, <2>D DEF McpInv
  <2>7. CASE Mcp!Read
    <3>1. McpWireInv'
      BY <2>7 DEF Mcp!Read, McpInv, McpWireInv
    <3> QED
      BY <2>7, <3>1, <2>A, <2>B, <2>C DEF Mcp!Read, Mcp!calls, Mcp!table, McpInv
  <2>8. CASE Mcp!Forward
    <3>1. McpWireInv'
      BY <2>8 DEF Mcp!Forward, McpInv, McpWireInv
    <3> QED
      BY <2>8, <3>1, <2>A, <2>B, <2>C DEF Mcp!Forward, Mcp!calls, Mcp!table, McpInv
  <2>9. CASE Mcp!Dispatch
    <3>1. McpTableInv' /\ panicked' = FALSE
      BY <2>0, <2>9 DEF Mcp!Dispatch, McpInv, McpTableInv, McpWireInv
    <3>2. McpWireInv'
      BY <2>9, <3>1 DEF Mcp!Dispatch, McpInv, McpWireInv
    <3> QED
      BY <2>9, <3>1, <3>2, <2>A, <2>B DEF Mcp!Dispatch, Mcp!calls, McpInv
  <2>10. CASE Mcp!LoopEnds
    <3>1. McpTableInv'
      BY <2>10 DEF Mcp!LoopEnds, Mcp!CloseChannels, McpInv, McpTableInv
    <3> QED
      BY <2>10, <3>1, <2>A, <2>B, <2>D DEF Mcp!LoopEnds, Mcp!calls, Mcp!wire, McpInv
  <2>11. CASE Mcp!CloseBegins \/ Mcp!CloseWaits
    <3>1. UNCHANGED <<pc, id, result, nextID, pending, reply, shut, reader, outShut, panicked>>
      BY <2>11 DEF Mcp!CloseBegins, Mcp!CloseWaits, Mcp!calls, Mcp!table, Mcp!wire
    <3> QED
      BY <3>1, <2>A, <2>B, <2>C, <2>D DEF McpInv
  <2>12. CASE Mcp!CloseOut
    <3>1. McpWireInv'
      BY <2>12 DEF Mcp!CloseOut, McpInv, McpWireInv
    <3> QED
      BY <2>12, <3>1, <2>A, <2>B, <2>C DEF Mcp!CloseOut, Mcp!calls, Mcp!table, McpInv
  <2>13. CASE Mcp!ClosePending
    <3>1. McpTableInv'
      BY <2>13 DEF Mcp!ClosePending, Mcp!CloseChannels, McpInv, McpTableInv
    <3> QED
      BY <2>13, <3>1, <2>A, <2>B, <2>D DEF Mcp!ClosePending, Mcp!calls, Mcp!wire, McpInv
  <2>14. CASE UNCHANGED Mcp!vars
    BY <2>14, <2>A, <2>B, <2>C, <2>D DEF Mcp!vars, McpInv
  <2> QED
    BY <2>1, <2>2, <2>3, <2>4, <2>5, <2>6, <2>7, <2>8, <2>9, <2>10, <2>11, <2>12,
       <2>13, <2>14 DEF Mcp!Next
<1>3. McpInv => Mcp!OwnReply /\ Mcp!NoPanic
  BY McpFinite DEF McpInv, McpIdInv, McpCallInv, McpWireInv, Mcp!OwnReply, Mcp!NoPanic
<1> QED
  BY <1>1, <1>2, <1>3, PTL DEF Mcp!Spec

-----------------------------------------------------------------------------
(* edit_file. *)

Pieces == {Old, New, Other}

\* What is about to be written comes from an entire read.
EditInv ==
    /\ file \in Seq(Pieces) /\ body \in Seq(Pieces) /\ base \in Seq(Pieces)
    /\ all \in BOOLEAN
    /\ pc # "idle" => outcome = "running"
    /\ pc = "replace" => body = base
    /\ pc = "write" =>
         /\ Len(body) = Len(base)
         /\ \A i \in DOMAIN base : body[i] = base[i] \/ (base[i] = Old /\ body[i] = New)
         /\ all \/ Edit!Cardinality(Edit!Matches(base)) = 1
         /\ Edit!Matches(body) = {}

\* One match and no more: counting and being the only one are the same.
LEMMA OneMatch ==
    ASSUME NEW s \in Seq(Pieces), Edit!Matches(s) # {},
           ~(Edit!Cardinality(Edit!Matches(s)) > 1)
    PROVE  /\ Edit!Cardinality(Edit!Matches(s)) = 1
           /\ \E k \in DOMAIN s : Edit!Matches(s) = {k}
<1> DEFINE M == Edit!Matches(s)
<1>1. Edit!Cardinality(M) = Cardinality(M)
  BY DEF Edit!Cardinality, Cardinality
<1>2. IsFiniteSet(M)
  <2>1. M \subseteq 1..Len(s)
    BY DEF Edit!Matches
  <2> QED
    BY <2>1, FS_Interval, FS_Subset
<1>3. Cardinality(M) \in Nat /\ Cardinality(M) # 0
  BY <1>2, FS_CardinalityType, FS_EmptySet
<1>4. Cardinality(M) = 1
  BY <1>1, <1>3
<1>5. PICK k : M = {k}
  BY <1>2, <1>4, FS_Singleton
<1>6. k \in DOMAIN s
  BY <1>5 DEF Edit!Matches
<1> QED
  BY <1>1, <1>4, <1>5, <1>6

\* An edit writes back the file it read, entire, with the replacement at the
\* places of the old text only, and at the one place when it was not asked
\* for all: for any file, any limits and any appends in between.
THEOREM EditIsExactCorrect ==
    ASSUME Edit!EditBounds
    PROVE  Edit!Spec => [][Edit!EditIsExact /\ Edit!EditIsUnambiguous]_(Edit!vars)
<1>1. Edit!Init => EditInv
  <2> SUFFICES ASSUME Edit!Init PROVE EditInv
    OBVIOUS
  <2>1. file \in Seq(Pieces)
    BY DEF Edit!Init, Edit!Files, Pieces, Edit!EditBounds
  <2>2. pc = "idle" /\ all = FALSE /\ body = <<>> /\ base = <<>>
    BY DEF Edit!Init
  <2>3. body \in Seq(Pieces) /\ base \in Seq(Pieces)
    BY <2>2
  <2>4. all \in BOOLEAN
    BY <2>2
  <2> QED
    BY <2>1, <2>2, <2>3, <2>4 DEF EditInv
<1>2. EditInv /\ [Edit!Next]_(Edit!vars) =>
        EditInv' /\ Edit!EditIsExact /\ Edit!EditIsUnambiguous
  <2> SUFFICES ASSUME EditInv, [Edit!Next]_(Edit!vars)
               PROVE  EditInv' /\ Edit!EditIsExact /\ Edit!EditIsUnambiguous
    OBVIOUS
  <2> USE DEF EditInv, Edit!EditIsExact, Edit!EditIsUnambiguous
  <2>1. ASSUME NEW a \in BOOLEAN, Edit!StartEdit(a)
        PROVE  EditInv' /\ Edit!EditIsExact /\ Edit!EditIsUnambiguous
    BY <2>1 DEF Edit!StartEdit
  <2>2. CASE Edit!Stat
    BY <2>2 DEF Edit!Stat, Edit!Fails
  <2>3. CASE Edit!Read
    <3>1. CASE Docker /\ Len(file) > MaxEditFileBytes
      <4>1. \E i \in DOMAIN Edit!Capture(file) : Edit!Capture(file)[i] = Edit!Banner
        <5> DEFINE n == MaxEditFileBytes
                   cut == SubSeq(file, 1, n)
        <5>1. n \in Nat /\ cut \in Seq(Pieces) /\ Len(cut) = n
          BY <3>1 DEF Edit!EditBounds
        <5> HIDE DEF cut
        <5>2. n + 1 \in DOMAIN (cut \o <<Edit!Banner>>)
              /\ (cut \o <<Edit!Banner>>)[n + 1] = Edit!Banner
          BY <5>1
        <5>3. Edit!Capture(file) = cut \o <<Edit!Banner>>
          BY <3>1 DEF Edit!Capture, cut
        <5> QED
          BY <5>2, <5>3
      <4> QED
        BY <2>3, <4>1 DEF Edit!Read, Edit!Fails
    <3>2. CASE ~(Docker /\ Len(file) > MaxEditFileBytes)
      BY <2>3, <3>2 DEF Edit!Read, Edit!Fails, Edit!Capture
    <3> QED
      BY <3>1, <3>2
  <2>4. CASE Edit!Replace
    <3>1. CASE ~Edit!Replaceable(body)
      BY <2>4, <3>1 DEF Edit!Replace, Edit!Fails
    <3>2. CASE Edit!Replaceable(body)
      <4> DEFINE hit(i) == body[i] = Old /\ (all \/ \A j \in Edit!Matches(body) : i <= j)
      <4>1. /\ pc = "replace" /\ pc' = "write" /\ body = base /\ base' = base /\ all' = all
            /\ file' = file /\ outcome' = outcome /\ outcome = "running"
            /\ body' = [i \in DOMAIN body |-> IF hit(i) THEN New ELSE body[i]]
        BY <2>4, <3>2 DEF Edit!Replace
      <4>2. body' \in Seq(Pieces) /\ Len(body') = Len(body) /\ DOMAIN body' = DOMAIN body
            /\ \A i \in DOMAIN body : body'[i] = IF hit(i) THEN New ELSE body[i]
        BY <4>1 DEF Pieces
      <4>3. \A i \in DOMAIN body : body[i] = Old => hit(i)
        <5>1. CASE all
          BY <5>1
        <5>2. CASE ~all
          <6>1. PICK k \in DOMAIN body : Edit!Matches(body) = {k}
            BY <3>2, <5>2, OneMatch DEF Edit!Replaceable
          <6> QED
            BY <6>1 DEF Edit!Matches
        <5> QED
          BY <5>1, <5>2
      <4>4. Edit!Matches(body)' = {}
        BY <4>2, <4>3 DEF Edit!Matches, Edit!EditBounds
      <4>5. all \/ Edit!Cardinality(Edit!Matches(base)) = 1
        BY <3>2, <4>1, OneMatch DEF Edit!Replaceable
      <4>6. (all \/ Edit!Cardinality(Edit!Matches(base)) = 1)'
        BY <4>1, <4>5 DEF Edit!Matches, Edit!Cardinality
      <4> HIDE DEF hit
      <4>7. \A i \in DOMAIN base : body'[i] = base[i] \/ (base[i] = Old /\ body'[i] = New)
        BY <4>1, <4>2 DEF hit
      <4> QED
        BY <4>1, <4>2, <4>4, <4>6, <4>7
    <3> QED
      BY <3>1, <3>2
  <2>5. CASE Edit!Write
    <3>1. /\ file' = body /\ pc = "write" /\ pc' = "idle"
          /\ UNCHANGED <<all, body, base>>
      BY <2>5 DEF Edit!Write
    <3>2. Edit!Matches(file') = Edit!Matches(body)
      BY <3>1
    <3> QED
      BY <3>1, <3>2
  <2>6. CASE Edit!WriteFails
    BY <2>6 DEF Edit!WriteFails, Edit!Fails
  <2>7. ASSUME NEW x \in {Old, Other}, Edit!Append1(x)
        PROVE  EditInv' /\ Edit!EditIsExact /\ Edit!EditIsUnambiguous
    BY <2>7 DEF Edit!Append1, Pieces, Edit!Matches
  <2>8. CASE UNCHANGED Edit!vars
    BY <2>8 DEF Edit!vars, Edit!Matches
  <2> QED
    BY <2>1, <2>2, <2>3, <2>4, <2>5, <2>6, <2>7, <2>8 DEF Edit!Next
<1> QED
  BY <1>1, <1>2, PTL DEF Edit!Spec

-----------------------------------------------------------------------------
(* Subagents and focused tasks. *)

Events == [type : {"message", "delta", "end"}, value : Nat]
Results == [ok : BOOLEAN, err : BOOLEAN, report : Nat]

SubType ==
    /\ kind \in [Sub!Depths -> {"subagent", "focused"}]
    /\ call \in [Sub!Depths -> {"idle", "setup", "draining", "returned"}]
    /\ turn \in [0..Levels -> {"none", "running", "ended"}]
    /\ stop \in [0..Levels -> BOOLEAN]
    /\ chan \in [Sub!Depths -> Seq(Events)]
    /\ said \in [Sub!Depths -> Nat] /\ last \in [Sub!Depths -> Nat]
    /\ heard \in [Sub!Depths -> Nat]
    /\ reason \in [Sub!Depths -> Sub!Reasons \cup {"none"}]
    /\ result \in [Sub!Depths -> Results]

\* A call in progress keeps its caller's turn running, and its child was
\* allowed; a child that runs on after its call was told to stop, and then so
\* was every turn above it that still runs.
ChainAt(d) ==
    /\ call[d] \in {"setup", "draining"} => turn[d - 1] = "running"
    /\ call[d] = "setup" =>
         /\ turn[d] = "none" /\ d <= Sub!resolvedMaxDepth
         /\ d > 1 => kind[d - 1] # "focused"
    /\ turn[d] = "running" =>
         /\ d <= Sub!resolvedMaxDepth
         /\ d > 1 /\ turn[d - 1] = "running" => kind[d - 1] # "focused"
         /\ stop[d] \/ call[d] = "draining"
         /\ stop[d] => \A e \in 0..(d - 1) : turn[e] = "running" => stop[e]
    /\ call[d] = "setup" => ~stop[d]

\* The end of a turn is its last event and says how it ended; what was heard
\* was said.
HeardAt(d) ==
    /\ \A i \in DOMAIN chan[d] :
         /\ chan[d][i].type = "end" => turn[d] # "running"
         /\ chan[d][i].type = "end" /\ chan[d][i].value = 1 => reason[d] = "completed"
         /\ chan[d][i].type = "message" => last[d] > 0
    /\ heard[d] > 0 => last[d] > 0
    /\ call[d] = "returned" /\ result[d].ok =>
         /\ turn[d] # "running" /\ reason[d] = "completed"
         /\ kind[d] = "subagent" => last[d] > 0

SubInv == SubType /\ \A d \in Sub!Depths : ChainAt(d) /\ HeardAt(d)

LEMMA SubDepths ==
    ASSUME Sub!SubagentAssumption
    PROVE  /\ Sub!resolvedMaxDepth \in Nat /\ 1 <= Sub!resolvedMaxDepth
           /\ Levels \in Nat /\ Sub!Depths = 1..Levels
  BY DEF Sub!SubagentAssumption, Sub!resolvedMaxDepth, Sub!DefaultSubagentMaxDepth,
         Sub!MaxSubagentDepth, Sub!Depths

\* A level none of whose state changed, nor that of its parent.
LEMMA SubUntouched ==
    ASSUME Sub!SubagentAssumption, SubInv, NEW e \in Sub!Depths,
           call'[e] = call[e], turn'[e] = turn[e], turn'[e - 1] = turn[e - 1],
           stop'[e] = stop[e], e > 1 => kind'[e - 1] = kind[e - 1],
           turn[e] = "running" /\ stop[e] =>
             \A f \in 0..(e - 1) : turn'[f] = "running" => stop'[f]
    PROVE  ChainAt(e)'
  BY SubDepths DEF SubInv, ChainAt

LEMMA HeardUntouched ==
    ASSUME SubInv, NEW e \in Sub!Depths, turn'[e] = turn[e], reason'[e] = reason[e],
           chan'[e] = chan[e], last'[e] = last[e], heard'[e] = heard[e],
           call'[e] = call[e], result'[e] = result[e], kind'[e] = kind[e]
    PROVE  HeardAt(e)'
  BY DEF SubInv, HeardAt

LEMMA SubFailure ==
    /\ Sub!None \in Results /\ Sub!None.ok = FALSE
    /\ Sub!Failed \in Results /\ Sub!Failed.ok = FALSE
  BY DEF Sub!None, Sub!Failed, Results

LEMMA SubLaunch ==
    ASSUME Sub!SubagentAssumption, SubInv, NEW d \in Sub!Depths,
           NEW k \in {"subagent", "focused"}, Sub!Launch(d, k)
    PROVE  SubInv'
<1> USE SubDepths
<1>1. /\ turn[d - 1] = "running" /\ call[d] \notin {"setup", "draining"}
      /\ turn[d] # "running" /\ k \in Sub!Delegates(d - 1)
  BY DEF Sub!Launch, Sub!Free, Sub!Delegating
<1>2. d <= Sub!resolvedMaxDepth /\ (d > 1 => kind[d - 1] # "focused")
  BY <1>1 DEF Sub!Delegates, Sub!childMayDelegate, Sub!buildFocusedTaskRegistry
<1>3. /\ kind' = [kind EXCEPT ![d] = k] /\ turn' = [turn EXCEPT ![d] = "none"]
      /\ stop' = [stop EXCEPT ![d] = FALSE]
      /\ UNCHANGED <<reason, chan, said, last, heard>>
      /\ \/ /\ call' = [call EXCEPT ![d] = "setup"]
            /\ result' = [result EXCEPT ![d] = Sub!None]
         \/ /\ call' = [call EXCEPT ![d] = "returned"]
            /\ result' = [result EXCEPT ![d] = Sub!Failed]
  BY DEF Sub!Launch
<1>4. SubType'
  <2>1. result' \in [Sub!Depths -> Results]
    BY <1>3, SubFailure DEF SubInv, SubType
  <2>2. stop' \in [0..Levels -> BOOLEAN]
    BY <1>3 DEF SubInv, SubType
  <2>3. turn' \in [0..Levels -> {"none", "running", "ended"}]
    BY <1>3 DEF SubInv, SubType
  <2> QED
    BY <1>3, <2>1, <2>2, <2>3 DEF SubInv, SubType
<1>a. /\ turn'[d] = "none" /\ call'[d] \in {"setup", "returned"}
      /\ \A f \in 0..Levels : f # d => turn'[f] = turn[f]
      /\ \A f \in Sub!Depths : f # d => /\ call'[f] = call[f] /\ kind'[f] = kind[f]
                                      /\ result'[f] = result[f]
  BY <1>3 DEF SubInv, SubType
<1>b. stop'[d] = FALSE /\ \A f \in 0..Levels : f # d => stop'[f] = stop[f]
  BY <1>3 DEF SubInv, SubType
<1>c. result'[d].ok = FALSE
  BY <1>3, SubFailure DEF SubInv, SubType
<1>5. ASSUME NEW e \in Sub!Depths PROVE ChainAt(e)'
  <2>1. CASE e = d
    BY <1>1, <1>2, <1>a, <1>b, <2>1 DEF ChainAt
  <2>2. CASE e = d + 1
    <3>1. call[e] \notin {"setup", "draining"}
      BY <1>1, <2>2 DEF SubInv, ChainAt
    <3> QED
      BY <1>a, <1>b, <2>2, <3>1 DEF SubInv, ChainAt
  <2>3. CASE e # d /\ e # d + 1
    <3>1. /\ call'[e] = call[e] /\ turn'[e] = turn[e] /\ turn'[e - 1] = turn[e - 1]
          /\ stop'[e] = stop[e] /\ (e > 1 => kind'[e - 1] = kind[e - 1])
      BY <1>a, <1>b, <2>3
    <3>2. \A f \in 0..(e - 1) : turn'[f] = "running" => turn[f] = "running" /\ stop'[f] = stop[f]
      BY <1>a, <1>b
    <3>3. turn[e] = "running" /\ stop[e] =>
            \A f \in 0..(e - 1) : turn'[f] = "running" => stop'[f]
      BY <3>2 DEF SubInv, ChainAt
    <3> QED
      BY <3>1, <3>3, SubUntouched
  <2> QED
    BY <2>1, <2>2, <2>3
<1>6. ASSUME NEW e \in Sub!Depths PROVE HeardAt(e)'
  <2>1. CASE e = d
    BY <1>a, <1>c, <1>3, <2>1 DEF SubInv, HeardAt
  <2>2. CASE e # d
    BY <1>a, <1>3, <2>2, HeardUntouched
  <2> QED
    BY <2>1, <2>2
<1> QED
  BY <1>4, <1>5, <1>6 DEF SubInv

LEMMA SubSendUser ==
    ASSUME Sub!SubagentAssumption, SubInv, NEW d \in Sub!Depths, Sub!SendUser(d)
    PROVE  SubInv'
<1> USE SubDepths
<1>0. UNCHANGED <<kind, stop>> /\ call[d] = "setup"
  BY DEF Sub!SendUser
<1>1. CASE stop[d - 1]
  <2>1. /\ call' = [call EXCEPT ![d] = "returned"]
        /\ result' = [result EXCEPT ![d] = Sub!Failed]
        /\ UNCHANGED <<turn, reason, chan, said, last, heard>>
    BY <1>1 DEF Sub!SendUser
  <2>2. SubType'
    BY <1>0, <2>1, SubFailure DEF SubInv, SubType
  <2>a. call'[d] = "returned" /\ \A f \in Sub!Depths : f # d => call'[f] = call[f]
    BY <2>1 DEF SubInv, SubType
  <2>3. ASSUME NEW e \in Sub!Depths PROVE ChainAt(e)'
    <3>1. CASE e = d
      BY <1>0, <2>1, <2>a, <3>1 DEF SubInv, ChainAt
    <3>2. CASE e # d
      <4>1. turn[e] = "running" /\ stop[e] =>
              \A f \in 0..(e - 1) : turn'[f] = "running" => stop'[f]
        BY <1>0, <2>1 DEF SubInv, ChainAt
      <4> QED
        BY <1>0, <2>1, <2>a, <3>2, <4>1, SubUntouched
    <3> QED
      BY <3>1, <3>2
  <2>4. ASSUME NEW e \in Sub!Depths PROVE HeardAt(e)'
    <3>1. CASE e = d
      BY <1>0, <2>1, <3>1, SubFailure DEF SubInv, SubType, HeardAt
    <3>2. CASE e # d
      BY <1>0, <2>1, <3>2, HeardUntouched DEF SubInv, SubType
    <3> QED
      BY <3>1, <3>2
  <2> QED
    BY <2>2, <2>3, <2>4 DEF SubInv
<1>2. CASE ~stop[d - 1]
  <2>1. /\ call' = [call EXCEPT ![d] = "draining"]
        /\ turn' = [turn EXCEPT ![d] = "running"]
        /\ reason' = [reason EXCEPT ![d] = "none"]
        /\ chan' = [chan EXCEPT ![d] = <<>>]
        /\ said' = [said EXCEPT ![d] = 0] /\ last' = [last EXCEPT ![d] = 0]
        /\ heard' = [heard EXCEPT ![d] = 0] /\ UNCHANGED result
    BY <1>2 DEF Sub!SendUser
  <2>2. SubType'
    BY <1>0, <2>1 DEF SubInv, SubType
  <2>3. turn[d] = "none" /\ turn[d - 1] = "running" /\ stop[d] = FALSE
    BY <1>0 DEF SubInv, SubType, ChainAt
  <2>a. /\ turn'[d] = "running" /\ \A f \in 0..Levels : f # d => turn'[f] = turn[f]
        /\ call'[d] = "draining" /\ \A f \in Sub!Depths : f # d => call'[f] = call[f]
    BY <2>1 DEF SubInv, SubType
  <2>4. ASSUME NEW e \in Sub!Depths PROVE ChainAt(e)'
    <3>1. CASE e = d
      BY <1>0, <2>1, <2>3, <3>1 DEF SubInv, SubType, ChainAt
    <3>2. CASE e < d
      <4>1. turn[e] = "running" /\ stop[e] =>
              \A f \in 0..(e - 1) : turn'[f] = "running" => stop'[f]
        BY <1>0, <2>a, <3>2 DEF SubInv, ChainAt
      <4> QED
        BY <1>0, <2>a, <3>2, <4>1, SubUntouched
    <3>3. CASE e > d
      <4>1. ~(turn[e] = "running" /\ stop[e])
        BY <1>2, <2>3, <3>3 DEF SubInv, ChainAt
      <4>2. CASE e = d + 1
        <5>1. turn[e] # "running" /\ call[e] \notin {"setup", "draining"}
          BY <2>3, <4>1, <4>2 DEF SubInv, ChainAt
        <5>2. turn'[e] = turn[e] /\ call'[e] = call[e]
          BY <2>1, <4>2 DEF SubInv, SubType
        <5> QED
          BY <5>1, <5>2 DEF ChainAt
      <4>3. CASE e # d + 1
        <5>1. e \in 0..Levels /\ e - 1 \in 0..Levels /\ e - 1 # d /\ e # d
          BY <1>0, <3>3, <4>3
        <5>2. call'[e] = call[e] /\ turn'[e] = turn[e] /\ turn'[e - 1] = turn[e - 1]
          BY <2>a, <5>1
        <5> QED
          BY <1>0, <4>1, <5>2, SubUntouched
      <4> QED
        BY <4>2, <4>3
    <3> QED
      BY <3>1, <3>2, <3>3
  <2>5. ASSUME NEW e \in Sub!Depths PROVE HeardAt(e)'
    <3>1. CASE e = d
      BY <1>0, <2>1, <3>1 DEF SubInv, SubType, HeardAt
    <3>2. CASE e # d
      BY <1>0, <2>1, <3>2, HeardUntouched DEF SubInv, SubType
    <3> QED
      BY <3>1, <3>2
  <2> QED
    BY <2>2, <2>4, <2>5 DEF SubInv
<1> QED
  BY <1>1, <1>2

\* An event that is published, or dropped because the channel is full.
LEMMA SubPublished ==
    ASSUME SubType, NEW d \in Sub!Depths, NEW ev \in Events, Sub!publish(d, ev)
    PROVE  /\ chan' \in [Sub!Depths -> Seq(Events)]
           /\ \A e \in Sub!Depths : e # d => chan'[e] = chan[e]
           /\ \A i \in DOMAIN chan'[d] :
                chan'[d][i] = ev \/ (i \in DOMAIN chan[d] /\ chan'[d][i] = chan[d][i])
  BY DEF SubType, Sub!publish

LEMMA SubSay ==
    ASSUME Sub!SubagentAssumption, SubInv, NEW d \in Sub!Depths, NEW words \in BOOLEAN,
           Sub!Say(d, words)
    PROVE  SubInv'
<1> DEFINE ev == [type |-> IF words THEN "message" ELSE "delta",
                  value |-> IF words THEN said'[d] ELSE 0]
<1>1. /\ turn[d] = "running" /\ Sub!publish(d, ev)
      /\ said' = [said EXCEPT ![d] = @ + 1]
      /\ last' = [last EXCEPT ![d] = IF words THEN said'[d] ELSE @]
      /\ UNCHANGED <<kind, call, turn, reason, stop, heard, result>>
  BY DEF Sub!Say, Sub!Free
<1>2. said'[d] \in Nat /\ said'[d] > 0 /\ said' \in [Sub!Depths -> Nat]
  BY <1>1 DEF SubInv, SubType
<1>3. ev \in Events /\ ev.type # "end" /\ (ev.type = "message" => words)
  BY <1>2 DEF Events
<1> HIDE DEF ev
<1>4. /\ last' \in [Sub!Depths -> Nat]
      /\ last'[d] >= last[d] \/ last'[d] > 0
      /\ words => last'[d] > 0
      /\ last[d] > 0 => last'[d] > 0
      /\ \A e \in Sub!Depths : e # d => last'[e] = last[e]
  BY <1>1, <1>2 DEF SubInv, SubType
<1>5. /\ chan' \in [Sub!Depths -> Seq(Events)]
      /\ \A e \in Sub!Depths : e # d => chan'[e] = chan[e]
      /\ \A i \in DOMAIN chan'[d] :
           chan'[d][i] = ev \/ (i \in DOMAIN chan[d] /\ chan'[d][i] = chan[d][i])
  BY <1>1, <1>3, SubPublished DEF SubInv
<1>6. last' \in [Sub!Depths -> Nat]
  BY <1>1, <1>2 DEF SubInv, SubType
<1>7. SubType'
  BY <1>1, <1>2, <1>5, <1>6 DEF SubInv, SubType
<1>8. ASSUME NEW e \in Sub!Depths PROVE ChainAt(e)'
  BY <1>1 DEF SubInv, ChainAt
<1>9. ASSUME NEW e \in Sub!Depths PROVE HeardAt(e)'
  <2>1. CASE e = d
    BY <1>1, <1>3, <1>4, <1>5, <2>1 DEF SubInv, HeardAt
  <2>2. CASE e # d
    BY <1>1, <1>4, <1>5, <2>2, HeardUntouched
  <2> QED
    BY <2>1, <2>2
<1> QED
  BY <1>7, <1>8, <1>9 DEF SubInv

LEMMA SubEndTurn ==
    ASSUME Sub!SubagentAssumption, SubInv, NEW d \in Sub!Depths, NEW why \in Sub!Reasons,
           Sub!EndTurn(d, why)
    PROVE  SubInv'
<1> USE SubDepths
<1> DEFINE ev == [type |-> "end", value |-> IF why = "completed" THEN 1 ELSE 0]
<1>1. /\ turn[d] = "running" /\ Sub!publish(d, ev)
      /\ d + 1 \in Sub!Depths => call[d + 1] \notin {"setup", "draining"}
      /\ turn' = [turn EXCEPT ![d] = "ended"] /\ reason' = [reason EXCEPT ![d] = why]
      /\ UNCHANGED <<kind, call, stop, said, last, heard, result>>
  BY DEF Sub!EndTurn, Sub!Free, Sub!Delegating
<1>2. ev \in Events /\ ev.type = "end" /\ (ev.value = 1 => why = "completed")
  BY DEF Events
<1> HIDE DEF ev
<1>3. /\ chan' \in [Sub!Depths -> Seq(Events)]
      /\ \A e \in Sub!Depths : e # d => chan'[e] = chan[e]
      /\ \A i \in DOMAIN chan'[d] :
           chan'[d][i] = ev \/ (i \in DOMAIN chan[d] /\ chan'[d][i] = chan[d][i])
  BY <1>1, <1>2, SubPublished DEF SubInv
<1>4. /\ turn'[d] = "ended" /\ \A f \in 0..Levels : f # d => turn'[f] = turn[f]
      /\ reason'[d] = why /\ \A f \in Sub!Depths : f # d => reason'[f] = reason[f]
  BY <1>1 DEF SubInv, SubType
<1>5. SubType'
  BY <1>1, <1>3 DEF SubInv, SubType
<1>6. ASSUME NEW e \in Sub!Depths PROVE ChainAt(e)'
  BY <1>1, <1>4 DEF SubInv, ChainAt
<1>7. ASSUME NEW e \in Sub!Depths PROVE HeardAt(e)'
  <2>1. CASE e = d
    <3>1. \A i \in DOMAIN chan[d] : chan[d][i].type # "end"
      BY <1>1 DEF SubInv, HeardAt
    <3>2. ASSUME NEW i \in DOMAIN chan'[d]
          PROVE  /\ chan'[d][i].type = "end" /\ chan'[d][i].value = 1 => why = "completed"
                 /\ chan'[d][i].type = "message" => last[d] > 0
      <4>1. CASE chan'[d][i] = ev
        BY <1>2, <4>1
      <4>2. CASE i \in DOMAIN chan[d] /\ chan'[d][i] = chan[d][i]
        BY <3>1, <4>2 DEF SubInv, HeardAt
      <4> QED
        BY <1>3, <4>1, <4>2
    <3>3. ~(call[d] = "returned" /\ result[d].ok) /\ (heard[d] > 0 => last[d] > 0)
      BY <1>1 DEF SubInv, HeardAt
    <3>4. /\ turn'[d] # "running" /\ reason'[d] = why
          /\ call'[d] = call[d] /\ result'[d] = result[d]
          /\ heard'[d] = heard[d] /\ last'[d] = last[d]
      BY <1>1, <1>4
    <3> QED
      BY <2>1, <3>2, <3>3, <3>4 DEF HeardAt
  <2>2. CASE e # d
    BY <1>1, <1>3, <1>4, <2>2, HeardUntouched
  <2> QED
    BY <2>1, <2>2
<1> QED
  BY <1>5, <1>6, <1>7 DEF SubInv

\* A call that returns, with its child's state as it was but for the stop.
LEMMA SubReturned ==
    ASSUME Sub!SubagentAssumption, SubInv, NEW d \in Sub!Depths, NEW r \in Results,
           call[d] = "draining", Sub!Return(d, r),
           UNCHANGED <<kind, turn, reason, said, last>>,
           turn[d] # "running" \/ stop'[d]
    PROVE  /\ call' \in [Sub!Depths -> {"idle", "setup", "draining", "returned"}]
           /\ result' \in [Sub!Depths -> Results]
           /\ call'[d] = "returned" /\ result'[d] = r
           /\ \A e \in Sub!Depths : e # d => call'[e] = call[e] /\ result'[e] = result[e]
  BY DEF SubInv, SubType, Sub!Return

LEMMA SubDrain ==
    ASSUME Sub!SubagentAssumption, SubInv, NEW d \in Sub!Depths, Sub!drainSubagent(d)
    PROVE  SubInv'
<1> USE SubDepths
<1> DEFINE ev == Head(chan[d])
<1>1. /\ call[d] = "draining" /\ chan[d] # <<>> /\ chan' = [chan EXCEPT ![d] = Tail(@)]
      /\ heard' = [heard EXCEPT ![d] = IF ev.type = "message" THEN ev.value ELSE @]
      /\ UNCHANGED <<kind, turn, reason, stop, said, last>>
      /\ IF ev.type = "end"
         THEN \E ok \in Sub!Verdicts(d, ev.value) :
                Sub!Return(d, [ok |-> ok, err |-> FALSE, report |-> heard[d]])
         ELSE UNCHANGED <<call, result>>
  BY DEF Sub!drainSubagent
<1>2. chan[d] \in Seq(Events) /\ ev \in Events /\ ev = chan[d][1] /\ 1 \in DOMAIN chan[d]
  BY <1>1 DEF SubInv, SubType
<1>3. /\ ev.type = "end" => turn[d] # "running"
      /\ ev.type = "end" /\ ev.value = 1 => reason[d] = "completed"
      /\ ev.type = "message" => last[d] > 0
  BY <1>2 DEF SubInv, HeardAt
<1> HIDE DEF ev
<1>4. /\ chan' \in [Sub!Depths -> Seq(Events)] /\ chan'[d] = Tail(chan[d])
      /\ \A e \in Sub!Depths : e # d => chan'[e] = chan[e]
  BY <1>1, <1>2 DEF SubInv, SubType
<1>5. \A i \in DOMAIN chan'[d] : i + 1 \in DOMAIN chan[d] /\ chan'[d][i] = chan[d][i + 1]
  BY <1>1, <1>2, <1>4
<1>6. /\ heard' \in [Sub!Depths -> Nat] /\ (heard'[d] > 0 => last[d] > 0)
      /\ \A e \in Sub!Depths : e # d => heard'[e] = heard[e]
  <2>1. ev.value \in Nat
    BY <1>2 DEF Events
  <2> QED
    BY <1>1, <1>3, <2>1 DEF SubInv, SubType, HeardAt
<1>7. CASE ev.type # "end"
  <2>1. SubType'
    BY <1>1, <1>4, <1>6, <1>7 DEF SubInv, SubType
  <2>2. ASSUME NEW e \in Sub!Depths PROVE ChainAt(e)'
    BY <1>1, <1>7 DEF SubInv, ChainAt
  <2>3. ASSUME NEW e \in Sub!Depths PROVE HeardAt(e)'
    <3>1. CASE e = d
      BY <1>1, <1>4, <1>5, <1>6, <1>7, <3>1 DEF SubInv, HeardAt
    <3>2. CASE e # d
      BY <1>1, <1>4, <1>6, <1>7, <3>2, HeardUntouched
    <3> QED
      BY <3>1, <3>2
  <2> QED
    BY <2>1, <2>2, <2>3 DEF SubInv
<1>8. CASE ev.type = "end"
  <2>1. PICK ok \in Sub!Verdicts(d, ev.value) :
               Sub!Return(d, [ok |-> ok, err |-> FALSE, report |-> heard[d]])
    BY <1>1, <1>8
  <2> DEFINE r == [ok |-> ok, err |-> FALSE, report |-> heard[d]]
  <2>2. /\ ok \in BOOLEAN
        /\ ok => ev.value = 1 /\ (kind[d] = "subagent" => heard[d] > 0)
    <3>1. CASE kind[d] = "focused"
      BY <2>1, <3>1 DEF Sub!Verdicts, Sub!buildFocusedTaskResult
    <3>2. CASE kind[d] # "focused"
      BY <2>1, <3>2 DEF Sub!Verdicts, Sub!runSubagentOk
    <3> QED
      BY <3>1, <3>2
  <2>3. heard[d] \in Nat
    BY DEF SubInv, SubType
  <2>4. r \in Results /\ r.ok = ok
    BY <2>2, <2>3 DEF Results
  <2>5. Sub!Return(d, r)
    BY <2>1
  <2> HIDE DEF r
  <2>6. /\ call' \in [Sub!Depths -> {"idle", "setup", "draining", "returned"}]
        /\ result' \in [Sub!Depths -> Results]
        /\ call'[d] = "returned" /\ result'[d] = r
        /\ \A e \in Sub!Depths : e # d => call'[e] = call[e] /\ result'[e] = result[e]
    BY <1>1, <1>3, <1>8, <2>4, <2>5, SubReturned
  <2>7. SubType'
    BY <1>1, <1>4, <1>6, <2>6 DEF SubInv, SubType
  <2>8. ASSUME NEW e \in Sub!Depths PROVE ChainAt(e)'
    BY <1>1, <1>3, <1>8, <2>6 DEF SubInv, ChainAt
  <2>9. ASSUME NEW e \in Sub!Depths PROVE HeardAt(e)'
    <3>1. CASE e = d
      <4>1. heard[d] > 0 => last[d] > 0
        BY DEF SubInv, HeardAt
      <4>2. \A i \in DOMAIN chan'[d] :
              /\ chan'[d][i].type = "end" => turn[d] # "running"
              /\ chan'[d][i].type = "end" /\ chan'[d][i].value = 1 => reason[d] = "completed"
              /\ chan'[d][i].type = "message" => last[d] > 0
        BY <1>5 DEF SubInv, HeardAt
      <4>3. ok => turn[d] # "running" /\ reason[d] = "completed"
                  /\ (kind[d] = "subagent" => last[d] > 0)
        BY <1>3, <1>8, <2>2, <4>1
      <4> QED
        BY <1>1, <1>6, <2>4, <2>6, <3>1, <4>2, <4>3 DEF HeardAt
    <3>2. CASE e # d
      BY <1>1, <1>4, <1>6, <2>6, <3>2, HeardUntouched
    <3> QED
      BY <3>1, <3>2
  <2> QED
    BY <2>7, <2>8, <2>9 DEF SubInv
<1> QED
  BY <1>7, <1>8

LEMMA SubCancelled ==
    ASSUME Sub!SubagentAssumption, SubInv, NEW d \in Sub!Depths, Sub!drainCancelled(d)
    PROVE  SubInv'
<1> USE SubDepths
<1> DEFINE r == [ok |-> FALSE, err |-> TRUE, report |-> heard[d]]
<1>1. /\ call[d] = "draining" /\ stop[d - 1] /\ stop' = [stop EXCEPT ![d] = TRUE]
      /\ Sub!Return(d, r)
      /\ UNCHANGED <<kind, turn, reason, chan, said, last, heard>>
  BY DEF Sub!drainCancelled
<1>2. r \in Results /\ r.ok = FALSE
  BY DEF SubInv, SubType, Results
<1> HIDE DEF r
<1>3. /\ stop' \in [0..Levels -> BOOLEAN] /\ stop'[d]
      /\ \A f \in 0..Levels : f # d => stop'[f] = stop[f]
      /\ \A f \in 0..Levels : stop[f] => stop'[f]
  BY <1>1 DEF SubInv, SubType
<1>4. /\ call' \in [Sub!Depths -> {"idle", "setup", "draining", "returned"}]
      /\ result' \in [Sub!Depths -> Results]
      /\ call'[d] = "returned" /\ result'[d] = r
      /\ \A e \in Sub!Depths : e # d => call'[e] = call[e] /\ result'[e] = result[e]
  BY <1>1, <1>2, <1>3, SubReturned
<1>5. SubType'
  BY <1>1, <1>3, <1>4 DEF SubInv, SubType
<1>6. \A e \in 0..(d - 1) : turn[e] = "running" => stop[e]
  <2>1. CASE d = 1
    BY <1>1, <2>1
  <2>2. CASE d > 1
    <3>1. d - 1 \in Sub!Depths /\ turn[d - 1] = "running"
      BY <1>1, <2>2 DEF SubInv, ChainAt
    <3>2. \A e \in 0..(d - 2) : turn[e] = "running" => stop[e]
      BY <1>1, <3>1 DEF SubInv, ChainAt
    <3> QED
      BY <1>1, <2>2, <3>2
  <2> QED
    BY <2>1, <2>2
<1>7. ASSUME NEW e \in Sub!Depths PROVE ChainAt(e)'
  <2>1. CASE e = d
    BY <1>1, <1>3, <1>4, <1>6, <2>1 DEF SubInv, ChainAt
  <2>2. CASE e # d
    <3>1. turn[e] = "running" /\ stop[e] =>
            \A f \in 0..(e - 1) : turn'[f] = "running" => stop'[f]
      BY <1>1, <1>3 DEF SubInv, ChainAt
    <3>2. /\ call'[e] = call[e] /\ stop'[e] = stop[e] /\ turn'[e] = turn[e]
          /\ turn'[e - 1] = turn[e - 1] /\ kind' = kind
      BY <1>1, <1>3, <1>4, <2>2
    <3> QED
      BY <3>1, <3>2, SubUntouched
  <2> QED
    BY <2>1, <2>2
<1>8. ASSUME NEW e \in Sub!Depths PROVE HeardAt(e)'
  <2>1. CASE e = d
    BY <1>1, <1>2, <1>4, <2>1 DEF SubInv, HeardAt
  <2>2. CASE e # d
    BY <1>1, <1>4, <2>2, HeardUntouched
  <2> QED
    BY <2>1, <2>2
<1> QED
  BY <1>5, <1>7, <1>8 DEF SubInv

\* The session's own turn is cancelled, or ends.
LEMMA SubRoot ==
    ASSUME Sub!SubagentAssumption, SubInv, Sub!CancelRoot \/ Sub!EndRoot
    PROVE  SubInv'
<1> USE SubDepths
<1>1. /\ UNCHANGED <<kind, call, reason, chan, said, last, heard, result>>
      /\ \/ UNCHANGED turn /\ stop' = [stop EXCEPT ![0] = TRUE]
         \/ /\ UNCHANGED stop /\ turn' = [turn EXCEPT ![0] = "ended"]
            /\ 1 \in Sub!Depths => call[1] \notin {"setup", "draining"}
  BY DEF Sub!CancelRoot, Sub!EndRoot, Sub!Free, Sub!Delegating
<1>2. /\ stop' \in [0..Levels -> BOOLEAN]
      /\ \A f \in 0..Levels : (stop[f] => stop'[f]) /\ (f # 0 => stop'[f] = stop[f])
  BY <1>1 DEF SubInv, SubType
<1>3. /\ turn' \in [0..Levels -> {"none", "running", "ended"}]
      /\ \A f \in 0..Levels :
           /\ turn'[f] = "running" => turn[f] = "running"
           /\ f # 0 => turn'[f] = turn[f]
      /\ turn'[0] = turn[0] \/ (1 \in Sub!Depths => call[1] \notin {"setup", "draining"})
  BY <1>1 DEF SubInv, SubType
<1>4. SubType'
  BY <1>1, <1>2, <1>3 DEF SubInv, SubType
<1>5. ASSUME NEW e \in Sub!Depths PROVE ChainAt(e)'
  <2>1. /\ call'[e] = call[e] /\ turn'[e] = turn[e] /\ stop'[e] = stop[e]
        /\ kind' = kind
    BY <1>1, <1>2, <1>3
  <2>2. turn[e] = "running" /\ stop[e] =>
          \A f \in 0..(e - 1) : turn'[f] = "running" => stop'[f]
    BY <1>2, <1>3 DEF SubInv, ChainAt
  <2>3. CASE e > 1
    BY <1>3, <2>1, <2>2, <2>3, SubUntouched
  <2>4. CASE e = 1
    <3>1. call[1] \in {"setup", "draining"} => turn'[0] = "running"
      BY <1>3, <2>4 DEF SubInv, ChainAt
    <3> QED
      BY <2>1, <2>2, <2>4, <3>1 DEF SubInv, ChainAt
  <2> QED
    BY <2>3, <2>4
<1>6. ASSUME NEW e \in Sub!Depths PROVE HeardAt(e)'
  BY <1>1, <1>3, HeardUntouched
<1> QED
  BY <1>4, <1>5, <1>6 DEF SubInv

LEMMA SubStutter ==
    ASSUME SubInv, UNCHANGED Sub!vars
    PROVE  SubInv'
  BY DEF Sub!vars, SubInv, SubType, ChainAt, HeardAt

LEMMA SubStarts ==
    ASSUME Sub!SubagentAssumption, Sub!Init
    PROVE  SubInv
<1> USE SubDepths
<1>1. SubType
  BY SubFailure DEF Sub!Init, SubType
<1>2. ASSUME NEW d \in Sub!Depths PROVE ChainAt(d)
  BY DEF Sub!Init, ChainAt
<1>3. ASSUME NEW d \in Sub!Depths PROVE HeardAt(d)
  BY DEF Sub!Init, HeardAt
<1> QED
  BY <1>1, <1>2, <1>3 DEF SubInv

\* No child runs deeper than the bound or below a focused task, no child is
\* left running without having been told to stop, and ok is only reported of
\* a turn that completed: for any depth, any channel and any schedule of the
\* callers, the children and their cancellation.
THEOREM SubagentsContainedCorrect ==
    ASSUME Sub!SubagentAssumption
    PROVE  Sub!Spec => []Sub!SubagentsContained
<1>1. Sub!Init => SubInv
  BY SubStarts
<1>2. SubInv /\ [Sub!Next]_(Sub!vars) => SubInv'
  <2> SUFFICES ASSUME SubInv, [Sub!Next]_(Sub!vars) PROVE SubInv'
    OBVIOUS
  <2>1. ASSUME NEW d \in Sub!Depths, Sub!runSubagent(d) \/ Sub!runFocusedTask(d)
        PROVE  SubInv'
    BY <2>1, SubLaunch DEF Sub!runSubagent, Sub!runFocusedTask
  <2>2. ASSUME NEW d \in Sub!Depths, Sub!SendUser(d) PROVE SubInv'
    BY <2>2, SubSendUser
  <2>3. ASSUME NEW d \in Sub!Depths, NEW words \in BOOLEAN, Sub!Say(d, words) PROVE SubInv'
    BY <2>3, SubSay
  <2>4. ASSUME NEW d \in Sub!Depths, NEW why \in Sub!Reasons, Sub!EndTurn(d, why)
        PROVE  SubInv'
    BY <2>4, SubEndTurn
  <2>5. ASSUME NEW d \in Sub!Depths, Sub!drainSubagent(d) PROVE SubInv'
    BY <2>5, SubDrain
  <2>6. ASSUME NEW d \in Sub!Depths, Sub!drainCancelled(d) PROVE SubInv'
    BY <2>6, SubCancelled
  <2>7. CASE Sub!CancelRoot \/ Sub!EndRoot
    BY <2>7, SubRoot
  <2>8. CASE Sub!Done \/ UNCHANGED Sub!vars
    BY <2>8, SubStutter DEF Sub!Done
  <2> QED
    BY <2>1, <2>2, <2>3, <2>4, <2>5, <2>6, <2>7, <2>8 DEF Sub!Next
<1>3. SubInv => Sub!SubagentsContained
  BY SubDepths DEF SubInv, ChainAt, HeardAt, SubType, Sub!SubagentsContained,
     Sub!DepthBounded, Sub!NoOrphan, Sub!OkIsEarned
<1> QED
  BY <1>1, <1>2, <1>3, PTL DEF Sub!Spec
-----------------------------------------------------------------------------
(* The guard of repeated and failing calls. *)

FailKinds == Kinds \union {"none", "not_found"}
Failures == [count : Nat, kind : FailKinds]

\* What the guard counts of a URL and of a host is what happened to it.
WebInv ==
    /\ failed \in [GuardWeb!Urls \union Queries -> Failures]
    /\ hosts \in [GuardWeb!Hosts -> Failures]
    /\ urlFails \in [GuardWeb!Urls -> [transient : Nat, other : Nat]]
    /\ hostBad \in [GuardWeb!Hosts -> Nat]
    /\ \A u \in GuardWeb!Urls :
         /\ failed[u].count = urlFails[u].transient + urlFails[u].other
         /\ urlFails[u].other <= 1 /\ failed[u].count <= 2
         /\ urlFails[u].other = 1 => failed[u].kind \notin GuardWeb!TransientKinds
    /\ \A h \in GuardWeb!Hosts :
         /\ hostBad[h] <= hosts[h].count /\ hostBad[h] <= 2
         /\ hostBad[h] = 2 => hosts[h].kind \in GuardWeb!HostKinds

\* A fetch that runs was let through: its URL failed at most once, for a
\* passing reason, and its host is not given up.
LEMMA FetchLetThrough ==
    ASSUME WebInv, "dynamic_shell" \in Kinds => Apis = {},
           NEW u \in GuardWeb!Urls, GuardWeb!Refusal("fetch", u) = "none"
    PROVE  /\ failed[u].count \in {0, 1} /\ urlFails[u].other = 0
           /\ hostBad[GuardWeb!Host(u)] <= 1
<1> DEFINE h == GuardWeb!Host(u)
<1>1. /\ ~GuardWeb!shouldBlockRepeatedFailedCall("fetch", u)
      /\ ~GuardWeb!shouldBlockFailedFetchHost(u)
  BY DEF GuardWeb!Refusal
<1>2. /\ h \in GuardWeb!Hosts
      /\ failed[u] \in Failures /\ hosts[h] \in Failures /\ hostBad[h] \in Nat
      /\ urlFails[u] \in [transient : Nat, other : Nat]
      /\ failed[u].count = urlFails[u].transient + urlFails[u].other
      /\ urlFails[u].other <= 1
      /\ urlFails[u].other = 1 => failed[u].kind \notin GuardWeb!TransientKinds
  BY DEF WebInv, GuardWeb!Host, GuardWeb!Hosts
<1>3. failed[u].count \in {0, 1} /\ urlFails[u].other = 0
  <2>1. CASE failed[u].count = 0
    BY <1>2, <2>1 DEF Failures
  <2>2. CASE failed[u].count > 0
    <3>1. failed[u].kind \in GuardWeb!TransientKinds /\ ~(failed[u].count >= 2)
      BY <1>1, <2>2 DEF GuardWeb!shouldBlockRepeatedFailedCall,
                        GuardWeb!shouldBlockRepeatedFailedFetch
    <3> QED
      BY <1>2, <2>2, <3>1 DEF Failures
  <2> QED
    BY <1>2, <2>1, <2>2 DEF Failures
<1>4. hostBad[h] <= 1
  <2>1. hosts[h].kind = "blocked" => ~(hosts[h].count >= 2)
    BY <1>1 DEF GuardWeb!shouldBlockFailedFetchHost
  <2>2. hosts[h].kind = "dynamic_shell" => ~(hosts[h].count >= 2)
    <3>1. CASE hosts[h].kind = "dynamic_shell"
      <4>1. Apis = {}
        BY <1>2, <3>1 DEF Failures, FailKinds
      <4> QED
        BY <1>1, <3>1, <4>1 DEF GuardWeb!shouldBlockFailedFetchHost
    <3> QED
      BY <3>1
  <2> QED
    BY <1>2, <2>1, <2>2 DEF WebInv, Failures, GuardWeb!HostKinds
<1> QED
  BY <1>3, <1>4

\* One more fetch, whatever comes of it.
LEMMA FetchKeeps ==
    ASSUME GuardWeb!ToolGuardAssumption, "dynamic_shell" \in Kinds => Apis = {},
           WebInv, NEW u \in GuardWeb!Urls, NEW ok \in BOOLEAN, NEW k,
           (ok /\ k = "none") \/ (~ok /\ k \in Kinds), GuardWeb!Fetch(u, ok, k)
    PROVE  WebInv'
<1> DEFINE h == GuardWeb!Host(u)
           f == IF ok THEN GuardWeb!NoFailure ELSE GuardWeb!FailedOnce(failed[u], k)
           g == IF ok THEN GuardWeb!NoFailure ELSE GuardWeb!FailedOnce(hosts[h], k)
           n == IF ok THEN [transient |-> 0, other |-> 0]
                ELSE IF k \in GuardWeb!TransientKinds
                     THEN [urlFails[u] EXCEPT !.transient = urlFails[u].transient + 1]
                     ELSE [urlFails[u] EXCEPT !.other = urlFails[u].other + 1]
           b == IF ok THEN 0
                ELSE IF k \in GuardWeb!HostKinds THEN hostBad[h] + 1 ELSE hostBad[h]
<1>1. /\ failed' = [failed EXCEPT ![u] = f] /\ hosts' = [hosts EXCEPT ![h] = g]
      /\ urlFails' = [urlFails EXCEPT ![u] = n]
      /\ hostBad' = [hostBad EXCEPT ![h] = b]
  <2>1. /\ failed' = [failed EXCEPT ![u] = f] /\ hosts' = [hosts EXCEPT ![h] = g]
    BY DEF GuardWeb!Fetch, GuardWeb!recordArgumentOutcome
  <2>2. urlFails' = [urlFails EXCEPT ![u] = n]
    <3>1. CASE ok BY <3>1 DEF GuardWeb!Fetch
    <3>2. CASE ~ok /\ k \in GuardWeb!TransientKinds BY <3>2 DEF GuardWeb!Fetch
    <3>3. CASE ~ok /\ k \notin GuardWeb!TransientKinds BY <3>3 DEF GuardWeb!Fetch
    <3> QED BY <3>1, <3>2, <3>3
  <2>3. hostBad' = [hostBad EXCEPT ![h] = b]
    BY DEF GuardWeb!Fetch
  <2> QED
    BY <2>1, <2>2, <2>3
<1>2. /\ failed[u].count \in {0, 1} /\ urlFails[u].other = 0 /\ hostBad[h] <= 1
  BY FetchLetThrough DEF GuardWeb!Fetch, GuardWeb!Runs
<1>3. /\ h \in GuardWeb!Hosts
      /\ failed[u] \in Failures /\ hosts[h] \in Failures /\ hostBad[h] \in Nat
      /\ urlFails[u] \in [transient : Nat, other : Nat]
      /\ failed[u].count = urlFails[u].transient + urlFails[u].other
      /\ hostBad[h] <= hosts[h].count
  BY DEF WebInv, GuardWeb!Host, GuardWeb!Hosts
<1>4. /\ f \in Failures /\ g \in Failures
      /\ n \in [transient : Nat, other : Nat] /\ b \in Nat
  BY <1>3 DEF Failures, FailKinds, GuardWeb!NoFailure, GuardWeb!FailedOnce
<1>5. /\ f.count = n.transient + n.other /\ n.other <= 1 /\ f.count <= 2
      /\ n.other = 1 => f.kind \notin GuardWeb!TransientKinds
  <2>1. CASE ok BY <2>1 DEF GuardWeb!NoFailure
  <2>2. CASE ~ok /\ k \in GuardWeb!TransientKinds
    BY <1>2, <1>3, <2>2 DEF Failures, GuardWeb!FailedOnce
  <2>3. CASE ~ok /\ k \notin GuardWeb!TransientKinds
    BY <1>2, <1>3, <2>3 DEF Failures, GuardWeb!FailedOnce
  <2> QED
    BY <2>1, <2>2, <2>3
<1>6. /\ b <= g.count /\ b <= 2
      /\ b = 2 => g.kind \in GuardWeb!HostKinds
  <2>1. CASE ok BY <2>1 DEF GuardWeb!NoFailure
  <2>2. CASE ~ok
    BY <1>2, <1>3, <2>2 DEF Failures, GuardWeb!FailedOnce
  <2> QED
    BY <2>1, <2>2
<1>7. u \in GuardWeb!Urls \union Queries
  OBVIOUS
<1> HIDE DEF f, g, n, b, h
<1>8. /\ failed' \in [GuardWeb!Urls \union Queries -> Failures]
      /\ hosts' \in [GuardWeb!Hosts -> Failures]
      /\ urlFails' \in [GuardWeb!Urls -> [transient : Nat, other : Nat]]
      /\ hostBad' \in [GuardWeb!Hosts -> Nat]
  BY <1>1, <1>3, <1>4, <1>7 DEF WebInv
<1>9. \A v \in GuardWeb!Urls :
         /\ failed'[v] = IF v = u THEN f ELSE failed[v]
         /\ urlFails'[v] = IF v = u THEN n ELSE urlFails[v]
  BY <1>1, <1>7 DEF WebInv
<1>10. \A x \in GuardWeb!Hosts :
         /\ hosts'[x] = IF x = h THEN g ELSE hosts[x]
         /\ hostBad'[x] = IF x = h THEN b ELSE hostBad[x]
  BY <1>1, <1>3 DEF WebInv
<1> QED
  BY <1>5, <1>6, <1>8, <1>9, <1>10 DEF WebInv

\* A search of a query leaves the URLs alone.
LEMMA SearchKeeps ==
    ASSUME GuardWeb!ToolGuardAssumption, WebInv,
           NEW q \in Queries, NEW ok \in BOOLEAN, NEW marked,
           GuardWeb!Search(q, ok, marked)
    PROVE  WebInv'
<1> DEFINE f == IF ok THEN GuardWeb!NoFailure
                ELSE GuardWeb!FailedOnce(failed[q], "not_found")
<1>1. /\ failed' = [failed EXCEPT ![q] = f]
      /\ UNCHANGED <<hosts, urlFails, hostBad>>
  BY DEF GuardWeb!Search, GuardWeb!history
<1>2. f \in Failures
  BY DEF WebInv, Failures, FailKinds, GuardWeb!NoFailure, GuardWeb!FailedOnce
<1>3. q \notin GuardWeb!Urls
  BY DEF GuardWeb!ToolGuardAssumption
<1> HIDE DEF f
<1>4. /\ failed' \in [GuardWeb!Urls \union Queries -> Failures]
      /\ \A v \in GuardWeb!Urls : failed'[v] = failed[v]
  BY <1>1, <1>2, <1>3 DEF WebInv
<1> QED
  BY <1>1, <1>4 DEF WebInv

\* A fetch that failed for good is not tried again and one that failed for a
\* passing reason once; a host that refused twice is given up.  URLs of an API
\* are exempt when the host only serves a page without its data.
THEOREM GivenUpCorrect ==
    ASSUME GuardWeb!ToolGuardAssumption, "dynamic_shell" \in Kinds => Apis = {}
    PROVE  GuardWeb!Spec => [](GuardWeb!RetriedOnce /\ GuardWeb!HostGivenUp)
<1>1. GuardWeb!Init => WebInv
  BY DEF GuardWeb!Init, WebInv, Failures, FailKinds, GuardWeb!NoFailure
<1>2. WebInv /\ [GuardWeb!Next]_(GuardWeb!vars) => WebInv'
  <2> SUFFICES ASSUME WebInv, [GuardWeb!Next]_(GuardWeb!vars) PROVE WebInv'
    OBVIOUS
  <2>1. CASE UNCHANGED <<failed, hosts, urlFails, hostBad>>
    BY <2>1 DEF WebInv
  <2>2. ASSUME NEW a \in GuardWeb!Files, GuardWeb!Read(a) PROVE WebInv'
    BY <2>1, <2>2 DEF GuardWeb!Read
  <2>3. ASSUME NEW a \in GuardWeb!Files, NEW ok \in BOOLEAN, GuardWeb!Write(a, ok)
        PROVE WebInv'
    BY <2>1, <2>3 DEF GuardWeb!Write
  <2>4. ASSUME NEW a \in GuardWeb!Files, GuardWeb!Shell(a) PROVE WebInv'
    BY <2>1, <2>4 DEF GuardWeb!Shell
  <2>5. ASSUME NEW u \in GuardWeb!Urls, GuardWeb!Fetch(u, TRUE, "none") PROVE WebInv'
    BY <2>5, FetchKeeps
  <2>6. ASSUME NEW u \in GuardWeb!Urls, NEW k \in Kinds, GuardWeb!Fetch(u, FALSE, k)
        PROVE WebInv'
    BY <2>6, FetchKeeps
  <2>7. ASSUME NEW q \in Queries, NEW ok \in BOOLEAN, NEW marked,
               GuardWeb!Search(q, ok, marked)
        PROVE WebInv'
    BY <2>7, SearchKeeps
  <2>8. ASSUME NEW p \in Pages, NEW m \in BOOLEAN, GuardWeb!Find(p, m) PROVE WebInv'
    BY <2>1, <2>8 DEF GuardWeb!Find
  <2>9. ASSUME NEW t, NEW a, GuardWeb!Refuse(t, a) PROVE WebInv'
    BY <2>1, <2>9 DEF GuardWeb!Refuse, GuardWeb!history
  <2>10. CASE GuardWeb!Done \/ UNCHANGED GuardWeb!vars
    BY <2>1, <2>10 DEF GuardWeb!Done, GuardWeb!vars
  <2>11. CASE GuardWeb!Call
    BY <2>2, <2>3, <2>4, <2>5, <2>6, <2>7, <2>8, <2>11 DEF GuardWeb!Call
  <2>12. CASE GuardWeb!RefusedCall
    BY <2>9, <2>12 DEF GuardWeb!RefusedCall
  <2> QED
    BY <2>10, <2>11, <2>12 DEF GuardWeb!Next
<1>3. WebInv => GuardWeb!RetriedOnce /\ GuardWeb!HostGivenUp
  BY DEF WebInv, GuardWeb!RetriedOnce, GuardWeb!HostGivenUp, Failures
<1> QED
  BY <1>1, <1>2, <1>3, PTL DEF GuardWeb!Spec

\* What the guard counts of a file and of a page is no more than there was,
\* and each intervention that counts towards the end was a refusal or a flag.
StrikesInv ==
    /\ strikes \in Nat /\ hard \in Nat /\ forced \in BOOLEAN
    /\ strikes <= hard
    /\ forced => hard >= 2

ReadsInv ==
    /\ counts \in [GuardFiles!Args -> Nat]
    /\ seen \in [GuardFiles!Files -> Nat]
    /\ \A f \in GuardFiles!Files : counts[f] <= seen[f] \/ seen[f] >= 2

MissesInv ==
    /\ misses \in [Pages -> Nat]
    /\ miss \in [page : Pages \union {"none"}, count : Nat]
    /\ miss.page \in Pages => miss.count <= misses[miss.page]

FilesInv ==
    /\ StrikesInv /\ ReadsInv /\ MissesInv
    /\ GuardFiles!FreshEvidence /\ GuardFiles!NoEvidenceTruthful

LEMMA InterveneKeeps ==
    ASSUME StrikesInv, NEW k, GuardFiles!Intervene(k)
    PROVE  StrikesInv'
<1>1. CASE GuardFiles!loopGuardResultForcesNoTools(k)
  <2>1. strikes' = IF strikes < 2 THEN strikes + 1 ELSE strikes
    BY <1>1 DEF GuardFiles!Intervene
  <2>2. hard' = IF hard < 2 THEN hard + 1 ELSE hard
    BY <1>1 DEF GuardFiles!Intervene, GuardFiles!loopGuardResultForcesNoTools
  <2>3. forced' = (forced \/ strikes + 1 >= 2)
    BY <1>1 DEF GuardFiles!Intervene
  <2>4. strikes' \in Nat /\ hard' \in Nat /\ strikes' <= hard'
    BY <2>1, <2>2 DEF StrikesInv
  <2>5. (forced \/ strikes + 1 >= 2) => hard' >= 2
    BY <2>2 DEF StrikesInv
  <2> QED
    BY <2>3, <2>4, <2>5 DEF StrikesInv
<1>2. CASE ~GuardFiles!loopGuardResultForcesNoTools(k)
  BY <1>2 DEF GuardFiles!Intervene, GuardFiles!loopGuardResultForcesNoTools, StrikesInv
<1> QED
  BY <1>1, <1>2

\* An attempt counts for its own argument and for nothing else.
LEMMA AttemptCounts ==
    ASSUME ReadsInv, NEW t, NEW a, GuardFiles!Attempted(t, a)
    PROVE  /\ counts' \in [GuardFiles!Args -> Nat]
           /\ \A f \in GuardFiles!Files :
                counts'[f] = IF f = a /\ GuardFiles!Refusal(t, a) \in {"none", "repeated"}
                             THEN counts[f] + 1 ELSE counts[f]
<1>1. CASE a \in GuardFiles!Args /\ GuardFiles!Refusal(t, a) \in {"none", "repeated"}
  <2>1. counts' = [counts EXCEPT ![a] = counts[a] + 1]
    BY <1>1 DEF GuardFiles!Attempted
  <2> QED
    BY <1>1, <2>1 DEF ReadsInv, GuardFiles!Args
<1>2. CASE ~(a \in GuardFiles!Args /\ GuardFiles!Refusal(t, a) \in {"none", "repeated"})
  <2>1. counts' = counts
    BY <1>2 DEF GuardFiles!Attempted
  <2> QED
    BY <1>2, <2>1 DEF ReadsInv, GuardFiles!Args
<1> QED
  BY <1>1, <1>2

\* A call that ran on something that is no file, and brought no new page.
LEMMA OtherCallKeeps ==
    ASSUME FilesInv, NEW t, NEW a, NEW ok, a \notin GuardFiles!Files,
           GuardFiles!Runs(t, a, ok, GuardFiles!OutcomeFlag(t, ok)),
           GuardFiles!Attempted(t, a), UNCHANGED <<seen, miss, misses>>
    PROVE  FilesInv'
<1>1. /\ GuardFiles!Intervene(GuardFiles!OutcomeFlag(t, ok))
      /\ last' = [arg |-> a, refusal |-> "none", flag |-> GuardFiles!OutcomeFlag(t, ok)]
  BY DEF GuardFiles!Runs
<1>2. GuardFiles!OutcomeFlag(t, ok) # "no_new_evidence"
  BY DEF GuardFiles!OutcomeFlag
<1>3. StrikesInv'
  BY <1>1, InterveneKeeps DEF FilesInv
<1>4. ReadsInv'
  BY AttemptCounts DEF FilesInv, ReadsInv
<1>5. MissesInv'
  BY DEF FilesInv, MissesInv
<1>6. last'.refusal = "none" /\ last'.flag # "no_new_evidence"
  BY <1>1, <1>2
<1> QED
  BY <1>3, <1>4, <1>5, <1>6
     DEF FilesInv, GuardFiles!FreshEvidence, GuardFiles!NoEvidenceTruthful

LEMMA ReadKeeps ==
    ASSUME FilesInv, NEW f \in GuardFiles!Files, GuardFiles!Read(f)
    PROVE  FilesInv'
<1>1. /\ GuardFiles!Intervene("none") /\ GuardFiles!Attempted("read", f)
      /\ GuardFiles!Refusal("read", f) = "none"
      /\ seen' = [seen EXCEPT ![f] = IF seen[f] < 3 THEN seen[f] + 1 ELSE seen[f]]
      /\ last' = [arg |-> f, refusal |-> "none", flag |-> "none"]
      /\ UNCHANGED <<miss, misses>>
  BY DEF GuardFiles!Read, GuardFiles!Runs
<1>2. StrikesInv'
  BY <1>1, InterveneKeeps DEF FilesInv
<1>3. ReadsInv'
  <2>1. /\ counts' \in [GuardFiles!Args -> Nat]
        /\ \A g \in GuardFiles!Files :
             counts'[g] = IF g = f THEN counts[g] + 1 ELSE counts[g]
    BY <1>1, AttemptCounts DEF FilesInv
  <2>2. seen' \in [GuardFiles!Files -> Nat]
    BY <1>1 DEF FilesInv, ReadsInv
  <2>3. ASSUME NEW g \in GuardFiles!Files
        PROVE  counts'[g] <= seen'[g] \/ seen'[g] >= 2
    <3>1. counts[g] \in Nat /\ seen[g] \in Nat /\ (counts[g] <= seen[g] \/ seen[g] >= 2)
      BY <2>3 DEF FilesInv, ReadsInv, GuardFiles!Args
    <3>2. CASE g = f
      <4>1. seen'[g] = IF seen[g] < 3 THEN seen[g] + 1 ELSE seen[g]
        BY <1>1, <3>2 DEF FilesInv, ReadsInv
      <4> QED
        BY <2>1, <3>1, <3>2, <4>1
    <3>3. CASE g # f
      <4>1. seen'[g] = seen[g]
        BY <1>1, <3>3 DEF FilesInv, ReadsInv
      <4> QED
        BY <2>1, <3>1, <3>3, <4>1
    <3> QED
      BY <3>2, <3>3
  <2> QED
    BY <2>1, <2>2, <2>3 DEF ReadsInv
<1>4. MissesInv'
  BY <1>1 DEF FilesInv, MissesInv
<1> QED
  BY <1>1, <1>2, <1>3, <1>4
     DEF FilesInv, GuardFiles!FreshEvidence, GuardFiles!NoEvidenceTruthful

LEMMA WriteKeeps ==
    ASSUME FilesInv, Docs = {}, NEW f \in GuardFiles!Files, NEW ok \in BOOLEAN,
           GuardFiles!Write(f, ok)
    PROVE  FilesInv'
<1>1. /\ GuardFiles!Intervene(GuardFiles!OutcomeFlag("write", ok))
      /\ last' = [arg |-> "none", refusal |-> "none",
                  flag |-> GuardFiles!OutcomeFlag("write", ok)]
      /\ UNCHANGED <<miss, misses>>
  BY DEF GuardFiles!Write, GuardFiles!Runs
<1>2. GuardFiles!OutcomeFlag("write", ok) # "no_new_evidence"
  BY DEF GuardFiles!OutcomeFlag
<1>3. StrikesInv'
  BY <1>1, InterveneKeeps DEF FilesInv
<1>4. ReadsInv'
  <2>1. CASE ~ok
    <3>1. UNCHANGED <<counts, seen>>
      BY <2>1 DEF GuardFiles!Write
    <3> QED
      BY <3>1 DEF FilesInv, ReadsInv
  <2>2. CASE ok
    <3>1. /\ counts' = [a \in GuardFiles!Args |->
                          IF a \in GuardFiles!Files THEN 0 ELSE counts[a]]
          /\ seen' = [seen EXCEPT ![f] = 0]
      BY <2>2 DEF GuardFiles!Write, GuardFiles!recordWorkspaceMutation, GuardFiles!Files
    <3>2. /\ counts' \in [GuardFiles!Args -> Nat]
          /\ \A g \in GuardFiles!Files : counts'[g] = 0
      BY <3>1 DEF FilesInv, ReadsInv, GuardFiles!Args
    <3>3. seen' \in [GuardFiles!Files -> Nat]
      BY <3>1 DEF FilesInv, ReadsInv
    <3> QED
      BY <3>2, <3>3 DEF ReadsInv
  <2> QED
    BY <2>1, <2>2
<1>5. MissesInv'
  BY <1>1 DEF FilesInv, MissesInv
<1>6. last'.refusal = "none" /\ last'.flag # "no_new_evidence"
  BY <1>1, <1>2
<1> QED
  BY <1>3, <1>4, <1>5, <1>6
     DEF FilesInv, GuardFiles!FreshEvidence, GuardFiles!NoEvidenceTruthful

LEMMA FindKeeps ==
    ASSUME GuardFiles!ToolGuardAssumption, FilesInv,
           NEW p \in Pages, NEW matched \in BOOLEAN, GuardFiles!Find(p, matched)
    PROVE  FilesInv'
<1> DEFINE m == GuardFiles!recordBrowserFindNoMatch(p, matched)
           flag == IF ~matched /\ m.count >= 3 THEN "no_new_evidence" ELSE "none"
<1>1. /\ GuardFiles!Intervene(flag) /\ GuardFiles!Attempted("find", p)
      /\ miss' = m
      /\ misses' = [misses EXCEPT ![p] = IF matched THEN 0 ELSE misses[p] + 1]
      /\ last' = [arg |-> p, refusal |-> "none", flag |-> flag]
      /\ UNCHANGED seen
  BY DEF GuardFiles!Find, GuardFiles!Runs, GuardFiles!browserFindNoMatchThreshold
<1>2. StrikesInv'
  BY <1>1, InterveneKeeps DEF FilesInv
<1>3. p \notin GuardFiles!Files
  BY DEF GuardFiles!ToolGuardAssumption, GuardFiles!Args
<1>4. ReadsInv'
  BY <1>1, <1>3, AttemptCounts DEF FilesInv, ReadsInv
<1>5. /\ misses \in [Pages -> Nat] /\ miss.count \in Nat
      /\ miss = [page |-> miss.page, count |-> miss.count]
      /\ miss.page \in Pages \union {"none"}
      /\ miss.page \in Pages => miss.count <= misses[miss.page]
  BY DEF FilesInv, MissesInv
<1>6. m.page \in Pages \union {"none"} /\ m.count \in Nat
      /\ m \in [page : Pages \union {"none"}, count : Nat]
  BY <1>5 DEF GuardFiles!recordBrowserFindNoMatch
<1>7. \A q \in Pages : misses'[q] = IF q # p THEN misses[q]
                                    ELSE IF matched THEN 0 ELSE misses[p] + 1
  BY <1>1, <1>5
<1>8. misses' \in [Pages -> Nat]
  BY <1>1, <1>5
<1>9. m.page \in Pages => m.count <= misses'[m.page]
  <2>1. CASE matched /\ miss.page = p
    <3>1. m.page = p /\ m.count = 0
      BY <1>5, <2>1 DEF GuardFiles!recordBrowserFindNoMatch
    <3> QED
      BY <1>8, <3>1
  <2>2. CASE matched /\ miss.page # p
    <3>1. m.page = miss.page /\ m.count = miss.count
      BY <1>5, <2>2 DEF GuardFiles!recordBrowserFindNoMatch
    <3> QED
      BY <1>5, <1>7, <2>2, <3>1
  <2>3. CASE ~matched
    <3>1. m.page = p /\ m.count = IF miss.page = p THEN miss.count + 1 ELSE 1
      BY <2>3 DEF GuardFiles!recordBrowserFindNoMatch
    <3> HIDE DEF m
    <3>2. misses'[p] = misses[p] + 1 /\ misses[p] \in Nat
      BY <1>5, <1>7, <2>3
    <3> QED
      BY <1>5, <3>1, <3>2
  <2> QED
    BY <2>1, <2>2, <2>3
<1>10. flag = "no_new_evidence" => misses'[p] >= 3
  <2>1. ~matched => m.page = p
    BY DEF GuardFiles!recordBrowserFindNoMatch
  <2> HIDE DEF m
  <2>2. misses'[p] \in Nat
    BY <1>8
  <2> QED
    BY <1>6, <1>9, <2>1, <2>2
<1> HIDE DEF m, flag
<1>11. MissesInv'
  BY <1>1, <1>6, <1>8, <1>9 DEF MissesInv
<1>12. last'.refusal = "none" /\ last'.flag = flag /\ last'.arg = p
  BY <1>1
<1> QED
  BY <1>2, <1>4, <1>10, <1>11, <1>12
     DEF FilesInv, GuardFiles!FreshEvidence, GuardFiles!NoEvidenceTruthful,
         GuardFiles!browserFindNoMatchThreshold

LEMMA RefuseKeeps ==
    ASSUME FilesInv, NEW t, NEW a, GuardFiles!Refuse(t, a)
    PROVE  FilesInv'
<1>1. /\ GuardFiles!Intervene(GuardFiles!Refusal(t, a)) /\ GuardFiles!Attempted(t, a)
      /\ last' = [arg |-> a, refusal |-> GuardFiles!Refusal(t, a), flag |-> "none"]
      /\ GuardFiles!Refusal(t, a) # "none"
      /\ UNCHANGED <<miss, misses, seen>>
  BY DEF GuardFiles!Refuse, GuardFiles!history
<1>2. StrikesInv'
  BY <1>1, InterveneKeeps DEF FilesInv
<1>3. GuardFiles!Refusal(t, a) = "repeated" =>
        a \in GuardFiles!Args /\ counts[a] + 1 >= 3
  BY DEF GuardFiles!Refusal, GuardFiles!identicalToolCallBlockThreshold
<1>4. GuardFiles!Refusal(t, a) = "repeated" /\ a \in GuardFiles!Files => seen[a] >= 2
  BY <1>3 DEF FilesInv, ReadsInv, GuardFiles!Args
<1>5. ReadsInv'
  <2>1. /\ counts' \in [GuardFiles!Args -> Nat]
        /\ \A f \in GuardFiles!Files :
             counts'[f] = IF f = a /\ GuardFiles!Refusal(t, a) = "repeated"
                          THEN counts[f] + 1 ELSE counts[f]
    BY <1>1, AttemptCounts DEF FilesInv
  <2> QED
    BY <1>1, <1>4, <2>1 DEF FilesInv, ReadsInv
<1>6. MissesInv'
  BY <1>1 DEF FilesInv, MissesInv
<1>7. /\ last'.refusal = GuardFiles!Refusal(t, a) /\ last'.arg = a
      /\ last'.flag = "none" /\ seen' = seen
  BY <1>1
<1> QED
  BY <1>2, <1>4, <1>5, <1>6, <1>7
     DEF FilesInv, GuardFiles!FreshEvidence, GuardFiles!NoEvidenceTruthful

\* A read is refused as a repeat only of a file that was read twice since it
\* changed, if files change by edits of code alone; "no matches on this page"
\* is said of a page that had none; soft failures force nothing.
THEOREM RefusalsTruthfulCorrect ==
    ASSUME GuardFiles!ToolGuardAssumption, Docs = {}, "shell" \notin FileTools
    PROVE  GuardFiles!Spec => [](/\ GuardFiles!FreshEvidence
                                 /\ GuardFiles!NoEvidenceTruthful
                                 /\ GuardFiles!SoftNeverForces)
<1>1. GuardFiles!Init => FilesInv
  <2>1. GuardFiles!Init => StrikesInv
    <3> SUFFICES ASSUME GuardFiles!Init PROVE StrikesInv
      OBVIOUS
    <3>1. strikes = 0 /\ hard = 0 /\ forced = FALSE
      BY DEF GuardFiles!Init
    <3>2. strikes \in Nat /\ hard \in Nat /\ strikes <= hard
      BY <3>1
    <3>3. forced \in BOOLEAN /\ (forced => hard >= 2)
      BY <3>1, Zenon
    <3> QED
      BY <3>2, <3>3 DEF StrikesInv
  <2>2. GuardFiles!Init => ReadsInv
    BY DEF GuardFiles!Init, ReadsInv, GuardFiles!Args
  <2>3. GuardFiles!Init => MissesInv
    BY DEF GuardFiles!Init, MissesInv, GuardFiles!ToolGuardAssumption
  <2>4. GuardFiles!Init => GuardFiles!FreshEvidence /\ GuardFiles!NoEvidenceTruthful
    BY DEF GuardFiles!Init, GuardFiles!FreshEvidence, GuardFiles!NoEvidenceTruthful
  <2> QED
    BY <2>1, <2>2, <2>3, <2>4 DEF FilesInv
<1>2. FilesInv /\ [GuardFiles!Next]_(GuardFiles!vars) => FilesInv'
  <2> SUFFICES ASSUME FilesInv, [GuardFiles!Next]_(GuardFiles!vars) PROVE FilesInv'
    OBVIOUS
  <2>1. ASSUME NEW f \in GuardFiles!Files, GuardFiles!Read(f) PROVE FilesInv'
    BY <2>1, ReadKeeps
  <2>2. ASSUME NEW f \in GuardFiles!Files, NEW ok \in BOOLEAN, GuardFiles!Write(f, ok)
        PROVE FilesInv'
    BY <2>2, WriteKeeps
  <2>3. ASSUME NEW f \in GuardFiles!Files, GuardFiles!Shell(f) PROVE FALSE
    BY <2>3 DEF GuardFiles!Shell, GuardFiles!Runs
  <2>4. ASSUME NEW u \in GuardFiles!Urls, NEW ok, NEW k, GuardFiles!Fetch(u, ok, k)
        PROVE FilesInv'
    <3>1. u \notin GuardFiles!Files
      BY DEF GuardFiles!ToolGuardAssumption
    <3> QED
      BY <2>4, <3>1, OtherCallKeeps DEF GuardFiles!Fetch
  <2>5. ASSUME NEW q \in Queries, NEW ok \in BOOLEAN, NEW marked,
               GuardFiles!Search(q, ok, marked)
        PROVE FilesInv'
    <3>1. q \notin GuardFiles!Files
      BY DEF GuardFiles!ToolGuardAssumption
    <3> QED
      BY <2>5, <3>1, OtherCallKeeps DEF GuardFiles!Search, GuardFiles!history
  <2>6. ASSUME NEW p \in Pages, NEW m \in BOOLEAN, GuardFiles!Find(p, m) PROVE FilesInv'
    BY <2>6, FindKeeps
  <2>7. ASSUME NEW t, NEW a, GuardFiles!Refuse(t, a) PROVE FilesInv'
    BY <2>7, RefuseKeeps
  <2>8. CASE GuardFiles!Done \/ UNCHANGED GuardFiles!vars
    BY <2>8 DEF GuardFiles!Done, GuardFiles!vars, FilesInv, StrikesInv, ReadsInv,
                MissesInv, GuardFiles!FreshEvidence, GuardFiles!NoEvidenceTruthful
  <2>9. CASE GuardFiles!Call
    BY <2>1, <2>2, <2>3, <2>4, <2>5, <2>6, <2>9 DEF GuardFiles!Call
  <2>10. CASE GuardFiles!RefusedCall
    BY <2>7, <2>10 DEF GuardFiles!RefusedCall
  <2> QED
    BY <2>8, <2>9, <2>10 DEF GuardFiles!Next
<1>3. FilesInv => /\ GuardFiles!FreshEvidence /\ GuardFiles!NoEvidenceTruthful
                  /\ GuardFiles!SoftNeverForces
  BY DEF FilesInv, StrikesInv, GuardFiles!SoftNeverForces
<1> QED
  BY <1>1, <1>2, <1>3, PTL DEF GuardFiles!Spec

-----------------------------------------------------------------------------
(* The network evidence of a browser session, for any responses Rs, any     *)
(* capacity K of the log, with iframes or without (I).                      *)

ResponseStates ==
    {"idle", "open", "pending", "reading", "added", "refused", "failed", "dropped"}

BeingRead(Rs) == {r \in Rs : resp[r] = "reading"}

\* Refs are given in the order 1, 2, ... and one read is counted for each
\* response whose body is being read.
NetInv(Rs) ==
    /\ resp \in [Rs -> ResponseStates]
    /\ next \in Nat /\ DOMAIN named \subseteq 1..next
    /\ pendingReads = Cardinality(BeingRead(Rs))

\* RefsStable of NetworkEvidence.
NamesKept == \A i \in DOMAIN named : i \in DOMAIN named' /\ named'[i] = named[i]

\* The response r gets the state s.
LEMMA ReadingAfter ==
    ASSUME NEW Rs, NetInv(Rs), NEW r \in Rs, NEW s \in ResponseStates,
           resp' = [resp EXCEPT ![r] = s]
    PROVE  /\ resp' \in [Rs -> ResponseStates]
           /\ BeingRead(Rs)' = IF s = "reading" THEN BeingRead(Rs) \union {r}
                                                ELSE BeingRead(Rs) \ {r}
  BY DEF NetInv, BeingRead

\* A state in which no body is read, before and after.
LEMMA NotReading ==
    ASSUME NEW Rs, NetInv(Rs), NEW r \in Rs, NEW s \in ResponseStates, s # "reading",
           resp[r] # "reading", resp' = [resp EXCEPT ![r] = s],
           UNCHANGED <<pendingReads, next, named>>
    PROVE  NetInv(Rs)' /\ NamesKept
<1>1. r \notin BeingRead(Rs)
  BY DEF BeingRead
<1>2. BeingRead(Rs)' = BeingRead(Rs) \ {r} /\ resp' \in [Rs -> ResponseStates]
  BY ReadingAfter
<1>3. BeingRead(Rs)' = BeingRead(Rs)
  BY <1>1, <1>2
<1> QED
  BY <1>2, <1>3 DEF NetInv, NamesKept

\* A read is over, whatever came of it.
LEMMA ReadEnds ==
    ASSUME NEW Rs, IsFiniteSet(Rs), NetInv(Rs), NEW r \in Rs, NEW s \in ResponseStates,
           s # "reading", resp[r] = "reading", resp' = [resp EXCEPT ![r] = s],
           pendingReads' = pendingReads - 1
    PROVE  /\ resp' \in [Rs -> ResponseStates]
           /\ pendingReads' = Cardinality(BeingRead(Rs)')
<1>1. r \in BeingRead(Rs) /\ IsFiniteSet(BeingRead(Rs))
  <2>1. BeingRead(Rs) \subseteq Rs
    BY DEF BeingRead
  <2> QED
    BY <2>1, FS_Subset DEF BeingRead
<1>2. Cardinality(BeingRead(Rs) \ {r}) = Cardinality(BeingRead(Rs)) - 1
  BY <1>1, FS_RemoveElement
<1>3. /\ BeingRead(Rs)' = BeingRead(Rs) \ {r}
      /\ resp' \in [Rs -> ResponseStates]
  BY ReadingAfter
<1> QED
  BY <1>2, <1>3 DEF NetInv

\* The slots are counted by the bodies being read.
LEMMA SlotsCounted ==
    ASSUME NEW Rs, NEW K, NEW I
    PROVE  Net(Rs, K, I)!Cardinality(Net(Rs, K, I)!Reading) = Cardinality(BeingRead(Rs))
<1>1. Net(Rs, K, I)!Reading = BeingRead(Rs)
  BY DEF Net!Reading, BeingRead
<1> QED
  BY <1>1 DEF Net!Cardinality, Cardinality

LEMMA LoadingFinishedCounts ==
    ASSUME NEW Rs, NEW K, NEW I, IsFiniteSet(Rs), NetInv(Rs),
           NEW r \in Rs, Net(Rs, K, I)!LoadingFinished(r)
    PROVE  NetInv(Rs)' /\ NamesKept
<1> DEFINE busy == Net(Rs, K, I)!Cardinality(Net(Rs, K, I)!Reading)
<1>1. /\ resp[r] = "pending" /\ UNCHANGED <<next, named>>
      /\ IF busy < Slots
         THEN resp' = [resp EXCEPT ![r] = "reading"] /\ pendingReads' = pendingReads + 1
         ELSE resp' = [resp EXCEPT ![r] = "dropped"] /\ UNCHANGED pendingReads
  BY DEF Net!LoadingFinished
<1> HIDE DEF busy
<1>2. CASE busy < Slots
  <2>1. r \notin BeingRead(Rs) /\ BeingRead(Rs) \subseteq Rs
    BY <1>1 DEF BeingRead
  <2>2. Cardinality(BeingRead(Rs) \union {r}) = Cardinality(BeingRead(Rs)) + 1
    BY <2>1, FS_Subset, FS_AddElement
  <2>3. /\ BeingRead(Rs)' = BeingRead(Rs) \union {r}
        /\ resp' \in [Rs -> ResponseStates]
    BY <1>1, <1>2, ReadingAfter DEF ResponseStates
  <2> QED
    BY <1>1, <1>2, <2>2, <2>3 DEF NetInv, NamesKept
<1>3. CASE ~(busy < Slots)
  BY <1>1, <1>3, NotReading DEF ResponseStates
<1> QED
  BY <1>2, <1>3

LEMMA BodyReadCounts ==
    ASSUME NEW Rs, NEW K, NEW I, IsFiniteSet(Rs), NetInv(Rs),
           NEW r \in Rs, Net(Rs, K, I)!BodyRead(r)
    PROVE  NetInv(Rs)' /\ NamesKept
<1>1. /\ resp[r] = "reading" /\ pendingReads' = pendingReads - 1
      /\ \/ /\ resp' = [resp EXCEPT ![r] = "added"] /\ next' = next + 1
            /\ named' = [i \in DOMAIN named \cup {next + 1} |->
                           IF i = next + 1 THEN r ELSE named[i]]
         \/ resp' = [resp EXCEPT ![r] = "refused"] /\ UNCHANGED <<next, named>>
  BY DEF Net!BodyRead, Net!NextRef
<1>2. resp' \in [Rs -> ResponseStates] /\ pendingReads' = Cardinality(BeingRead(Rs)')
  BY <1>1, ReadEnds DEF ResponseStates
<1>3. next' \in Nat /\ DOMAIN named' \subseteq 1..next' /\ NamesKept
  BY <1>1 DEF NetInv, NamesKept
<1> QED
  BY <1>2, <1>3 DEF NetInv

LEMMA NetInit ==
    ASSUME NEW Rs, NEW K, NEW I, Net(Rs, K, I)!Init
    PROVE  NetInv(Rs)
<1>1. BeingRead(Rs) = {}
  BY DEF Net!Init, BeingRead
<1>2. Cardinality(BeingRead(Rs)) = 0
  BY <1>1, FS_EmptySet
<1> QED
  BY <1>2 DEF Net!Init, NetInv, ResponseStates

LEMMA NetSteps ==
    ASSUME NEW Rs, NEW K, NEW I, IsFiniteSet(Rs), NetInv(Rs),
           [Net(Rs, K, I)!Next]_(Net(Rs, K, I)!vars)
    PROVE  NetInv(Rs)' /\ NamesKept
<1>1. CASE UNCHANGED <<resp, pendingReads, next, named>>
  BY <1>1 DEF NetInv, BeingRead, NamesKept
<1>2. ASSUME NEW s \in Sites, Net(Rs, K, I)!NavigatePage(s) \/ Net(Rs, K, I)!FrameDocument(s)
      PROVE  NetInv(Rs)' /\ NamesKept
  BY <1>1, <1>2 DEF Net!NavigatePage, Net!FrameDocument, Net!log
<1>3. ASSUME NEW r \in Rs, Net(Rs, K, I)!Request(r) PROVE NetInv(Rs)' /\ NamesKept
  BY <1>3, NotReading DEF ResponseStates, Net!Request, Net!log
<1>4. ASSUME NEW r \in Rs, Net(Rs, K, I)!LoadingFailed(r) PROVE NetInv(Rs)' /\ NamesKept
  BY <1>4, NotReading DEF ResponseStates, Net!LoadingFailed, Net!log
<1>5. ASSUME NEW r \in Rs, Net(Rs, K, I)!LoadingFinished(r) PROVE NetInv(Rs)' /\ NamesKept
  BY <1>5, LoadingFinishedCounts
<1>6. ASSUME NEW r \in Rs, NEW ok \in BOOLEAN, Net(Rs, K, I)!Received(r, ok)
      PROVE  NetInv(Rs)' /\ NamesKept
  BY <1>6, NotReading DEF ResponseStates, Net!Received, Net!log
<1>7. ASSUME NEW r \in Rs, Net(Rs, K, I)!BodyRead(r) PROVE NetInv(Rs)' /\ NamesKept
  BY <1>7, BodyReadCounts
<1>8. ASSUME NEW r \in Rs, Net(Rs, K, I)!BodyFails(r) PROVE NetInv(Rs)' /\ NamesKept
  <2>1. /\ resp[r] = "reading" /\ resp' = [resp EXCEPT ![r] = "failed"]
        /\ pendingReads' = pendingReads - 1 /\ UNCHANGED <<next, named>>
    BY <1>8 DEF Net!BodyFails
  <2>2. resp' \in [Rs -> ResponseStates] /\ pendingReads' = Cardinality(BeingRead(Rs)')
    BY <2>1, ReadEnds DEF ResponseStates
  <2> QED
    BY <2>1, <2>2 DEF NetInv, NamesKept
<1>9. CASE \/ Net(Rs, K, I)!SnapshotStart \/ Net(Rs, K, I)!SnapshotIdle
           \/ Net(Rs, K, I)!SnapshotDeadline
  BY <1>1, <1>9 DEF Net!SnapshotStart, Net!SnapshotIdle, Net!SnapshotDeadline, Net!log
<1>10. CASE UNCHANGED Net(Rs, K, I)!vars
  BY <1>1, <1>10 DEF Net!vars
<1> QED
  BY <1>2, <1>3, <1>4, <1>5, <1>6, <1>7, <1>8, <1>9, <1>10 DEF Net!Next

\* A ref stands for one response for good, and the count of reads is the number
\* of bodies being read: for any number of responses, sites and slots, and any
\* capacity of the log.
LEMMA NetMeans ==
    ASSUME NEW Rs, NEW K, NEW I, NetInv(Rs)
    PROVE  /\ Net(Rs, K, I)!ReadsCounted
           /\ NamesKept => Net(Rs, K, I)!RefsStable
<1>1. Net(Rs, K, I)!ReadsCounted
  BY SlotsCounted DEF NetInv, Net!ReadsCounted
<1> QED
  BY <1>1 DEF NamesKept, Net!RefsStable

-----------------------------------------------------------------------------
(* What a settled snapshot lists, on pages without iframes, with a slot for *)
(* each response and a log that keeps them all.                             *)

Added(Rs) == {r \in Rs : resp[r] = "added"}

SettledInv(Rs) ==
    /\ NetInv(Rs)
    /\ pages \in Seq(Sites)
    /\ pages # <<>> => logSite = pages[Len(pages)]
    /\ of \in [Rs -> 0..Len(pages)]
    /\ \A r \in Rs : resp[r] # "dropped" /\ (resp[r] # "idle" => of[r] # 0)
    /\ entries \in Seq([ref : Nat, resp : Rs, page : Nat])
    /\ logPage \in Nat
    /\ Len(entries) = Cardinality(Added(Rs))
    /\ \A r \in Added(Rs) : \E i \in DOMAIN entries : entries[i].resp = r
    /\ listed.settled => listed.due \subseteq listed.have

LEMMA SettledInit ==
    ASSUME NEW Rs, NEW K, Net(Rs, K, FALSE)!Init
    PROVE  SettledInv(Rs)
<1>1. NetInv(Rs)
  BY NetInit
<1>2. Added(Rs) = {}
  BY DEF Net!Init, Added
<1>3. Cardinality(Added(Rs)) = 0
  BY <1>2, FS_EmptySet
<1> QED
  BY <1>1, <1>2, <1>3 DEF Net!Init, SettledInv

\* The states that do not change which responses are in the log.
LEMMA SettledSame ==
    ASSUME NEW Rs, SettledInv(Rs), NetInv(Rs)', Added(Rs)' = Added(Rs),
           UNCHANGED <<pages, logSite, logPage, entries, listed>>,
           of' \in [Rs -> 0..Len(pages)],
           \A r \in Rs : resp'[r] # "dropped" /\ (resp'[r] # "idle" => of'[r] # 0)
    PROVE  SettledInv(Rs)'
  BY DEF SettledInv

\* A response moves to a state other than "added".
LEMMA SettledMove ==
    ASSUME NEW Rs, SettledInv(Rs), NetInv(Rs)', NEW r \in Rs,
           NEW s \in ResponseStates \ {"added", "dropped"},
           resp[r] \notin {"added", "idle"}, resp' = [resp EXCEPT ![r] = s],
           UNCHANGED <<pages, logSite, logPage, entries, listed, of>>
    PROVE  SettledInv(Rs)'
<1>1. Added(Rs)' = Added(Rs)
  BY DEF Added, SettledInv, NetInv
<1> QED
  BY <1>1, SettledSame DEF SettledInv, NetInv

\* Fewer bodies are read than there are slots, for one response waits.
LEMMA SlotFree ==
    ASSUME NEW Rs, NEW K, IsFiniteSet(Rs), Cardinality(Rs) <= Slots, Slots \in Nat,
           NetInv(Rs), NEW r \in Rs, resp[r] = "pending"
    PROVE  Net(Rs, K, FALSE)!Cardinality(Net(Rs, K, FALSE)!Reading) < Slots
<1>1. BeingRead(Rs) \subseteq Rs /\ r \notin BeingRead(Rs)
  BY DEF BeingRead
<1>2. IsFiniteSet(BeingRead(Rs)) /\ BeingRead(Rs) \subseteq Rs \ {r}
  BY <1>1, FS_Subset
<1>3. /\ IsFiniteSet(Rs \ {r}) /\ Cardinality(Rs \ {r}) = Cardinality(Rs) - 1
      /\ Cardinality(Rs) \in Nat
  BY FS_RemoveElement, FS_CardinalityType
<1>4. Cardinality(BeingRead(Rs)) <= Cardinality(Rs \ {r}) /\ Cardinality(BeingRead(Rs)) \in Nat
  BY <1>2, <1>3, FS_Subset, FS_CardinalityType
<1>5. Net(Rs, K, FALSE)!Cardinality(Net(Rs, K, FALSE)!Reading) = Cardinality(BeingRead(Rs))
  BY SlotsCounted
<1>6. Cardinality(BeingRead(Rs)) < Slots
  BY <1>3, <1>4
<1> QED
  BY <1>5, <1>6

LEMMA SettledRead ==
    ASSUME NEW Rs, NEW K, IsFiniteSet(Rs), Cardinality(Rs) <= K, K \in Nat,
           SettledInv(Rs), NetInv(Rs)', NEW r \in Rs, Net(Rs, K, FALSE)!BodyRead(r)
    PROVE  SettledInv(Rs)'
<1>1. /\ resp[r] = "reading" /\ UNCHANGED <<pages, logSite, logPage, listed, of>>
  BY DEF Net!BodyRead, Net!snapshot
<1>2. CASE resp' = [resp EXCEPT ![r] = "refused"] /\ UNCHANGED entries
  BY <1>1, <1>2, SettledMove DEF ResponseStates
<1>3. ASSUME resp' = [resp EXCEPT ![r] = "added"], next' = next + 1,
             entries' = Net(Rs, K, FALSE)!Keep(
                          Append(entries, [ref |-> next', resp |-> r, page |-> logPage]))
      PROVE  SettledInv(Rs)'
  <2>1. r \notin Added(Rs) /\ Added(Rs) \subseteq Rs /\ IsFiniteSet(Added(Rs))
    <3>1. r \notin Added(Rs) /\ Added(Rs) \subseteq Rs
      BY <1>1 DEF Added
    <3> QED
      BY <3>1, FS_Subset
  <2>2. Added(Rs)' = Added(Rs) \union {r}
    BY <1>3 DEF Added, SettledInv, NetInv
  <2>3. /\ Cardinality(Added(Rs)') = Cardinality(Added(Rs)) + 1
        /\ Cardinality(Added(Rs)') <= Cardinality(Rs)
        /\ Cardinality(Added(Rs)) \in Nat /\ Cardinality(Rs) \in Nat
    BY <2>1, <2>2, FS_AddElement, FS_Subset, FS_CardinalityType
  <2> DEFINE e == [ref |-> next', resp |-> r, page |-> logPage]
  <2>4. e \in [ref : Nat, resp : Rs, page : Nat]
    BY <1>3 DEF SettledInv, NetInv
  <2>5. e.resp = r
    OBVIOUS
  <2>6. entries' = Net(Rs, K, FALSE)!Keep(Append(entries, e))
    BY <1>3
  <2> HIDE DEF e
  <2>7. entries \in Seq([ref : Nat, resp : Rs, page : Nat]) /\ Len(entries) + 1 <= K
    BY <2>3 DEF SettledInv
  <2>8. entries' = Append(entries, e)
    BY <2>4, <2>6, <2>7 DEF Net!Keep
  <2>9. /\ entries' \in Seq([ref : Nat, resp : Rs, page : Nat])
        /\ Len(entries') = Len(entries) + 1 /\ entries'[Len(entries) + 1] = e
        /\ \A i \in DOMAIN entries : i \in DOMAIN entries' /\ entries'[i] = entries[i]
        /\ Len(entries) + 1 \in DOMAIN entries'
    BY <2>4, <2>7, <2>8
  <2>10. \A x \in Added(Rs)' : \E i \in DOMAIN entries' : entries'[i].resp = x
    <3> SUFFICES ASSUME NEW x \in Added(Rs)'
                 PROVE  \E i \in DOMAIN entries' : entries'[i].resp = x
      OBVIOUS
    <3>1. CASE x = r
      BY <2>5, <2>9, <3>1
    <3>2. CASE x \in Added(Rs)
      <4>1. PICK i \in DOMAIN entries : entries[i].resp = x
        BY <3>2 DEF SettledInv
      <4> QED
        BY <2>9, <4>1
    <3> QED
      BY <2>2, <3>1, <3>2
  <2>11. \A x \in Rs : resp'[x] # "dropped" /\ (resp'[x] # "idle" => of'[x] # 0)
    BY <1>1, <1>3 DEF SettledInv, NetInv
  <2>12. Len(entries') = Cardinality(Added(Rs)')
    BY <2>3, <2>9 DEF SettledInv
  <2> QED
    BY <1>1, <2>9, <2>10, <2>11, <2>12 DEF SettledInv
<1> QED
  BY <1>2, <1>3 DEF Net!BodyRead, Net!NextRef

\* The list of a settled snapshot has every response that is due.
LEMMA SettledList ==
    ASSUME NEW Rs, NEW K, IsFiniteSet(Rs), SettledInv(Rs), Net(Rs, K, FALSE)!SnapshotIdle
    PROVE  listed'.due \subseteq listed'.have
<1> DEFINE due == {r \in Rs : of[r] # 0 /\ of[r] = Len(pages)
                              /\ resp[r] \in {"reading", "added", "dropped"}}
           visible == {i \in DOMAIN entries : pages[of[entries[i].resp]] = logSite}
           have == {entries[i].resp : i \in visible}
<1>1. /\ pendingReads = 0
      /\ listed' = [settled |-> TRUE, due |-> due, have |-> have]
  BY DEF Net!SnapshotIdle, Net!List, Net!Idle, Net!Due, Net!Visible, Net!Site
<1>2. BeingRead(Rs) = {}
  <2>1. BeingRead(Rs) \subseteq Rs
    BY DEF BeingRead
  <2> QED
    BY <1>1, <2>1, FS_Subset, FS_EmptySet DEF SettledInv, NetInv
<1>3. due \subseteq have
  <2> SUFFICES ASSUME NEW r \in due PROVE r \in have
    OBVIOUS
  <2>1. /\ r \in Rs /\ of[r] # 0 /\ of[r] = Len(pages) /\ r \in Added(Rs)
    BY <1>2 DEF BeingRead, Added, SettledInv
  <2>2. PICK i \in DOMAIN entries : entries[i].resp = r
    BY <2>1 DEF SettledInv
  <2>3. pages # <<>> /\ pages[of[r]] = logSite
    BY <2>1 DEF SettledInv
  <2> QED
    BY <2>2, <2>3
<1> HIDE DEF due, have
<1> QED
  BY <1>1, <1>3

LEMMA SettledSteps ==
    ASSUME NEW Rs, NEW K, IsFiniteSet(Rs), Cardinality(Rs) <= K, Cardinality(Rs) <= Slots,
           {K, Slots} \subseteq Nat, SettledInv(Rs),
           [Net(Rs, K, FALSE)!Next]_(Net(Rs, K, FALSE)!vars)
    PROVE  SettledInv(Rs)'
<1>0. NetInv(Rs)'
  BY NetSteps DEF SettledInv
<1>1. ASSUME NEW s \in Sites, Net(Rs, K, FALSE)!NavigatePage(s) PROVE SettledInv(Rs)'
  <2>1. /\ pages' = Append(pages, s) /\ logPage' = Len(pages) + 1 /\ logSite' = s
        /\ UNCHANGED <<resp, of, entries, listed>>
    BY <1>1 DEF Net!NavigatePage, Net!log, Net!snapshot
  <2>2. Added(Rs)' = Added(Rs)
    BY <2>1 DEF Added
  <2>3. /\ pages' \in Seq(Sites) /\ Len(pages') = Len(pages) + 1 /\ Len(pages) \in Nat
        /\ pages'[Len(pages')] = s
    BY <2>1 DEF SettledInv
  <2> QED
    BY <1>0, <2>1, <2>2, <2>3 DEF SettledInv
<1>2. ASSUME NEW s \in Sites, Net(Rs, K, FALSE)!FrameDocument(s) PROVE SettledInv(Rs)'
  BY <1>2 DEF Net!FrameDocument
<1>3. ASSUME NEW r \in Rs, Net(Rs, K, FALSE)!Request(r) PROVE SettledInv(Rs)'
  <2>1. /\ resp[r] = "idle" /\ pages # <<>> /\ resp' = [resp EXCEPT ![r] = "open"]
        /\ of' = [of EXCEPT ![r] = Len(pages)]
        /\ UNCHANGED <<pages, logSite, logPage, entries, listed>>
    BY <1>3 DEF Net!Request, Net!log, Net!snapshot
  <2>2. Added(Rs)' = Added(Rs)
    BY <2>1 DEF Added, SettledInv, NetInv
  <2>3. Len(pages) \in Nat \ {0}
    BY <2>1 DEF SettledInv
  <2>4. of' \in [Rs -> 0..Len(pages)]
    BY <2>1, <2>3 DEF SettledInv
  <2>5. \A x \in Rs : resp'[x] # "dropped" /\ (resp'[x] # "idle" => of'[x] # 0)
    BY <2>1, <2>3 DEF SettledInv, NetInv
  <2> QED
    BY <1>0, <2>1, <2>2, <2>4, <2>5, SettledSame
<1>4. ASSUME NEW r \in Rs, Net(Rs, K, FALSE)!LoadingFailed(r) PROVE SettledInv(Rs)'
  BY <1>0, <1>4, SettledMove DEF ResponseStates, Net!LoadingFailed, Net!log, Net!snapshot
<1>5. ASSUME NEW r \in Rs, Net(Rs, K, FALSE)!LoadingFinished(r) PROVE SettledInv(Rs)'
  <2>1. resp[r] = "pending"
    BY <1>5 DEF Net!LoadingFinished
  <2>2. /\ resp' = [resp EXCEPT ![r] = "reading"]
        /\ UNCHANGED <<pages, logSite, logPage, of, entries, listed>>
    BY <1>5, <2>1, SlotFree DEF Net!LoadingFinished, Net!snapshot, SettledInv
  <2> QED
    BY <1>0, <2>1, <2>2, SettledMove DEF ResponseStates
<1>6. ASSUME NEW r \in Rs, NEW ok \in BOOLEAN, Net(Rs, K, FALSE)!Received(r, ok)
      PROVE  SettledInv(Rs)'
  BY <1>0, <1>6, SettledMove DEF ResponseStates, Net!Received, Net!log, Net!snapshot
<1>7. ASSUME NEW r \in Rs, Net(Rs, K, FALSE)!BodyRead(r) PROVE SettledInv(Rs)'
  BY <1>0, <1>7, SettledRead
<1>8. ASSUME NEW r \in Rs, Net(Rs, K, FALSE)!BodyFails(r) PROVE SettledInv(Rs)'
  BY <1>0, <1>8, SettledMove DEF ResponseStates, Net!BodyFails, Net!snapshot
<1>9. CASE Net(Rs, K, FALSE)!SnapshotIdle
  <2>1. UNCHANGED <<pages, logSite, logPage, resp, of, entries>>
    BY <1>9 DEF Net!SnapshotIdle, Net!log
  <2>2. Added(Rs)' = Added(Rs) /\ listed'.due \subseteq listed'.have
    BY <1>9, <2>1, SettledList DEF Added
  <2> QED
    BY <1>0, <2>1, <2>2 DEF SettledInv
<1>10. CASE Net(Rs, K, FALSE)!SnapshotDeadline
  <2>1. /\ UNCHANGED <<pages, logSite, logPage, resp, of, entries>>
        /\ ~listed'.settled
    BY <1>10 DEF Net!SnapshotDeadline, Net!List, Net!log
  <2>2. Added(Rs)' = Added(Rs)
    BY <2>1 DEF Added
  <2> QED
    BY <1>0, <2>1, <2>2 DEF SettledInv
<1>11. CASE Net(Rs, K, FALSE)!SnapshotStart \/ UNCHANGED Net(Rs, K, FALSE)!vars
  <2>1. UNCHANGED <<pages, logSite, logPage, resp, of, entries, listed>>
    BY <1>11 DEF Net!SnapshotStart, Net!vars, Net!log
  <2>2. Added(Rs)' = Added(Rs)
    BY <2>1 DEF Added
  <2> QED
    BY <1>0, <2>1, <2>2 DEF SettledInv
<1> QED
  BY <1>1, <1>2, <1>3, <1>4, <1>5, <1>6, <1>7, <1>8, <1>9, <1>10, <1>11 DEF Net!Next

-----------------------------------------------------------------------------
(* The refs of the browser tools, for any number M of elements, with or      *)
(* without timeouts (T), the fetch fallback (F) and older refs (U).          *)

\* Elements are numbered in the order they appear, and the page never shows
\* one twice.
StampInv(M) ==
    /\ M \in Nat /\ born \in 2..M
    /\ dom \in Seq(1..M) /\ \A i \in DOMAIN dom : dom[i] <= born
    /\ \A i, j \in DOMAIN dom : dom[i] = dom[j] => i = j
    /\ stamp \in [1..M -> Nat]
    /\ \A e \in 1..M : e > born => stamp[e] = 0
    /\ \A i, j \in DOMAIN dom :
         i # j /\ stamp[dom[i]] # 0 => stamp[dom[i]] # stamp[dom[j]]

\* The new stamps of the page, when its elements es are numbered.
Numbered(es) ==
    \A e \in DOMAIN stamp :
      /\ \A i \in DOMAIN es : es[i] = e => stamp'[e] = i
      /\ (\A i \in DOMAIN es : es[i] # e) =>
           stamp'[e] = IF \E i \in DOMAIN dom : dom[i] = e THEN 0 ELSE stamp[e]

\* A sequence without its k-th element: where its elements were before.
Shortened(s, k, t) ==
    \E at \in [DOMAIN t -> DOMAIN s] :
      /\ \A i \in DOMAIN t : t[i] = s[at[i]]
      /\ \A i, j \in DOMAIN t : at[i] = at[j] => i = j

LEMMA MovedDown ==
    ASSUME NEW n \in Nat, NEW k \in 1..n, NEW s, NEW t,
           DOMAIN s = 1..n, DOMAIN t = 1..(n - 1),
           \A i \in 1..(n - 1) : t[i] = IF i < k THEN s[i] ELSE s[i + 1]
    PROVE  Shortened(s, k, t)
<1> DEFINE at == [i \in 1..(n - 1) |-> IF i < k THEN i ELSE i + 1]
<1>1. /\ at \in [DOMAIN t -> DOMAIN s]
      /\ \A i, j \in DOMAIN t : at[i] = at[j] => i = j
  OBVIOUS
<1>2. \A i \in DOMAIN t : t[i] = s[at[i]]
  OBVIOUS
<1> HIDE DEF at
<1> QED
  BY <1>1, <1>2 DEF Shortened

LEMMA Without ==
    ASSUME NEW S, NEW s \in Seq(S), NEW k \in 1..Len(s)
    PROVE  /\ SubSeq(s, 1, k - 1) \o SubSeq(s, k + 1, Len(s)) \in Seq(S)
           /\ Shortened(s, k, SubSeq(s, 1, k - 1) \o SubSeq(s, k + 1, Len(s)))
<1> DEFINE a == SubSeq(s, 1, k - 1)
           b == SubSeq(s, k + 1, Len(s))
           t == a \o b
<1>0. /\ Len(s) \in Nat /\ DOMAIN s = 1..Len(s) /\ k \in Nat
      /\ \A i \in 1..Len(s) : s[i] \in S
  OBVIOUS
<1>1. /\ a \in Seq(S) /\ Len(a) = k - 1
      /\ \A i \in 1..(k - 1) : a[i] = s[i]
  <2>1. k - 1 \in Int /\ \A i \in 1..(k - 1) : s[i] \in S
    BY <1>0
  <2> QED
    BY <2>1, SubSeqProperties
<1>2. /\ b \in Seq(S) /\ Len(b) = Len(s) - k
      /\ \A i \in 1..(Len(s) - k) : b[i] = s[k + i]
  <2>1. k + 1 \in Int /\ Len(s) \in Int /\ \A i \in (k + 1)..Len(s) : s[i] \in S
    BY <1>0
  <2> QED
    BY <2>1, SubSeqProperties
<1> HIDE DEF a, b
<1>4. /\ t \in Seq(S) /\ Len(t) = Len(a) + Len(b)
      /\ \A i \in 1..(Len(a) + Len(b)) : t[i] = IF i <= Len(a) THEN a[i] ELSE b[i - Len(a)]
  BY <1>1, <1>2, ConcatProperties, Zenon
<1> HIDE DEF t
<1>5. Len(a) + Len(b) = Len(s) - 1 /\ DOMAIN t = 1..Len(t)
  BY <1>0, <1>1, <1>2, <1>4
<1>6. DOMAIN t = 1..(Len(s) - 1)
  BY <1>4, <1>5
<1>7. ASSUME NEW i \in 1..(Len(s) - 1)
      PROVE  t[i] = IF i < k THEN s[i] ELSE s[i + 1]
  <2>1. CASE i < k
    <3>1. i \in 1..(k - 1) /\ i \in 1..(Len(a) + Len(b)) /\ i <= Len(a)
      BY <1>0, <1>1, <1>5, <2>1
    <3>2. t[i] = a[i]
      BY <1>4, <3>1
    <3> QED
      BY <1>1, <2>1, <3>1, <3>2
  <2>2. CASE ~(i < k)
    <3>1. i - (k - 1) \in 1..(Len(s) - k) /\ k + (i - (k - 1)) = i + 1
      BY <1>0, <2>2
    <3>2. t[i] = b[i - (k - 1)]
      BY <1>0, <1>1, <1>4, <1>5, <2>2
    <3> QED
      BY <1>2, <2>2, <3>1, <3>2
  <2> QED
    BY <2>1, <2>2
<1>8. Shortened(s, k, t)
  BY <1>0, <1>6, <1>7, MovedDown
<1> QED
  BY <1>4, <1>8 DEF a, b, t

\* Numbering distinct elements.
LEMMA StampsNumber ==
    ASSUME NEW M, NEW T, NEW F, NEW U, StampInv(M), NEW es \in Seq(1..M),
           \A i, j \in DOMAIN es : es[i] = es[j] => i = j,
           stamp' = Refs(M, T, F, U)!Stamps(es)
    PROVE  stamp' \in [1..M -> Nat] /\ Numbered(es)
<1>1. stamp' = [e \in 1..M |-> IF \E i \in DOMAIN es : es[i] = e
                               THEN CHOOSE i \in DOMAIN es : es[i] = e
                               ELSE IF \E i \in DOMAIN dom : dom[i] = e THEN 0 ELSE stamp[e]]
  BY DEF Refs!Stamps, Refs!Elems, Refs!OnPage
<1>2. /\ DOMAIN es \subseteq Nat /\ DOMAIN stamp = 1..M
      /\ \A e \in 1..M : stamp[e] \in Nat
  BY DEF StampInv
<1>3. ASSUME NEW e \in 1..M, NEW i \in DOMAIN es, es[i] = e
      PROVE  stamp'[e] = i
  <2>1. i = CHOOSE k \in DOMAIN es : es[k] = e
    BY <1>3
  <2> QED
    BY <1>1, <1>3, <2>1
<1>4. ASSUME NEW e \in 1..M, \A i \in DOMAIN es : es[i] # e
      PROVE  stamp'[e] = IF \E i \in DOMAIN dom : dom[i] = e THEN 0 ELSE stamp[e]
  BY <1>1, <1>4
<1>5. Numbered(es)
  BY <1>2, <1>3, <1>4 DEF Numbered
<1>6. \A e \in 1..M : stamp'[e] \in Nat
  <2> SUFFICES ASSUME NEW e \in 1..M PROVE stamp'[e] \in Nat
    OBVIOUS
  <2>1. CASE \E i \in DOMAIN es : es[i] = e
    BY <1>2, <1>3, <2>1
  <2>2. CASE \A i \in DOMAIN es : es[i] # e
    BY <1>2, <1>4, <2>2
  <2> QED
    BY <2>1, <2>2
<1>7. stamp' = [e \in 1..M |-> stamp'[e]]
  BY <1>1
<1> QED
  BY <1>5, <1>6, <1>7

LEMMA StampedPage ==
    ASSUME NEW M, StampInv(M)
    PROVE  \A i \in DOMAIN dom : dom[i] \in 1..M /\ dom[i] # 0 /\ dom[i] <= born
<1>1. dom \in Seq(1..M) /\ M \in Nat /\ \A i \in DOMAIN dom : dom[i] <= born
  BY DEF StampInv
<1>2. \A i \in DOMAIN dom : dom[i] \in 1..M
  BY <1>1
<1> QED
  BY <1>1, <1>2

\* A numbering of all of the page, or of one of its elements.
LEMMA StampAll ==
    ASSUME NEW M, StampInv(M), stamp' \in [1..M -> Nat], Numbered(dom),
           UNCHANGED <<dom, born>>
    PROVE  StampInv(M)' /\ \A i \in DOMAIN dom : stamp'[dom[i]] = i
<1>1. \A i \in DOMAIN dom : dom[i] \in 1..M /\ i # 0
  <2>1. dom \in Seq(1..M)
    BY DEF StampInv
  <2>2. \A i \in DOMAIN dom : i # 0
    BY <2>1
  <2> QED
    BY <2>2, StampedPage
<1>2. \A i \in DOMAIN dom : stamp'[dom[i]] = i
  BY <1>1 DEF StampInv, Numbered
<1>3. \A e \in 1..M : e > born => \A i \in DOMAIN dom : dom[i] # e
  BY DEF StampInv
<1>4. \A e \in 1..M : e > born => stamp'[e] = 0
  BY <1>3 DEF StampInv, Numbered
<1>5. \A i, j \in DOMAIN dom :
        i # j /\ stamp'[dom[i]] # 0 => stamp'[dom[i]] # stamp'[dom[j]]
  BY <1>2
<1> QED
  BY <1>2, <1>4, <1>5 DEF StampInv

LEMMA StampOne ==
    ASSUME NEW M, StampInv(M), stamp' \in [1..M -> Nat], NEW i \in DOMAIN dom,
           Numbered(<<dom[i]>>), UNCHANGED <<dom, born>>
    PROVE  /\ StampInv(M)' /\ stamp'[dom[i]] = 1
           /\ \A j \in DOMAIN dom : j # i => stamp'[dom[j]] = 0
<1>1. \A j \in DOMAIN dom : dom[j] \in 1..M /\ dom[j] <= born
  BY StampedPage
<1>2. DOMAIN <<dom[i]>> = {1} /\ <<dom[i]>>[1] = dom[i]
  OBVIOUS
<1>3. stamp'[dom[i]] = 1
  BY <1>1, <1>2 DEF StampInv, Numbered
<1>4. \A j \in DOMAIN dom : j # i => stamp'[dom[j]] = 0
  BY <1>1, <1>2 DEF StampInv, Numbered
<1>5. \A e \in 1..M : e > born => stamp'[e] = 0
  <2> SUFFICES ASSUME NEW e \in 1..M, e > born PROVE stamp'[e] = 0
    OBVIOUS
  <2>1. dom[i] # e /\ stamp[e] = 0 /\ e \in DOMAIN stamp
    <3>1. /\ M \in Nat /\ born \in 2..M /\ stamp \in [1..M -> Nat]
          /\ \A k \in 1..M : k > born => stamp[k] = 0
      BY DEF StampInv
    <3>2. dom[i] <= born /\ dom[i] \in 1..M
      BY <1>1
    <3>3. dom[i] # e
      BY <3>1, <3>2
    <3> QED
      BY <3>1, <3>3
  <2> QED
    BY <1>2, <2>1 DEF Numbered
<1> QED
  BY <1>3, <1>4, <1>5 DEF StampInv

\* A new document, with its one element stamped or not.
LEMMA StampDocument ==
    ASSUME NEW M, StampInv(M), born < M, born' = born + 1, dom' = <<born + 1>>,
           stamp' = [stamp EXCEPT ![born + 1] = 1] \/ UNCHANGED stamp
    PROVE  StampInv(M)'
<1>1. /\ dom' \in Seq(1..M) /\ DOMAIN dom' = {1} /\ dom'[1] = born' /\ born' \in 2..M
      /\ born + 1 \in 1..M
  BY DEF StampInv
<1>2. stamp' \in [1..M -> Nat] /\ \A e \in 1..M : e > born' => stamp'[e] = 0
  BY <1>1 DEF StampInv
<1> QED
  BY <1>1, <1>2 DEF StampInv

\* One element more, in front.
Grown(s, e, t) ==
    /\ 1 \in DOMAIN t /\ t[1] = e
    /\ \A i \in DOMAIN t : /\ i \in Nat
                           /\ i # 1 => i - 1 \in DOMAIN s /\ t[i] = s[i - 1]

LEMMA Before ==
    ASSUME NEW S, NEW s \in Seq(S), NEW e \in S
    PROVE  <<e>> \o s \in Seq(S) /\ Grown(s, e, <<e>> \o s)
<1> DEFINE one == <<e>>
           t == one \o s
<1>1. one \in Seq(S) /\ Len(one) = 1 /\ one[1] = e
  OBVIOUS
<1> HIDE DEF one
<1>2. /\ t \in Seq(S) /\ Len(t) = Len(one) + Len(s)
      /\ \A i \in 1..(Len(one) + Len(s)) :
           t[i] = IF i <= Len(one) THEN one[i] ELSE s[i - Len(one)]
  BY <1>1, ConcatProperties, Zenon
<1> HIDE DEF t
<1>3. /\ DOMAIN t = 1..Len(t) /\ DOMAIN s = 1..Len(s) /\ Len(s) \in Nat
      /\ Len(t) = 1 + Len(s)
  BY <1>1, <1>2
<1>4. 1 \in DOMAIN t /\ t[1] = e
  BY <1>1, <1>2, <1>3
<1>5. ASSUME NEW i \in DOMAIN t
      PROVE  i \in Nat /\ (i # 1 => i - 1 \in DOMAIN s /\ t[i] = s[i - 1])
  BY <1>1, <1>2, <1>3
<1>6. Grown(s, e, t)
  BY <1>4, <1>5 DEF Grown
<1> QED
  BY <1>2, <1>6 DEF one, t

LEMMA StampGrown ==
    ASSUME NEW M, StampInv(M), born < M, born' = born + 1, dom' \in Seq(1..M),
           Grown(dom, born + 1, dom'), UNCHANGED stamp
    PROVE  StampInv(M)' /\ stamp'[dom'[1]] = 0
<1>1. /\ dom \in Seq(1..M) /\ born \in Nat /\ born + 1 \in 1..M /\ born' \in 2..M
      /\ stamp[born + 1] = 0
      /\ \A i \in DOMAIN dom : dom[i] \in Nat /\ dom[i] # born + 1 /\ dom[i] <= born
  BY DEF StampInv
<1>2. /\ dom'[1] = born + 1
      /\ \A i \in DOMAIN dom' : i \in Nat
      /\ \A i \in DOMAIN dom' : i # 1 => i - 1 \in DOMAIN dom /\ dom'[i] = dom[i - 1]
  BY DEF Grown
<1>3. \A i \in DOMAIN dom' : dom'[i] <= born'
  BY <1>1, <1>2
<1>4. \A i, j \in DOMAIN dom' : dom'[i] = dom'[j] => i = j
  <2>1. \A i, j \in DOMAIN dom : dom[i] = dom[j] => i = j
    BY DEF StampInv
  <2> SUFFICES ASSUME NEW i \in DOMAIN dom', NEW j \in DOMAIN dom', dom'[i] = dom'[j]
               PROVE  i = j
    OBVIOUS
  <2>2. CASE i = 1 \/ j = 1
    BY <1>1, <1>2, <2>2
  <2>3. CASE i # 1 /\ j # 1
    <3>1. i - 1 = j - 1
      BY <1>2, <2>1, <2>3
    <3> QED
      BY <1>2, <3>1
  <2> QED
    BY <2>2, <2>3
<1>5. \A i, j \in DOMAIN dom' :
        i # j /\ stamp[dom'[i]] # 0 => stamp[dom'[i]] # stamp[dom'[j]]
  <2>1. \A i, j \in DOMAIN dom :
          i # j /\ stamp[dom[i]] # 0 => stamp[dom[i]] # stamp[dom[j]]
    BY DEF StampInv
  <2> SUFFICES ASSUME NEW i \in DOMAIN dom', NEW j \in DOMAIN dom', i # j,
                      stamp[dom'[i]] # 0
               PROVE  stamp[dom'[i]] # stamp[dom'[j]]
    OBVIOUS
  <2>2. i # 1
    BY <1>1, <1>2
  <2>3. CASE j = 1
    BY <1>1, <1>2, <2>3
  <2>4. CASE j # 1
    <3>1. i - 1 # j - 1
      BY <1>2
    <3> QED
      BY <1>2, <2>1, <2>2, <2>4, <3>1
  <2> QED
    BY <2>3, <2>4
<1>6. stamp' \in [1..M -> Nat] /\ \A e \in 1..M : e > born' => stamp'[e] = 0
  BY <1>1 DEF StampInv
<1>7. M \in Nat
  BY DEF StampInv
<1> QED
  BY <1>1, <1>2, <1>3, <1>4, <1>5, <1>6, <1>7 DEF StampInv

LEMMA StampAppear ==
    ASSUME NEW M, StampInv(M), born < M, born' = born + 1, dom' = <<born + 1>> \o dom,
           UNCHANGED stamp
    PROVE  StampInv(M)' /\ stamp'[dom'[1]] = 0 /\ Grown(dom, born + 1, dom')
<1>1. dom \in Seq(1..M) /\ born + 1 \in 1..M
  BY DEF StampInv
<1>2. dom' \in Seq(1..M) /\ Grown(dom, born + 1, dom')
  BY <1>1, Before
<1> QED
  BY <1>2, StampGrown

LEMMA StampShortened ==
    ASSUME NEW M, StampInv(M), NEW k, dom' \in Seq(1..M), Shortened(dom, k, dom'),
           UNCHANGED <<born, stamp>>
    PROVE  /\ StampInv(M)'
           /\ \A i \in DOMAIN dom' : \E n \in DOMAIN dom : dom'[i] = dom[n]
<1>4. PICK at \in [DOMAIN dom' -> DOMAIN dom] :
        /\ \A i \in DOMAIN dom' : dom'[i] = dom[at[i]]
        /\ \A i, j \in DOMAIN dom' : at[i] = at[j] => i = j
  BY DEF Shortened
<1>5. \A i, j \in DOMAIN dom' : dom'[i] = dom'[j] => i = j
  <2>1. \A i, j \in DOMAIN dom : dom[i] = dom[j] => i = j
    BY DEF StampInv
  <2> SUFFICES ASSUME NEW i \in DOMAIN dom', NEW j \in DOMAIN dom', dom'[i] = dom'[j]
               PROVE  i = j
    OBVIOUS
  <2>2. dom[at[i]] = dom[at[j]] /\ {at[i], at[j]} \subseteq DOMAIN dom
    BY <1>4
  <2> QED
    BY <1>4, <2>1, <2>2
<1>6. \A i, j \in DOMAIN dom' :
        i # j /\ stamp[dom'[i]] # 0 => stamp[dom'[i]] # stamp[dom'[j]]
  <2>1. \A i, j \in DOMAIN dom :
          i # j /\ stamp[dom[i]] # 0 => stamp[dom[i]] # stamp[dom[j]]
    BY DEF StampInv
  <2> SUFFICES ASSUME NEW i \in DOMAIN dom', NEW j \in DOMAIN dom', i # j,
                      stamp[dom'[i]] # 0
               PROVE  stamp[dom'[i]] # stamp[dom'[j]]
    OBVIOUS
  <2>2. /\ at[i] # at[j] /\ {at[i], at[j]} \subseteq DOMAIN dom
        /\ dom'[i] = dom[at[i]] /\ dom'[j] = dom[at[j]]
    BY <1>4
  <2> QED
    BY <2>1, <2>2
<1>7. \A i \in DOMAIN dom' : dom'[i] <= born
  <2>1. \A i \in DOMAIN dom : dom[i] <= born
    BY DEF StampInv
  <2> QED
    BY <1>4, <2>1
<1>8. \A i \in DOMAIN dom' : \E n \in DOMAIN dom : dom'[i] = dom[n]
  BY <1>4
<1>9. /\ M \in Nat /\ born' \in 2..M /\ stamp' \in [1..M -> Nat]
      /\ \A e \in 1..M : e > born' => stamp'[e] = 0
  BY DEF StampInv
<1> QED
  BY <1>5, <1>6, <1>7, <1>8, <1>9 DEF StampInv

LEMMA StampVanish ==
    ASSUME NEW M, StampInv(M), NEW k \in DOMAIN dom,
           dom' = SubSeq(dom, 1, k - 1) \o SubSeq(dom, k + 1, Len(dom)),
           UNCHANGED <<born, stamp>>
    PROVE  /\ StampInv(M)'
           /\ \A i \in DOMAIN dom' : \E n \in DOMAIN dom : dom'[i] = dom[n]
<1>1. dom \in Seq(1..M)
  BY DEF StampInv
<1>2. k \in 1..Len(dom)
  BY <1>1
<1>3. dom' \in Seq(1..M) /\ Shortened(dom, k, dom')
  BY <1>1, <1>2, Without
<1> QED
  BY <1>3, StampShortened

LEMMA StampInit ==
    ASSUME NEW M, NEW T, NEW F, NEW U, Refs(M, T, F, U)!BrowserRefsAssumption,
           Refs(M, T, F, U)!Init
    PROVE  StampInv(M)
<1>1. /\ M \in Nat /\ M >= 2 /\ born = 2 /\ dom = <<1, 2>>
      /\ stamp = [e \in 1..M |-> 0]
  BY DEF Refs!BrowserRefsAssumption, Refs!Init, Refs!Elems
<1>2. dom \in Seq(1..M) /\ DOMAIN dom = {1, 2} /\ dom[1] = 1 /\ dom[2] = 2
  BY <1>1
<1>3. stamp \in [1..M -> Nat] /\ \A e \in 1..M : stamp[e] = 0
  BY <1>1
<1> QED
  BY <1>1, <1>2, <1>3 DEF StampInv

LEMMA StampSame ==
    ASSUME NEW M, StampInv(M), UNCHANGED <<dom, born, stamp>>
    PROVE  StampInv(M)'
  BY DEF StampInv

\* Each step of the page, the tools and the browser keeps the numbering.
LEMMA StampSteps ==
    ASSUME NEW M, NEW T, NEW F, NEW U, StampInv(M),
           [Refs(M, T, F, U)!Next]_(Refs(M, T, F, U)!vars)
    PROVE  StampInv(M)'
<1>0. dom \in Seq(1..M) /\ \A i \in DOMAIN dom : <<dom[i]>> \in Seq(1..M)
  BY DEF StampInv
<1>1. CASE Refs(M, T, F, U)!Appear
  BY <1>1, StampAppear DEF Refs!Appear
<1>2. ASSUME NEW i \in 1..M, Refs(M, T, F, U)!Vanish(i) PROVE StampInv(M)'
  BY <1>2, StampVanish DEF Refs!Vanish
<1>3. CASE Refs(M, T, F, U)!Snapshot \/ Refs(M, T, F, U)!ActSnapshot
  <2>1. stamp' = Refs(M, T, F, U)!Stamps(dom) /\ UNCHANGED <<dom, born>>
    BY <1>3 DEF Refs!Snapshot, Refs!ActSnapshot
  <2>2. stamp' \in [1..M -> Nat] /\ Numbered(dom)
    BY <1>0, <2>1, StampsNumber DEF StampInv
  <2> QED
    BY <2>1, <2>2, StampAll
<1>4. ASSUME NEW i \in 1..M, Refs(M, T, F, U)!Find(i) \/ Refs(M, T, F, U)!FindTimesOut(i)
      PROVE  StampInv(M)'
  <2>1. /\ stamp' = Refs(M, T, F, U)!Stamps(<<dom[i]>>) /\ UNCHANGED <<dom, born>>
        /\ i \in DOMAIN dom
    BY <1>4 DEF Refs!Find, Refs!FindTimesOut
  <2> DEFINE one == <<dom[i]>>
  <2>2. one \in Seq(1..M) /\ \A k, n \in DOMAIN one : one[k] = one[n] => k = n
    BY <1>0, <2>1
  <2>3. stamp' \in [1..M -> Nat] /\ Numbered(one)
    <3> HIDE DEF one
    <3>1. stamp' = Refs(M, T, F, U)!Stamps(one)
      BY <2>1 DEF one
    <3> QED
      BY <2>2, <3>1, StampsNumber
  <2> QED
    BY <2>1, <2>3, StampOne
<1>5. ASSUME NEW ok \in BOOLEAN,
             Refs(M, T, F, U)!Navigate(ok) \/ Refs(M, T, F, U)!RenderedFallback
      PROVE  StampInv(M)'
  BY <1>5, StampDocument DEF Refs!Navigate, Refs!RenderedFallback
<1>6. ASSUME NEW es, NEW ref, Refs(M, T, F, U)!Call(es, ref) PROVE StampInv(M)'
  BY <1>6, StampSame DEF Refs!Call
<1>7. CASE \/ Refs(M, T, F, U)!Resolve \/ Refs(M, T, F, U)!Act
           \/ Refs(M, T, F, U)!ClickTimesOut \/ Refs(M, T, F, U)!Dropped
           \/ Refs(M, T, F, U)!Finished \/ UNCHANGED Refs(M, T, F, U)!vars
  BY <1>7, StampSame DEF Refs!Resolve, Refs!Act, Refs!ClickTimesOut, Refs!Dropped,
                         Refs!Finished, Refs!vars
<1> QED
  BY <1>1, <1>2, <1>3, <1>4, <1>5, <1>6, <1>7 DEF Refs!Next

\* What the agent was shown last is what the stamps say, as long as every call
\* returns its result: no timeouts, no fetch in the same browser, no older refs.
HitInv(M) ==
    /\ StampInv(M)
    /\ ~late /\ tool \in {"none", "resolve", "act", "snap"}
    /\ \A i \in DOMAIN dom :
         stamp[dom[i]] # 0 => /\ stamp[dom[i]] \in DOMAIN given
                              /\ given[stamp[dom[i]]] = dom[i]
    /\ tool \in {"resolve", "act"} => /\ target.ref \in Nat \ {0}
                                      /\ target.want = given[target.ref]
    /\ tool = "act" => found = target.want
    /\ acted[1] = acted[2]

LEMMA HitInit ==
    ASSUME NEW M, Refs(M, FALSE, FALSE, FALSE)!BrowserRefsAssumption,
           Refs(M, FALSE, FALSE, FALSE)!Init
    PROVE  HitInv(M)
<1>1. StampInv(M)
  BY StampInit
<1>2. \A i \in DOMAIN dom : stamp[dom[i]] = 0
  <2>1. stamp = [e \in 1..M |-> 0] /\ \A i \in DOMAIN dom : dom[i] \in 1..M
    BY <1>1 DEF Refs!Init, Refs!Elems, StampInv
  <2> QED
    BY <2>1
<1> QED
  BY <1>1, <1>2 DEF HitInv, Refs!Init

LEMMA HitSteps ==
    ASSUME NEW M, HitInv(M), M \in Nat,
           [Refs(M, FALSE, FALSE, FALSE)!Next]_(Refs(M, FALSE, FALSE, FALSE)!vars)
    PROVE  HitInv(M)'
<1>0. StampInv(M)'
  <2>1. StampInv(M)
    BY DEF HitInv
  <2> QED
    BY <2>1, StampSteps
<1> DEFINE click == <<given, tool, target, found, late, acted>>
           Shown == \A i \in DOMAIN dom :
                      stamp[dom[i]] # 0 => /\ stamp[dom[i]] \in DOMAIN given
                                           /\ given[stamp[dom[i]]] = dom[i]
<1>1. CASE Refs(M, FALSE, FALSE, FALSE)!Appear
  <2>1. /\ stamp'[dom'[1]] = 0
        /\ \A i \in DOMAIN dom' : i # 1 => i - 1 \in DOMAIN dom /\ dom'[i] = dom[i - 1]
    BY <1>1, StampAppear DEF Refs!Appear, HitInv, Grown
  <2>2. UNCHANGED click /\ UNCHANGED stamp
    BY <1>1 DEF Refs!Appear, Refs!click
  <2>3. Shown'
    BY <2>1, <2>2 DEF HitInv
  <2> QED
    BY <1>0, <2>2, <2>3 DEF HitInv
<1>2. ASSUME NEW k \in 1..M, Refs(M, FALSE, FALSE, FALSE)!Vanish(k) PROVE HitInv(M)'
  <2>1. \A i \in DOMAIN dom' : \E n \in DOMAIN dom : dom'[i] = dom[n]
    BY <1>2, StampVanish DEF Refs!Vanish, HitInv
  <2>2. UNCHANGED click /\ UNCHANGED stamp
    BY <1>2 DEF Refs!Vanish, Refs!click
  <2>3. Shown'
    BY <2>1, <2>2 DEF HitInv
  <2> QED
    BY <1>0, <2>2, <2>3 DEF HitInv
<1>3. CASE Refs(M, FALSE, FALSE, FALSE)!Snapshot
  <2>1. /\ stamp' = Refs(M, FALSE, FALSE, FALSE)!Stamps(dom) /\ given' = dom
        /\ tool = "none" /\ UNCHANGED <<dom, born, tool, target, found, late, acted>>
    BY <1>3 DEF Refs!Snapshot, Refs!Give, Refs!Idle, Refs!click
  <2>2. stamp' \in [1..M -> Nat] /\ Numbered(dom)
    BY <2>1, StampsNumber DEF StampInv, HitInv
  <2>3. \A i \in DOMAIN dom : stamp'[dom[i]] = i
    BY <2>1, <2>2, StampAll DEF HitInv
  <2>4. Shown'
    BY <2>1, <2>3
  <2> QED
    BY <1>0, <2>1, <2>4 DEF HitInv
<1>4. ASSUME NEW k \in 1..M, Refs(M, FALSE, FALSE, FALSE)!Find(k) PROVE HitInv(M)'
  <2>1. /\ stamp' = Refs(M, FALSE, FALSE, FALSE)!Stamps(<<dom[k]>>)
        /\ given' = <<dom[k]>> /\ k \in DOMAIN dom
        /\ tool = "none" /\ UNCHANGED <<dom, born, tool, target, found, late, acted>>
    BY <1>4 DEF Refs!Find, Refs!Give, Refs!Idle, Refs!click
  <2> DEFINE one == <<dom[k]>>
  <2>2. one \in Seq(1..M) /\ \A i, n \in DOMAIN one : one[i] = one[n] => i = n
    BY <2>1 DEF StampInv, HitInv
  <2>3. stamp' \in [1..M -> Nat] /\ Numbered(one)
    <3> HIDE DEF one
    <3>1. stamp' = Refs(M, FALSE, FALSE, FALSE)!Stamps(one)
      BY <2>1 DEF one
    <3> QED
      BY <2>2, <3>1, StampsNumber DEF HitInv
  <2>4. /\ stamp'[dom[k]] = 1
        /\ \A j \in DOMAIN dom : j # k => stamp'[dom[j]] = 0
    BY <2>1, <2>3, StampOne DEF HitInv
  <2>5. given'[1] = dom[k] /\ 1 \in DOMAIN given'
    BY <2>1
  <2>6. Shown'
    BY <2>1, <2>4, <2>5
  <2> QED
    BY <1>0, <2>1, <2>6 DEF HitInv
<1>5. ASSUME NEW ok \in BOOLEAN, Refs(M, FALSE, FALSE, FALSE)!Navigate(ok)
      PROVE  HitInv(M)'
  <2>1. /\ dom' = <<born + 1>> /\ born < M /\ tool = "none"
        /\ UNCHANGED <<tool, target, found, late, acted>>
        /\ \/ stamp' = [stamp EXCEPT ![born + 1] = 1] /\ given' = dom'
           \/ UNCHANGED <<stamp, given>>
    BY <1>5 DEF Refs!Navigate, Refs!Give, Refs!Idle, Refs!click
  <2>2. /\ DOMAIN dom' = {1} /\ dom'[1] = born + 1 /\ stamp[born + 1] = 0
        /\ born + 1 \in DOMAIN stamp
    BY <2>1 DEF StampInv, HitInv
  <2>3. Shown'
    BY <2>1, <2>2
  <2> QED
    BY <1>0, <2>1, <2>3 DEF HitInv
<1>6. ASSUME NEW ref \in 1..M, Refs(M, FALSE, FALSE, FALSE)!Call(given, ref)
      PROVE  HitInv(M)'
  <2>1. /\ tool' = "resolve" /\ target' = [ref |-> ref, want |-> given[ref]]
        /\ UNCHANGED <<dom, born, stamp, given, late, acted>>
    BY <1>6 DEF Refs!Call
  <2>2. target'.ref = ref /\ target'.want = given[ref] /\ ref \in Nat \ {0}
    BY <2>1
  <2> QED
    BY <1>0, <2>1, <2>2 DEF HitInv
<1>7. CASE Refs(M, FALSE, FALSE, FALSE)!Resolve
  <2> DEFINE at == {i \in DOMAIN dom : stamp[dom[i]] = target.ref}
  <2>1. /\ tool = "resolve" /\ UNCHANGED <<dom, stamp, given, target, acted>>
        /\ found' = IF at = {} THEN 0 ELSE dom[CHOOSE i \in at : \A j \in at : i <= j]
        /\ tool' \in {"none", "act"} /\ (tool' = "act" => found' # 0) /\ ~late'
    BY <1>7 DEF Refs!Resolve, Refs!Then, Refs!elementByRef, HitInv
  <2>2. ASSUME tool' = "act" PROVE found' = target.want
    <3>1. at # {} /\ found' = dom[CHOOSE i \in at : \A j \in at : i <= j]
      BY <2>1, <2>2
    <3>2. at \subseteq Nat /\ \A i, j \in at : i = j
      <4>1. target.ref # 0 /\ dom \in Seq(1..M)
        BY <2>1 DEF HitInv, StampInv
      <4>2. ASSUME NEW i \in at, NEW j \in at PROVE i = j
        <5>1. /\ i \in DOMAIN dom /\ j \in DOMAIN dom
              /\ stamp[dom[i]] = target.ref /\ stamp[dom[j]] = target.ref
          OBVIOUS
        <5>2. \A p, q \in DOMAIN dom :
                p # q /\ stamp[dom[p]] # 0 => stamp[dom[p]] # stamp[dom[q]]
          BY DEF HitInv, StampInv
        <5> HIDE DEF at
        <5> QED
          BY <4>1, <5>1, <5>2
      <4>3. at \subseteq Nat
        BY <4>1
      <4> QED
        BY <4>2, <4>3
    <3>3. \E i \in at : \A j \in at : i <= j
      BY <3>1, <3>2
    <3>4. PICK i \in at : found' = dom[i]
      BY <3>1, <3>3
    <3> QED
      BY <2>1, <3>4 DEF HitInv
  <2> HIDE DEF at
  <2> QED
    BY <1>0, <2>1, <2>2 DEF HitInv
<1>8. CASE Refs(M, FALSE, FALSE, FALSE)!Act
  <2>1. /\ tool = "act" /\ tool' \in {"none", "snap"} /\ ~late'
        /\ acted' = <<target.want, found>> \/ UNCHANGED acted
        /\ UNCHANGED <<dom, stamp, given, target, found>>
    BY <1>8 DEF Refs!Act, Refs!Then, HitInv
  <2>2. acted'[1] = acted'[2]
    BY <2>1 DEF HitInv
  <2> QED
    BY <1>0, <2>1, <2>2 DEF HitInv
<1>9. CASE Refs(M, FALSE, FALSE, FALSE)!ActSnapshot
  <2>1. /\ stamp' = Refs(M, FALSE, FALSE, FALSE)!Stamps(dom) /\ given' = dom
        /\ tool' = "none" /\ ~late' /\ UNCHANGED <<dom, born, acted>>
    BY <1>9 DEF Refs!ActSnapshot, Refs!Give, HitInv
  <2>2. stamp' \in [1..M -> Nat] /\ Numbered(dom)
    BY <2>1, StampsNumber DEF StampInv, HitInv
  <2>3. \A i \in DOMAIN dom : stamp'[dom[i]] = i
    BY <2>1, <2>2, StampAll DEF HitInv
  <2>4. Shown'
    BY <2>1, <2>3
  <2> QED
    BY <1>0, <2>1, <2>4 DEF HitInv
<1>10. CASE \/ Refs(M, FALSE, FALSE, FALSE)!Finished
            \/ UNCHANGED Refs(M, FALSE, FALSE, FALSE)!vars
  BY <1>0, <1>10 DEF Refs!Finished, Refs!vars, HitInv
<1>11. ~Refs(M, FALSE, FALSE, FALSE)!ClickTimesOut /\ ~Refs(M, FALSE, FALSE, FALSE)!Dropped
       /\ ~Refs(M, FALSE, FALSE, FALSE)!RenderedFallback
       /\ \A i \in 1..M : ~Refs(M, FALSE, FALSE, FALSE)!FindTimesOut(i)
  BY DEF Refs!ClickTimesOut, Refs!Dropped, Refs!RenderedFallback, Refs!FindTimesOut, HitInv
<1> QED
  BY <1>1, <1>2, <1>3, <1>4, <1>5, <1>6, <1>7, <1>8, <1>9, <1>10, <1>11 DEF Refs!Next

-----------------------------------------------------------------------------
(* The report of a subagent. *)

ReportType ==
    /\ kind \in [SubReport!Depths -> {"subagent", "focused"}]
    /\ call \in [SubReport!Depths -> {"idle", "setup", "draining", "returned"}]
    /\ turn \in [0..ReportLevels -> {"none", "running", "ended"}]
    /\ chan \in [SubReport!Depths -> Seq(Events)]
    /\ said \in [SubReport!Depths -> 0..ReportSaid]
    /\ last \in [SubReport!Depths -> Nat] /\ heard \in [SubReport!Depths -> Nat]
    /\ result \in [SubReport!Depths -> Results]

\* Only deltas and the end follow.
LastOf(q, i) == \A j \in DOMAIN q : q[j].type = "message" => j <= i

\* What the child said last is the last message in its channel or, when none is
\* left there, what was heard.  The end of the turn comes behind all of them, and
\* there has been room for each.
ReportAt(d) ==
    /\ Len(chan[d]) <= said[d] + (IF turn[d] = "running" THEN 0 ELSE 1)
    /\ \A i \in DOMAIN chan[d] :
         /\ chan[d][i].type = "end" => turn[d] # "running" /\ i = Len(chan[d])
         /\ chan[d][i].type = "message" /\ LastOf(chan[d], i) => chan[d][i].value = last[d]
    /\ LastOf(chan[d], 0) => heard[d] = last[d]
    /\ call[d] = "returned" /\ result[d].ok =>
         turn[d] # "running" /\ result[d].report = last[d]

ReportInv == ReportType /\ \A d \in SubReport!Depths : ReportAt(d)

LEMMA ReportUntouched ==
    ASSUME ReportInv, NEW e \in SubReport!Depths, turn'[e] = turn[e], said'[e] = said[e],
           chan'[e] = chan[e], last'[e] = last[e], heard'[e] = heard[e],
           call'[e] = call[e], result'[e] = result[e]
    PROVE  ReportAt(e)'
  BY DEF ReportInv, ReportAt, LastOf

LEMMA ReportLaunch ==
    ASSUME SubReport!SubagentAssumption, ReportInv, NEW d \in SubReport!Depths,
           NEW k \in {"subagent", "focused"}, SubReport!Launch(d, k)
    PROVE  ReportInv'
<1>1. /\ turn[d] # "running"
      /\ kind' = [kind EXCEPT ![d] = k] /\ turn' = [turn EXCEPT ![d] = "none"]
      /\ UNCHANGED <<chan, said, last, heard>>
      /\ \/ /\ call' = [call EXCEPT ![d] = "setup"]
            /\ result' = [result EXCEPT ![d] = SubReport!None]
         \/ /\ call' = [call EXCEPT ![d] = "returned"]
            /\ result' = [result EXCEPT ![d] = SubReport!Failed]
  BY DEF SubReport!Launch
<1>2. SubReport!None \in Results /\ SubReport!Failed \in Results
      /\ ~SubReport!None.ok /\ ~SubReport!Failed.ok
  BY DEF SubReport!None, SubReport!Failed, Results
<1>3. SubReport!Depths \subseteq 0..ReportLevels
  BY DEF SubReport!SubagentAssumption, SubReport!Depths
<1>4. ReportType'
  <2>1. /\ kind \in [SubReport!Depths -> {"subagent", "focused"}]
        /\ call \in [SubReport!Depths -> {"idle", "setup", "draining", "returned"}]
        /\ turn \in [0..ReportLevels -> {"none", "running", "ended"}]
        /\ result \in [SubReport!Depths -> Results]
    BY DEF ReportInv, ReportType
  <2>2. /\ kind' \in [SubReport!Depths -> {"subagent", "focused"}]
        /\ turn' \in [0..ReportLevels -> {"none", "running", "ended"}]
    BY <1>1, <2>1
  <2>3. /\ call' \in [SubReport!Depths -> {"idle", "setup", "draining", "returned"}]
        /\ result' \in [SubReport!Depths -> Results]
    BY <1>1, <1>2, <2>1
  <2> QED
    BY <1>1, <2>2, <2>3 DEF ReportInv, ReportType
<1>5. ASSUME NEW e \in SubReport!Depths PROVE ReportAt(e)'
  <2>1. CASE e = d
    <3>1. turn'[d] = "none" /\ ~result'[d].ok
      BY <1>1, <1>2, <1>3 DEF ReportInv, ReportType
    <3> QED
      BY <1>1, <2>1, <3>1 DEF ReportInv, ReportAt, LastOf
  <2>2. CASE e # d
    BY <1>1, <1>3, <2>2, ReportUntouched DEF ReportInv, ReportType
  <2> QED
    BY <2>1, <2>2
<1> QED
  BY <1>4, <1>5 DEF ReportInv

LEMMA ReportSendUser ==
    ASSUME SubReport!SubagentAssumption, ReportInv, NEW d \in SubReport!Depths,
           SubReport!SendUser(d)
    PROVE  ReportInv'
<1>1. CASE stop[d - 1]
  <2>1. /\ call' = [call EXCEPT ![d] = "returned"]
        /\ result' = [result EXCEPT ![d] = SubReport!Failed]
        /\ UNCHANGED <<kind, turn, chan, said, last, heard>>
    BY <1>1 DEF SubReport!SendUser
  <2>2. SubReport!Failed \in Results /\ ~SubReport!Failed.ok
    BY DEF SubReport!Failed, Results
  <2>3. ReportType'
    BY <2>1, <2>2 DEF ReportInv, ReportType
  <2>4. ASSUME NEW e \in SubReport!Depths PROVE ReportAt(e)'
    <3>1. CASE e = d
      BY <2>1, <2>2, <3>1 DEF ReportInv, ReportType, ReportAt, LastOf
    <3>2. CASE e # d
      BY <2>1, <3>2, ReportUntouched DEF ReportInv, ReportType
    <3> QED
      BY <3>1, <3>2
  <2> QED
    BY <2>3, <2>4 DEF ReportInv
<1>2. CASE ~stop[d - 1]
  <2>1. /\ call' = [call EXCEPT ![d] = "draining"]
        /\ turn' = [turn EXCEPT ![d] = "running"]
        /\ chan' = [chan EXCEPT ![d] = <<>>] /\ said' = [said EXCEPT ![d] = 0]
        /\ last' = [last EXCEPT ![d] = 0] /\ heard' = [heard EXCEPT ![d] = 0]
        /\ UNCHANGED <<kind, result>>
    BY <1>2 DEF SubReport!SendUser
  <2>2. ReportSaid \in Nat /\ SubReport!Depths \subseteq 0..ReportLevels
    BY DEF SubReport!SubagentAssumption, SubReport!Depths
  <2>3. ReportType'
    BY <2>1, <2>2 DEF ReportInv, ReportType
  <2>4. ASSUME NEW e \in SubReport!Depths PROVE ReportAt(e)'
    <3>1. CASE e = d
      BY <2>1, <2>2, <3>1 DEF ReportInv, ReportType, ReportAt, LastOf
    <3>2. CASE e # d
      BY <2>1, <2>2, <3>2, ReportUntouched DEF ReportInv, ReportType
    <3> QED
      BY <3>1, <3>2
  <2> QED
    BY <2>3, <2>4 DEF ReportInv
<1> QED
  BY <1>1, <1>2

\* An event of a turn that runs finds room in the channel.
LEMMA ReportPublished ==
    ASSUME SubReport!SubagentAssumption, ReportSaid < ReportRoom, ReportInv,
           NEW d \in SubReport!Depths, NEW ev \in Events,
           turn[d] = "running", SubReport!publish(d, ev)
    PROVE  /\ chan' \in [SubReport!Depths -> Seq(Events)]
           /\ \A e \in SubReport!Depths : e # d => chan'[e] = chan[e]
           /\ chan'[d] = Append(chan[d], ev)
<1>1. Len(chan[d]) < ReportRoom
  BY DEF ReportInv, ReportType, ReportAt, SubReport!SubagentAssumption
<1> QED
  BY <1>1 DEF ReportInv, ReportType, SubReport!publish

LEMMA LastAfter ==
    ASSUME NEW q \in Seq(Events), NEW ev \in Events
    PROVE  /\ ev.type # "message" =>
                \A i \in 0..Len(q) : LastOf(Append(q, ev), i) => LastOf(q, i)
           /\ ev.type = "message" =>
                \A i \in 0..Len(q) : ~LastOf(Append(q, ev), i)
<1>1. /\ Len(Append(q, ev)) = Len(q) + 1 /\ Append(q, ev)[Len(q) + 1] = ev
      /\ \A i \in DOMAIN q : Append(q, ev)[i] = q[i]
      /\ DOMAIN q = 1..Len(q) /\ DOMAIN Append(q, ev) = 1..(Len(q) + 1)
  OBVIOUS
<1> QED
  BY <1>1 DEF LastOf

LEMMA ReportSay ==
    ASSUME SubReport!SubagentAssumption, ReportSaid < ReportRoom, ReportInv,
           NEW d \in SubReport!Depths, NEW words \in BOOLEAN, SubReport!Say(d, words)
    PROVE  ReportInv'
<1> DEFINE ev == [type |-> IF words THEN "message" ELSE "delta",
                  value |-> IF words THEN said'[d] ELSE 0]
<1>1. /\ turn[d] = "running" /\ SubReport!publish(d, ev) /\ said[d] < ReportSaid
      /\ said' = [said EXCEPT ![d] = @ + 1]
      /\ last' = [last EXCEPT ![d] = IF words THEN said'[d] ELSE @]
      /\ UNCHANGED <<kind, call, turn, result, heard>>
  BY DEF SubReport!Say, SubReport!Free
<1>2. said'[d] = said[d] + 1 /\ said' \in [SubReport!Depths -> 0..ReportSaid]
  BY <1>1 DEF ReportInv, ReportType, SubReport!SubagentAssumption
<1>3. ev \in Events /\ ev.type # "end" /\ ((ev.type = "message") <=> words)
      /\ (words => ev.value = said'[d])
  BY <1>2 DEF Events, ReportInv, ReportType
<1> HIDE DEF ev
<1>4. /\ chan' \in [SubReport!Depths -> Seq(Events)] /\ chan'[d] = Append(chan[d], ev)
      /\ \A e \in SubReport!Depths : e # d => chan'[e] = chan[e]
  BY <1>1, <1>3, ReportPublished
<1>5. /\ last' \in [SubReport!Depths -> Nat]
      /\ last'[d] = (IF words THEN said'[d] ELSE last[d])
      /\ \A e \in SubReport!Depths : e # d => last'[e] = last[e] /\ said'[e] = said[e]
  BY <1>1, <1>2 DEF ReportInv, ReportType
<1>6. ReportType'
  BY <1>1, <1>2, <1>4, <1>5 DEF ReportInv, ReportType
<1>7. ASSUME NEW e \in SubReport!Depths PROVE ReportAt(e)'
  <2>1. CASE e = d
    <3> DEFINE q == chan[d]
    <3>1. q \in Seq(Events) /\ Len(q) \in Nat /\ DOMAIN q = 1..Len(q)
      BY DEF ReportInv, ReportType
    <3>2. /\ Len(Append(q, ev)) = Len(q) + 1 /\ Append(q, ev)[Len(q) + 1] = ev
          /\ \A i \in 1..Len(q) : Append(q, ev)[i] = q[i]
          /\ DOMAIN Append(q, ev) = 1..(Len(q) + 1)
      BY <3>1, <1>3
    <3>3. ASSUME NEW i \in 1..(Len(q) + 1)
          PROVE  /\ Append(q, ev)[i].type # "end"
                 /\ Append(q, ev)[i].type = "message" /\ LastOf(Append(q, ev), i) =>
                      Append(q, ev)[i].value = last'[d]
      <4>1. CASE i = Len(q) + 1
        BY <1>3, <1>5, <3>2, <4>1
      <4>2. CASE i # Len(q) + 1
        <5>1. i \in 1..Len(q) /\ i \in 0..Len(q)
          BY <3>1, <4>2
        <5>2. q[i].type # "end" /\ (q[i].type = "message" /\ LastOf(q, i) => q[i].value = last[d])
          BY <1>1, <3>1, <5>1 DEF ReportInv, ReportAt
        <5> QED
          BY <1>3, <1>5, <3>1, <3>2, <5>1, <5>2, LastAfter
      <4> QED
        BY <4>1, <4>2
    <3>4. LastOf(Append(q, ev), 0) => heard[d] = last'[d]
      <4>1. 0 \in 0..Len(q)
        BY <3>1
      <4> QED
        BY <1>3, <1>5, <3>1, <4>1, LastAfter DEF ReportInv, ReportAt
    <3>5. Len(q) <= said[d] /\ ~(call[d] = "returned" /\ result[d].ok)
      BY <1>1, <3>1 DEF ReportInv, ReportAt, ReportType
    <3>6. said[d] \in Nat
      BY DEF ReportInv, ReportType
    <3> HIDE DEF q
    <3>7. chan'[d] = Append(q, ev)
      BY <1>4 DEF q
    <3> QED
      BY <1>1, <1>2, <2>1, <3>1, <3>2, <3>3, <3>4, <3>5, <3>6, <3>7 DEF ReportAt
  <2>2. CASE e # d
    BY <1>1, <1>4, <1>5, <2>2, ReportUntouched
  <2> QED
    BY <2>1, <2>2
<1> QED
  BY <1>6, <1>7 DEF ReportInv

LEMMA ReportEndTurn ==
    ASSUME SubReport!SubagentAssumption, ReportSaid < ReportRoom, ReportInv,
           NEW d \in SubReport!Depths, NEW why \in SubReport!Reasons,
           SubReport!EndTurn(d, why)
    PROVE  ReportInv'
<1> DEFINE ev == [type |-> "end", value |-> IF why = "completed" THEN 1 ELSE 0]
<1>1. /\ turn[d] = "running" /\ SubReport!publish(d, ev)
      /\ turn' = [turn EXCEPT ![d] = "ended"]
      /\ UNCHANGED <<kind, call, said, last, heard, result>>
  BY DEF SubReport!EndTurn, SubReport!Free
<1>2. ev \in Events /\ ev.type = "end"
  BY DEF Events
<1> HIDE DEF ev
<1>3. /\ chan' \in [SubReport!Depths -> Seq(Events)] /\ chan'[d] = Append(chan[d], ev)
      /\ \A e \in SubReport!Depths : e # d => chan'[e] = chan[e]
  BY <1>1, <1>2, ReportPublished
<1>4. turn'[d] = "ended" /\ \A e \in SubReport!Depths : e # d => turn'[e] = turn[e]
  BY <1>1 DEF ReportInv, ReportType, SubReport!Depths
<1>5. ReportType'
  BY <1>1, <1>3 DEF ReportInv, ReportType
<1>6. ASSUME NEW e \in SubReport!Depths PROVE ReportAt(e)'
  <2>1. CASE e = d
    <3> DEFINE q == chan[d]
    <3>1. q \in Seq(Events) /\ Len(q) \in Nat /\ DOMAIN q = 1..Len(q)
      BY DEF ReportInv, ReportType
    <3>2. /\ Len(Append(q, ev)) = Len(q) + 1 /\ Append(q, ev)[Len(q) + 1] = ev
          /\ \A i \in 1..Len(q) : Append(q, ev)[i] = q[i]
          /\ DOMAIN Append(q, ev) = 1..(Len(q) + 1)
      BY <3>1, <1>2
    <3>3. ASSUME NEW i \in 1..(Len(q) + 1)
          PROVE  /\ Append(q, ev)[i].type = "end" => i = Len(q) + 1
                 /\ Append(q, ev)[i].type = "message" /\ LastOf(Append(q, ev), i) =>
                      Append(q, ev)[i].value = last[d]
      <4>1. CASE i = Len(q) + 1
        BY <1>2, <3>2, <4>1
      <4>2. CASE i # Len(q) + 1
        <5>1. i \in 1..Len(q) /\ i \in 0..Len(q)
          BY <3>1, <4>2
        <5>2. q[i].type # "end" /\ (q[i].type = "message" /\ LastOf(q, i) => q[i].value = last[d])
          BY <1>1, <3>1, <5>1 DEF ReportInv, ReportAt
        <5> QED
          BY <1>2, <3>1, <3>2, <5>1, <5>2, LastAfter
      <4> QED
        BY <4>1, <4>2
    <3>4. LastOf(Append(q, ev), 0) => heard[d] = last[d]
      <4>1. 0 \in 0..Len(q)
        BY <3>1
      <4> QED
        BY <1>2, <3>1, <4>1, LastAfter DEF ReportInv, ReportAt
    <3>5. Len(q) <= said[d] /\ ~(call[d] = "returned" /\ result[d].ok)
      BY <1>1, <3>1 DEF ReportInv, ReportAt, ReportType
    <3>6. said[d] \in Nat
      BY DEF ReportInv, ReportType
    <3> HIDE DEF q
    <3>7. chan'[d] = Append(q, ev)
      BY <1>3 DEF q
    <3> QED
      BY <1>1, <1>4, <2>1, <3>1, <3>2, <3>3, <3>4, <3>5, <3>6, <3>7 DEF ReportAt
  <2>2. CASE e # d
    BY <1>1, <1>3, <1>4, <2>2, ReportUntouched
  <2> QED
    BY <2>1, <2>2
<1> QED
  BY <1>5, <1>6 DEF ReportInv

\* The events q of a turn t end with its end and hold v as their last message,
\* or none when v is w.
Left(q, t, v, w) ==
    /\ \A i \in 1..Len(q) :
         /\ q[i].type = "end" => t # "running" /\ i = Len(q)
         /\ q[i].type = "message" /\ LastOf(q, i) => q[i].value = v
    /\ LastOf(q, 0) => w = v

\* The rest of the events of a turn, when the first is taken.
LEMMA Drained ==
    ASSUME NEW q \in Seq(Events), q # <<>>, NEW t, NEW v, NEW w,
           Left(q, t, v, w)
    PROVE  /\ Left(Tail(q), t, v, IF Head(q).type = "message" THEN Head(q).value ELSE w)
           /\ Head(q).type = "end" => t # "running" /\ w = v
<1> DEFINE r == Tail(q)
           n == Len(q)
<1>1. /\ n \in Nat \ {0} /\ Len(r) = n - 1 /\ Head(q) = q[1]
      /\ DOMAIN q = 1..n /\ DOMAIN r = 1..(n - 1)
      /\ \A i \in 1..(n - 1) : r[i] = q[i + 1]
  OBVIOUS
<1> HIDE DEF r, n
<1>2. ASSUME NEW i \in 0..(n - 1), LastOf(r, i) PROVE LastOf(q, i + 1)
  <2> SUFFICES ASSUME NEW j \in 1..n, q[j].type = "message" PROVE j <= i + 1
    BY <1>1 DEF LastOf
  <2>1. CASE j = 1
    BY <2>1
  <2>2. CASE j # 1
    <3>1. j - 1 \in 1..(n - 1) /\ (j - 1) + 1 = j
      BY <1>1, <2>2
    <3>2. r[j - 1] = q[j]
      BY <1>1, <3>1
    <3>3. j - 1 <= i
      BY <1>1, <1>2, <3>1, <3>2 DEF LastOf
    <3> QED
      BY <3>1, <3>3
  <2> QED
    BY <2>1, <2>2
<1>3. ASSUME NEW i \in 1..(n - 1)
      PROVE  /\ r[i].type = "end" => t # "running" /\ i = n - 1
             /\ r[i].type = "message" /\ LastOf(r, i) => r[i].value = v
  <2>1. i + 1 \in 1..n /\ r[i] = q[i + 1] /\ (i + 1 = n => i = n - 1)
    BY <1>1
  <2>2. /\ q[i + 1].type = "end" => t # "running" /\ i + 1 = n
        /\ q[i + 1].type = "message" /\ LastOf(q, i + 1) => q[i + 1].value = v
    BY <2>1 DEF n, Left
  <2>3. LastOf(r, i) => LastOf(q, i + 1)
    BY <1>1, <1>2
  <2> QED
    BY <2>1, <2>2, <2>3
<1>4. /\ q[1].type = "end" => t # "running" /\ 1 = n
      /\ q[1].type = "message" /\ LastOf(q, 1) => q[1].value = v
  <2>1. 1 \in 1..n
    BY <1>1
  <2> QED
    BY <2>1 DEF n, Left
<1>5. LastOf(r, 0) => (IF q[1].type = "message" THEN q[1].value ELSE w) = v
  <2> SUFFICES ASSUME LastOf(r, 0) PROVE (IF q[1].type = "message" THEN q[1].value ELSE w) = v
    OBVIOUS
  <2>1. LastOf(q, 1)
    <3>1. 0 \in 0..(n - 1) /\ 0 + 1 = 1
      BY <1>1
    <3>2. LastOf(q, 0 + 1)
      BY <1>2, <3>1
    <3> QED
      BY <3>1, <3>2
  <2>2. CASE q[1].type = "message"
    BY <1>4, <2>1, <2>2
  <2>3. CASE q[1].type # "message"
    <3>1. ASSUME NEW j \in 1..n, q[j].type = "message" PROVE FALSE
      <4>1. j <= 1
        BY <1>1, <2>1, <3>1 DEF LastOf
      <4> QED
        BY <4>1, <2>3, <3>1
    <3>2. LastOf(q, 0)
      BY <1>1, <3>1 DEF LastOf
    <3> QED
      BY <2>3, <3>2 DEF Left
  <2> QED
    BY <2>2, <2>3
<1>6. q[1].type = "end" => t # "running" /\ w = v
  <2> SUFFICES ASSUME q[1].type = "end" PROVE w = v
    BY <1>4
  <2>1. n = 1 /\ q[1].type # "message"
    BY <1>4
  <2>2. LastOf(q, 0)
    BY <1>1, <2>1 DEF LastOf
  <2> QED
    BY <2>2 DEF Left
<1> QED
  BY <1>1, <1>3, <1>5, <1>6 DEF r, Left

LEMMA ReportDrain ==
    ASSUME SubReport!SubagentAssumption, ReportInv, NEW d \in SubReport!Depths,
           SubReport!drainSubagent(d)
    PROVE  ReportInv'
<1> DEFINE q == chan[d]
           ev == Head(chan[d])
<1>1. /\ call[d] = "draining" /\ q # <<>>
      /\ chan' = [chan EXCEPT ![d] = Tail(@)]
      /\ heard' = [heard EXCEPT ![d] = IF ev.type = "message" THEN ev.value ELSE @]
      /\ UNCHANGED <<kind, turn, said, last>>
  BY DEF SubReport!drainSubagent
<1>2. \/ ev.type # "end" /\ UNCHANGED <<call, result>>
      \/ ev.type = "end" /\ \E ok \in BOOLEAN :
           /\ call' = [call EXCEPT ![d] = "returned"]
           /\ result' = [result EXCEPT ![d] = [ok |-> ok, err |-> FALSE, report |-> heard[d]]]
  BY DEF SubReport!drainSubagent, SubReport!Return, SubReport!Verdicts,
         SubReport!buildFocusedTaskResult, SubReport!runSubagentOk
<1>3. q \in Seq(Events) /\ ev = Head(q) /\ heard[d] \in Nat /\ last[d] \in Nat
  BY DEF ReportInv, ReportType
<1>4. /\ Tail(q) \in Seq(Events) /\ Len(Tail(q)) = Len(q) - 1
      /\ Len(q) \in Nat \ {0} /\ ev = q[1] /\ ev \in Events
      /\ DOMAIN q = 1..Len(q)
  BY <1>1, <1>3
<1>5. /\ chan'[d] = Tail(q)
      /\ heard'[d] = (IF ev.type = "message" THEN ev.value ELSE heard[d])
      /\ \A e \in SubReport!Depths : e # d => chan'[e] = chan[e] /\ heard'[e] = heard[e]
      /\ chan' \in [SubReport!Depths -> Seq(Events)] /\ heard' \in [SubReport!Depths -> Nat]
  BY <1>1, <1>4 DEF ReportInv, ReportType, Events
<1>6. \A ok \in BOOLEAN : [ok |-> ok, err |-> FALSE, report |-> heard[d]] \in Results
  BY <1>3 DEF Results
<1>7. /\ call' \in [SubReport!Depths -> {"idle", "setup", "draining", "returned"}]
      /\ result' \in [SubReport!Depths -> Results]
      /\ \A e \in SubReport!Depths : e # d => call'[e] = call[e] /\ result'[e] = result[e]
      /\ call'[d] = "returned" => ev.type = "end" /\ result'[d].report = heard[d]
  <2>1. CASE UNCHANGED <<call, result>>
    BY <1>1, <2>1 DEF ReportInv, ReportType
  <2>2. ASSUME NEW ok \in BOOLEAN, ev.type = "end",
               call' = [call EXCEPT ![d] = "returned"],
               result' = [result EXCEPT ![d] = [ok |-> ok, err |-> FALSE, report |-> heard[d]]]
        PROVE  <1>7
    BY <1>6, <2>2 DEF ReportInv, ReportType
  <2> QED
    BY <1>2, <2>1, <2>2
<1>8. ReportType'
  BY <1>1, <1>5, <1>7 DEF ReportInv, ReportType
<1>9. Len(q) <= said[d] + (IF turn[d] = "running" THEN 0 ELSE 1) /\ said[d] \in Nat
  BY DEF ReportInv, ReportType, ReportAt
<1>10. Left(q, turn[d], last[d], heard[d])
  BY <1>4 DEF ReportInv, ReportAt, Left
<1>11. q \in Seq(Events) /\ q # <<>> /\ ev = Head(q)
  BY <1>1, <1>3
<1> HIDE DEF q, ev
<1>12. /\ Left(Tail(q), turn[d], last[d], heard'[d])
       /\ ev.type = "end" => turn[d] # "running" /\ heard[d] = last[d]
  <2>1. heard'[d] = (IF Head(q).type = "message" THEN Head(q).value ELSE heard[d])
    BY <1>5, <1>11
  <2> QED
    BY <1>10, <1>11, <2>1, Drained
<1>13. /\ Len(Tail(q)) = Len(q) - 1 /\ Len(q) \in Nat \ {0}
       /\ DOMAIN Tail(q) = 1..Len(Tail(q))
  BY <1>11
<1>14. ASSUME NEW e \in SubReport!Depths PROVE ReportAt(e)'
  <2>1. CASE e = d
    <3>1. chan'[d] = Tail(q) /\ UNCHANGED <<turn, said, last>>
      BY <1>1, <1>5
    <3>2. Len(Tail(q)) <= said[d] + (IF turn[d] = "running" THEN 0 ELSE 1)
      BY <1>9, <1>13
    <3>3. call'[d] = "returned" => turn[d] # "running" /\ result'[d].report = last[d]
      BY <1>7, <1>12
    <3> QED
      BY <1>12, <1>13, <2>1, <3>1, <3>2, <3>3 DEF ReportAt, Left
  <2>2. CASE e # d
    BY <1>1, <1>5, <1>7, <2>2, ReportUntouched
  <2> QED
    BY <2>1, <2>2
<1> QED
  BY <1>8, <1>14 DEF ReportInv

LEMMA ReportCancelled ==
    ASSUME ReportInv, NEW d \in SubReport!Depths, SubReport!drainCancelled(d)
    PROVE  ReportInv'
<1>1. /\ call' = [call EXCEPT ![d] = "returned"]
      /\ result' = [result EXCEPT ![d] = [ok |-> FALSE, err |-> TRUE, report |-> heard[d]]]
      /\ UNCHANGED <<kind, turn, chan, said, last, heard>>
  BY DEF SubReport!drainCancelled, SubReport!Return
<1>2. ReportType'
  BY <1>1 DEF ReportInv, ReportType, Results
<1>3. ASSUME NEW e \in SubReport!Depths PROVE ReportAt(e)'
  <2>1. CASE e = d
    BY <1>1, <2>1 DEF ReportInv, ReportType, ReportAt, LastOf
  <2>2. CASE e # d
    BY <1>1, <2>2, ReportUntouched DEF ReportInv, ReportType
  <2> QED
    BY <2>1, <2>2
<1> QED
  BY <1>2, <1>3 DEF ReportInv

\* What a subagent is reported to have said is the last message of its turn, for
\* every chain of calls, when the events of a turn fit the channel.
THEOREM ReportIsLastCorrect ==
    ASSUME SubReport!SubagentAssumption, ReportSaid < ReportRoom
    PROVE  SubReport!Spec => []SubReport!ReportIsLast
<1>1. SubReport!Init => ReportInv
  <2> SUFFICES ASSUME SubReport!Init PROVE ReportInv
    OBVIOUS
  <2>1. ReportType
    BY DEF SubReport!Init, ReportType, SubReport!SubagentAssumption, SubReport!None, Results
  <2>2. ASSUME NEW d \in SubReport!Depths PROVE ReportAt(d)
    BY DEF SubReport!Init, ReportAt, LastOf, SubReport!None, SubReport!Depths
  <2> QED
    BY <2>1, <2>2 DEF ReportInv
<1>2. ReportInv /\ [SubReport!Next]_(SubReport!vars) => ReportInv'
  <2> SUFFICES ASSUME ReportInv, [SubReport!Next]_(SubReport!vars) PROVE ReportInv'
    OBVIOUS
  <2>1. ASSUME NEW d \in SubReport!Depths,
               SubReport!runSubagent(d) \/ SubReport!runFocusedTask(d)
        PROVE  ReportInv'
    BY <2>1, ReportLaunch DEF SubReport!runSubagent, SubReport!runFocusedTask
  <2>2. ASSUME NEW d \in SubReport!Depths, SubReport!SendUser(d) PROVE ReportInv'
    BY <2>2, ReportSendUser
  <2>3. ASSUME NEW d \in SubReport!Depths, NEW words \in BOOLEAN, SubReport!Say(d, words)
        PROVE  ReportInv'
    BY <2>3, ReportSay
  <2>4. ASSUME NEW d \in SubReport!Depths, NEW why \in SubReport!Reasons,
               SubReport!EndTurn(d, why)
        PROVE  ReportInv'
    BY <2>4, ReportEndTurn
  <2>5. ASSUME NEW d \in SubReport!Depths, SubReport!drainSubagent(d) PROVE ReportInv'
    BY <2>5, ReportDrain
  <2>6. ASSUME NEW d \in SubReport!Depths, SubReport!drainCancelled(d) PROVE ReportInv'
    BY <2>6, ReportCancelled
  <2>7. ASSUME SubReport!CancelRoot \/ SubReport!Done \/ UNCHANGED SubReport!vars
        PROVE  ReportInv'
    <3>1. UNCHANGED <<kind, call, turn, chan, said, last, heard, result>>
      BY <2>7 DEF SubReport!CancelRoot, SubReport!Done, SubReport!vars
    <3> QED
      BY <3>1 DEF ReportInv, ReportType, ReportAt, LastOf
  <2>8. CASE SubReport!EndRoot
    <3>1. /\ turn' = [turn EXCEPT ![0] = "ended"] /\ SubReport!Depths \subseteq 1..ReportLevels
          /\ UNCHANGED <<kind, call, chan, said, last, heard, result>>
      BY <2>8 DEF SubReport!EndRoot, SubReport!Depths
    <3>2. ReportType'
      BY <3>1 DEF ReportInv, ReportType
    <3>3. ASSUME NEW e \in SubReport!Depths PROVE ReportAt(e)'
      <4>1. e # 0 /\ e \in 0..ReportLevels
        BY <3>1 DEF SubReport!SubagentAssumption
      <4> QED
        BY <3>1, <4>1, ReportUntouched DEF ReportInv, ReportType
    <3> QED
      BY <3>2, <3>3 DEF ReportInv
  <2> QED
    BY <2>1, <2>2, <2>3, <2>4, <2>5, <2>6, <2>7, <2>8 DEF SubReport!Next
<1>3. ReportInv => SubReport!ReportIsLast
  BY DEF ReportInv, ReportAt, SubReport!ReportIsLast
<1> QED
  BY <1>1, <1>2, <1>3, PTL DEF SubReport!Spec

-----------------------------------------------------------------------------
(* The stream of a model's reply. *)

Replies == [calls : Seq(Nat), text : Nat]
Chunks == [type : {"text", "finish", "done", "reset", "oversize"}]
          \cup [type : {"call"}, header : BOOLEAN, arg : BOOLEAN, index : Nat]
NoReply == [calls |-> <<>>, text |-> -1]
StreamEvents == [type : {"text", "call", "error", "finish"}, value : Replies \cup {NoReply}]

\* What a fragment does to the calls read so far, and a chunk to the reply.
Fitted(q, c) ==
    LET i == IF c.index # 0 THEN c.index ELSE IF c.header THEN Len(q) + 1 ELSE Len(q)
        n == IF c.arg THEN 1 ELSE 0
    IN  IF c.header THEN IF i > Len(q) THEN Append(q, n) ELSE [q EXCEPT ![i] = n]
        ELSE IF i \in DOMAIN q THEN [q EXCEPT ![i] = @ + n] ELSE q
Taken(r, c) ==
    [calls |-> IF c.type = "call" THEN Fitted(r.calls, c) ELSE r.calls,
     text |-> IF c.type = "text" THEN r.text + 1 ELSE r.text]

Speaks(c) == c.type \in {"text", "call", "finish"}
Finished == server \in {"finished", "closed"}

StreamType ==
    /\ sent \in Replies /\ server \in {"open", "finished", "closed", "broken"}
    /\ wire \in Seq(Chunks) /\ calls \in Seq(Nat) /\ text \in Nat
    /\ finishSeen \in BOOLEAN /\ reader \in {"reading", "emitting", "ended"}
    /\ reader = "emitting" => out \in StreamEvents
    /\ chan \in Seq(StreamEvents) /\ shown \in Nat

\* The chunks on the wire lead from what was read to what was sent: h is the reply
\* before each of them, and at the end.
Leads(h) ==
    /\ h \in Seq(Replies) /\ Len(h) = Len(wire) + 1
    /\ h[1].calls = calls /\ h[1].text = text /\ h[Len(wire) + 1] = sent
    /\ \A j \in 1..Len(wire) :
         /\ h[j + 1] = Taken(h[j], wire[j])
         /\ wire[j].type = "finish" =>
              /\ Finished /\ h[j] = sent
              /\ \A k \in (j + 1)..Len(wire) : ~Speaks(wire[k])
Whole == \E h \in Seq(Replies) : Leads(h)

\* Nothing follows finish_reason.
Settled ==
    finishSeen =>
      /\ Finished /\ calls = sent.calls /\ text = sent.text
      /\ \A k \in 1..Len(wire) : ~Speaks(wire[k])

\* The events in the channel lead from what was shown to what was read, g likewise;
\* the message comes last.
Shows(g) ==
    /\ g \in Seq(Nat) /\ Len(g) = Len(chan) + 1 /\ g[1] = shown
    /\ \A j \in 1..Len(chan) :
         /\ g[j + 1] = IF chan[j].type = "text" THEN g[j] + 1 ELSE g[j]
         /\ chan[j].type = "finish" =>
              /\ j = Len(chan) /\ reader = "ended" /\ finishSeen
              /\ chan[j].value = sent /\ g[j] = sent.text
    /\ reader = "reading" => g[Len(chan) + 1] = text
    /\ reader = "emitting" =>
         text = IF out.type = "text" THEN g[Len(chan) + 1] + 1 ELSE g[Len(chan) + 1]
ShownText == \E g \in Seq(Nat) : Shows(g)

Received ==
    /\ reader = "emitting" /\ out.type = "finish" => finishSeen /\ out.value = sent
    /\ got # NoReply =>
         /\ reader = "ended" /\ finishSeen /\ chan = <<>>
         /\ got = sent /\ shown = sent.text
    /\ result = "message" => got # NoReply

StreamInv == StreamType /\ Whole /\ Settled /\ ShownText /\ Received

LEMMA SeqExcept ==
    ASSUME NEW q \in Seq(Nat), NEW i, NEW n \in Nat
    PROVE  [q EXCEPT ![i] = n] \in Seq(Nat)
<1>1. q \in [1..Len(q) -> Nat] /\ Len(q) \in Nat
  OBVIOUS
<1>2. [q EXCEPT ![i] = n] \in [1..Len(q) -> Nat]
  BY <1>1
<1> QED
  BY <1>1, <1>2, SeqDef

LEMMA FittedIsSeq ==
    ASSUME NEW q \in Seq(Nat), NEW c, c.header \in BOOLEAN, c.arg \in BOOLEAN, c.index \in Nat
    PROVE  Fitted(q, c) \in Seq(Nat)
<1> DEFINE i == IF c.index # 0 THEN c.index ELSE IF c.header THEN Len(q) + 1 ELSE Len(q)
           n == IF c.arg THEN 1 ELSE 0
<1>1. i \in Nat /\ n \in Nat
  OBVIOUS
<1>2. Fitted(q, c) = IF c.header THEN IF i > Len(q) THEN Append(q, n) ELSE [q EXCEPT ![i] = n]
                     ELSE IF i \in DOMAIN q THEN [q EXCEPT ![i] = q[i] + n] ELSE q
  BY DEF Fitted
<1> HIDE DEF i, n
<1>3. [q EXCEPT ![i] = n] \in Seq(Nat)
  BY <1>1, SeqExcept
<1>4. Append(q, n) \in Seq(Nat)
  BY <1>1
<1>5. ASSUME i \in DOMAIN q PROVE [q EXCEPT ![i] = q[i] + n] \in Seq(Nat)
  <2>1. q[i] + n \in Nat
    BY <1>1, <1>5
  <2> QED
    BY <1>1, <2>1, SeqExcept
<1> QED
  BY <1>2, <1>3, <1>5, <1>4

LEMMA TakenIsReply ==
    ASSUME NEW r \in Replies, NEW c \in Chunks
    PROVE  Taken(r, c) \in Replies
<1>1. CASE c.type = "call"
  <2>1. /\ c.header \in BOOLEAN /\ c.arg \in BOOLEAN /\ c.index \in Nat
        /\ r.calls \in Seq(Nat) /\ r.text \in Nat
    BY <1>1 DEF Chunks, Replies
  <2>2. Fitted(r.calls, c) \in Seq(Nat)
    BY <2>1, FittedIsSeq
  <2> QED
    BY <1>1, <2>1, <2>2 DEF Taken, Replies
<1>2. CASE c.type # "call"
  BY <1>2 DEF Taken, Replies
<1> QED
  BY <1>1, <1>2

\* What is sent is what will be read, and the wire grows by it.
LEMMA StreamGrows ==
    ASSUME StreamInv, NEW c \in Chunks,
           wire' = Append(wire, c), sent' = Taken(sent, c),
           Speaks(c) => server = "open",
           server' = IF c.type = "finish" THEN "finished" ELSE IF Speaks(c) THEN "open"
                     ELSE IF server = "open" THEN "broken" ELSE "closed",
           UNCHANGED <<calls, text, finishSeen, reader, out, chan, shown, got, result>>
    PROVE  StreamInv'
<1>1. sent' \in Replies /\ sent \in Replies
  BY TakenIsReply DEF StreamInv, StreamType
<1>2. ~Speaks(c) \/ c.type = "finish" => sent' = sent
  BY <1>1 DEF Taken, Speaks, Replies
<1>3. Finished => Finished' /\ ~Speaks(c) /\ sent' = sent
  BY <1>2 DEF Finished
<1>4. /\ Len(wire') = Len(wire) + 1 /\ wire' \in Seq(Chunks) /\ wire'[Len(wire) + 1] = c
      /\ \A j \in 1..Len(wire) : wire'[j] = wire[j]
      /\ Len(wire) \in Nat
  BY DEF StreamInv, StreamType
<1>5. StreamType'
  BY <1>1, <1>4 DEF StreamInv, StreamType
<1>6. Whole'
  <2>1. PICK h \in Seq(Replies) : Leads(h)
    BY DEF StreamInv, Whole
  <2>2. /\ Append(h, sent') \in Seq(Replies) /\ Len(Append(h, sent')) = Len(wire) + 2
        /\ Append(h, sent')[Len(wire) + 2] = sent'
        /\ \A j \in 1..(Len(wire) + 1) : Append(h, sent')[j] = h[j]
    BY <1>1, <1>4, <2>1 DEF Leads
  <2>3. PICK hh \in Seq(Replies) :
          /\ Len(hh) = Len(wire) + 2 /\ hh[Len(wire) + 2] = sent'
          /\ \A j \in 1..(Len(wire) + 1) : hh[j] = h[j]
    BY <2>2
  <2>4. ASSUME NEW j \in 1..(Len(wire) + 1)
        PROVE  /\ hh[j + 1] = Taken(hh[j], wire'[j])
               /\ wire'[j].type = "finish" =>
                    /\ Finished' /\ hh[j] = sent'
                    /\ \A k \in (j + 1)..(Len(wire) + 1) : ~Speaks(wire'[k])
    <3>1. CASE j = Len(wire) + 1
      <4>1. hh[j] = sent
        BY <1>4, <2>1, <2>3, <3>1 DEF Leads
      <4>2. wire'[j] = c /\ hh[j + 1] = sent'
        BY <1>4, <2>3, <3>1
      <4>3. c.type = "finish" => Finished'
        BY DEF Finished
      <4>4. (j + 1)..(Len(wire) + 1) = {}
        BY <1>4, <3>1
      <4> QED
        BY <1>2, <4>1, <4>2, <4>3, <4>4
    <3>2. CASE j # Len(wire) + 1
      <4>1. j \in 1..Len(wire) /\ j + 1 \in 1..(Len(wire) + 1) /\ j \in 1..(Len(wire) + 1)
        BY <1>4, <3>2
      <4>2. wire'[j] = wire[j] /\ hh[j] = h[j] /\ hh[j + 1] = h[j + 1]
        BY <1>4, <2>3, <4>1
      <4>3. /\ h[j + 1] = Taken(h[j], wire[j])
            /\ wire[j].type = "finish" =>
                 Finished /\ h[j] = sent /\ \A k \in (j + 1)..Len(wire) : ~Speaks(wire[k])
        BY <2>1, <4>1 DEF Leads
      <4>4. ASSUME wire[j].type = "finish", NEW k \in (j + 1)..(Len(wire) + 1)
            PROVE  ~Speaks(wire'[k])
        <5>1. CASE k = Len(wire) + 1
          BY <1>3, <1>4, <4>3, <4>4, <5>1
        <5>2. CASE k # Len(wire) + 1
          <6>1. \A n \in Nat : \A i \in 1..n : \A l \in (i + 1)..(n + 1) :
                   l # n + 1 => l \in (i + 1)..n /\ l \in 1..n
            OBVIOUS
          <6>2. k \in (j + 1)..Len(wire) /\ k \in 1..Len(wire)
            BY <1>4, <4>1, <5>2, <6>1
          <6> QED
            BY <1>4, <4>3, <4>4, <6>2
        <5> QED
          BY <5>1, <5>2
      <4> QED
        BY <1>3, <4>2, <4>3, <4>4
    <3> QED
      BY <3>1, <3>2
  <2>5. hh[1].calls = calls' /\ hh[1].text = text'
    BY <1>4, <2>1, <2>3 DEF Leads
  <2>6. Leads(hh)'
    BY <1>4, <2>3, <2>4, <2>5 DEF Leads
  <2> QED
    BY <2>3, <2>6 DEF Whole
<1>7. Settled'
  <2>1. ASSUME finishSeen, NEW k \in 1..(Len(wire) + 1) PROVE ~Speaks(wire'[k])
    BY <1>3, <1>4, <2>1 DEF StreamInv, Settled
  <2> QED
    BY <1>3, <1>4, <2>1 DEF StreamInv, Settled
<1>8. finishSeen => sent' = sent
  BY <1>3 DEF StreamInv, Settled
<1>9. ShownText'
  <2>1. PICK g \in Seq(Nat) : Shows(g)
    BY DEF StreamInv, ShownText
  <2>2. Shows(g)'
    BY <1>8, <2>1 DEF Shows
  <2> QED
    BY <2>2 DEF ShownText
<1>10. Received'
  BY <1>8 DEF StreamInv, Received
<1> QED
  BY <1>5, <1>6, <1>7, <1>9, <1>10 DEF StreamInv

LEMMA AddFragmentFits ==
    ASSUME NEW Style, NEW c
    PROVE  Stream(Style)!AddFragment(c) = Fitted(calls, c)
  BY DEF Stream!AddFragment, Stream!CallIndex, Fitted

\* A chunk that is read: the reply read so far is the next one on the way.
LEMMA StreamRead ==
    ASSUME NEW Style, StreamInv, Stream(Style)!ReadChunk
    PROVE  StreamInv'
<1> DEFINE c == Head(wire)
<1>1. /\ reader = "reading" /\ wire # <<>> /\ wire' = Tail(wire)
      /\ UNCHANGED <<sent, server, chan, shown, got, result>>
      /\ calls' = (IF c.type = "call" THEN Fitted(calls, c) ELSE calls)
      /\ text' = (IF c.type = "text" THEN text + 1 ELSE text)
      /\ finishSeen' = (finishSeen \/ c.type = "finish")
  BY AddFragmentFits DEF Stream!ReadChunk, Stream!consuming, Stream!EndOfStream, Stream!Emit,
     StreamInv, StreamType
<1>2. /\ c.type = "finish" => UNCHANGED <<reader, out>>
      /\ c.type # "finish" =>
           /\ reader' = "emitting"
           /\ out'.type = "text" <=> c.type = "text"
           /\ out'.type \in {"text", "call", "error", "finish"}
           /\ IF out'.type = "finish" THEN finishSeen /\ out'.value = [calls |-> calls, text |-> text]
                                           /\ ~Speaks(c)
              ELSE out'.value = NoReply
           /\ out' = [type |-> out'.type, value |-> out'.value]
  BY DEF Stream!ReadChunk, Stream!EndOfStream, Stream!Emit, Stream!Assembled, Stream!NoMessage, NoReply,
     Speaks
<1>3. /\ Len(wire') = Len(wire) - 1 /\ wire' \in Seq(Chunks) /\ Len(wire) \in Nat \ {0}
      /\ \A j \in 1..(Len(wire) - 1) : wire'[j] = wire[j + 1]
      /\ c = wire[1] /\ c \in Chunks /\ 1 \in 1..Len(wire)
  BY <1>1 DEF StreamInv, StreamType
<1> HIDE DEF c
<1>4. [calls |-> calls, text |-> text] \in Replies
      /\ [calls |-> calls', text |-> text'] \in Replies
      /\ [calls |-> calls', text |-> text'] = Taken([calls |-> calls, text |-> text], c)
  <2>1. [calls |-> calls, text |-> text] \in Replies
    BY DEF StreamInv, StreamType, Replies
  <2>2. [calls |-> calls', text |-> text'] = Taken([calls |-> calls, text |-> text], c)
    BY <1>1 DEF Taken
  <2> QED
    BY <1>3, <2>1, <2>2, TakenIsReply
<1>5. StreamType'
  <2>1. calls' \in Seq(Nat) /\ text' \in Nat /\ finishSeen' \in BOOLEAN
    BY <1>1, <1>4 DEF Replies, StreamInv, StreamType
  <2>2. c.type # "finish" => out' \in StreamEvents
    BY <1>2, <1>4 DEF StreamEvents
  <2>3. reader' \in {"reading", "emitting", "ended"} /\ (reader' = "emitting" => out' \in StreamEvents)
    BY <1>1, <1>2, <2>2
  <2> QED
    BY <1>1, <1>3, <2>1, <2>3 DEF StreamInv, StreamType
<1>6. finishSeen \/ c.type = "finish" =>
        /\ Finished' /\ calls' = sent'.calls /\ text' = sent'.text
        /\ \A k \in 1..(Len(wire) - 1) : ~Speaks(wire'[k])
  <2>1. CASE finishSeen
    <3>1. ~Speaks(c) /\ c.type # "call" /\ c.type # "text"
      BY <1>3, <2>1 DEF StreamInv, Settled, Speaks
    <3>2. ASSUME NEW k \in 1..(Len(wire) - 1) PROVE ~Speaks(wire'[k])
      <4>1. k + 1 \in 1..Len(wire) /\ wire'[k] = wire[k + 1]
        BY <1>3
      <4> QED
        BY <2>1, <4>1 DEF StreamInv, Settled
    <3> QED
      BY <1>1, <2>1, <3>1, <3>2 DEF StreamInv, Settled, Finished
  <2>2. CASE c.type = "finish"
    <3>1. PICK h \in Seq(Replies) : Leads(h)
      BY DEF StreamInv, Whole
    <3>2. /\ Finished /\ h[1] = sent /\ h[1].calls = calls /\ h[1].text = text
          /\ \A k \in 2..Len(wire) : ~Speaks(wire[k])
      BY <1>3, <2>2, <3>1 DEF Leads
    <3>3. ASSUME NEW k \in 1..(Len(wire) - 1) PROVE ~Speaks(wire'[k])
      <4>1. k + 1 \in 2..Len(wire) /\ wire'[k] = wire[k + 1]
        BY <1>3
      <4> QED
        BY <3>2, <4>1
    <3> QED
      BY <1>1, <2>2, <3>2, <3>3 DEF Finished
  <2> QED
    BY <2>1, <2>2
<1>7. Settled'
  BY <1>1, <1>3, <1>6 DEF Settled
<1>8. Whole'
  <2>1. PICK h \in Seq(Replies) : Leads(h)
    BY DEF StreamInv, Whole
  <2>2. h[1] = [calls |-> calls, text |-> text]
    <3>1. h[1] \in Replies
      BY <1>3, <2>1 DEF Leads
    <3> QED
      BY <2>1, <3>1 DEF Leads, Replies
  <2>3. h[2] = [calls |-> calls', text |-> text']
    BY <1>3, <1>4, <2>1, <2>2 DEF Leads
  <2>4. h # <<>> /\ Len(h) = Len(wire) + 1
    BY <1>3, <2>1 DEF Leads
  <2>5. /\ Tail(h) \in Seq(Replies) /\ Len(Tail(h)) = Len(wire)
        /\ \A j \in 1..Len(wire) : Tail(h)[j] = h[j + 1]
    BY <1>3, <2>4
  <2>6. PICK t \in Seq(Replies) : Len(t) = Len(wire) /\ \A j \in 1..Len(wire) : t[j] = h[j + 1]
    BY <2>5
  <2>7. ASSUME NEW j \in 1..(Len(wire) - 1)
        PROVE  /\ t[j + 1] = Taken(t[j], wire'[j])
               /\ wire'[j].type = "finish" =>
                    /\ Finished' /\ t[j] = sent'
                    /\ \A k \in (j + 1)..(Len(wire) - 1) : ~Speaks(wire'[k])
    <3>1. /\ j + 1 \in 1..Len(wire) /\ j \in 1..Len(wire) /\ wire'[j] = wire[j + 1]
          /\ t[j] = h[j + 1] /\ t[j + 1] = h[(j + 1) + 1]
      <4>1. j + 1 \in 1..Len(wire) /\ j \in 1..Len(wire)
        BY <1>3
      <4>2. wire'[j] = wire[j + 1]
        BY <1>3
      <4> QED
        BY <2>6, <4>1, <4>2
    <3>2. /\ h[(j + 1) + 1] = Taken(h[j + 1], wire[j + 1])
          /\ wire[j + 1].type = "finish" =>
               /\ Finished /\ h[j + 1] = sent
               /\ \A k \in ((j + 1) + 1)..Len(wire) : ~Speaks(wire[k])
      BY <2>1, <3>1 DEF Leads
    <3>3. ASSUME wire[j + 1].type = "finish", NEW k \in (j + 1)..(Len(wire) - 1)
          PROVE  ~Speaks(wire'[k])
      <4>1. \A n \in Nat : \A i \in 1..(n - 1) : \A l \in (i + 1)..(n - 1) :
               l + 1 \in ((i + 1) + 1)..n /\ l \in 1..(n - 1)
        OBVIOUS
      <4>2. k + 1 \in ((j + 1) + 1)..Len(wire) /\ k \in 1..(Len(wire) - 1)
        BY <1>3, <4>1
      <4>3. wire'[k] = wire[k + 1]
        BY <1>3, <4>2
      <4> QED
        BY <3>2, <3>3, <4>2, <4>3
    <3>4. Finished' = Finished /\ sent' = sent
      BY <1>1 DEF Finished
    <3> QED
      BY <3>1, <3>2, <3>3, <3>4
  <2>8. t[1].calls = calls' /\ t[1].text = text' /\ t[Len(wire)] = sent'
    BY <1>1, <1>3, <2>1, <2>3, <2>6 DEF Leads
  <2>9. Leads(t)'
    BY <1>3, <2>6, <2>7, <2>8 DEF Leads
  <2> QED
    BY <2>9 DEF Whole
<1>9. ShownText'
  <2>1. PICK g \in Seq(Nat) : Shows(g)
    BY DEF StreamInv, ShownText
  <2>2. Shows(g)'
    BY <1>1, <1>2, <2>1 DEF Shows
  <2> QED
    BY <2>2 DEF ShownText
<1>10. Received'
  <2>1. got = NoReply /\ result # "message"
    BY <1>1 DEF StreamInv, Received
  <2>2. ASSUME reader' = "emitting", out'.type = "finish"
        PROVE  finishSeen' /\ out'.value = sent'
    <3>1. c.type # "finish"
      BY <1>1, <1>2, <2>2
    <3>2. finishSeen /\ out'.value = [calls |-> calls, text |-> text]
      BY <1>2, <2>2, <3>1
    <3>3. sent = [calls |-> calls, text |-> text]
      BY <3>2 DEF StreamInv, Settled, StreamType, Replies
    <3> QED
      BY <1>1, <3>2, <3>3
  <2> QED
    BY <1>1, <2>1, <2>2 DEF Received
<1> QED
  BY <1>5, <1>7, <1>8, <1>9, <1>10 DEF StreamInv

\* The reader reaches the end of a closed body: the message, if it is complete.
LEMMA StreamReadClosed ==
    ASSUME NEW Style, StreamInv, Stream(Style)!ReadClosed
    PROVE  StreamInv'
<1>1. /\ reader = "reading" /\ reader' = "emitting"
      /\ UNCHANGED <<sent, server, wire, calls, text, finishSeen, chan, shown, got, result>>
      /\ out' = IF finishSeen THEN [type |-> "finish", value |-> [calls |-> calls, text |-> text]]
                ELSE [type |-> "error", value |-> NoReply]
  BY DEF Stream!ReadClosed, Stream!EndOfStream, Stream!Emit, Stream!Assembled, Stream!NoMessage, NoReply,
     Stream!consuming
<1>2. [calls |-> calls, text |-> text] \in Replies /\ sent \in Replies
  BY DEF StreamInv, StreamType, Replies
<1>3. finishSeen => sent = [calls |-> calls, text |-> text]
  BY <1>2 DEF StreamInv, Settled, Replies
<1>4. /\ out' \in StreamEvents /\ out'.type \in {"finish", "error"}
      /\ out'.type = "finish" => finishSeen /\ out'.value = sent
  BY <1>1, <1>2, <1>3 DEF StreamEvents
<1>5. StreamType'
  BY <1>1, <1>4 DEF StreamInv, StreamType
<1>6. Whole' /\ Settled'
  BY <1>1 DEF StreamInv, Whole, Leads, Settled, Finished
<1>7. ShownText'
  <2>1. PICK g \in Seq(Nat) : Shows(g)
    BY DEF StreamInv, ShownText
  <2>2. Shows(g)'
    BY <1>1, <1>4, <2>1 DEF Shows
  <2> QED
    BY <2>2 DEF ShownText
<1>8. Received'
  BY <1>1, <1>4 DEF StreamInv, Received
<1> QED
  BY <1>5, <1>6, <1>7, <1>8 DEF StreamInv

LEMMA StreamEmit ==
    ASSUME NEW Style, StreamInv, Stream(Style)!EmitEvent
    PROVE  StreamInv'
<1>1. /\ reader = "emitting"
      /\ UNCHANGED <<sent, server, wire, calls, text, finishSeen, out, shown, got, result>>
      /\ \/ /\ chan' = Append(chan, out)
            /\ reader' = IF out.type \in {"finish", "error"} THEN "ended" ELSE "reading"
         \/ reader' = "ended" /\ chan' = chan
  BY DEF Stream!EmitEvent, Stream!AfterEmit, Stream!consuming
<1>2. out \in StreamEvents /\ out.type \in {"text", "call", "error", "finish"}
  BY <1>1 DEF StreamInv, StreamType, StreamEvents
<1>3. Whole' /\ Settled'
  BY <1>1 DEF StreamInv, Whole, Leads, Settled, Finished
<1>4. got = NoReply /\ result # "message"
  BY <1>1 DEF StreamInv, Received
<1>5. Received'
  BY <1>1, <1>4 DEF Received
<1>6. PICK g \in Seq(Nat) : Shows(g)
  BY DEF StreamInv, ShownText
<1>7. Len(chan) \in Nat /\ chan \in Seq(StreamEvents) /\ Len(g) = Len(chan) + 1
      /\ Len(chan) + 1 \in 1..Len(g)
  BY <1>6 DEF StreamInv, StreamType, Shows
<1>8. CASE chan' = chan /\ reader' = "ended"
  <2>1. StreamType'
    BY <1>1, <1>8 DEF StreamInv, StreamType
  <2>2. Shows(g)'
    BY <1>1, <1>6, <1>8 DEF Shows
  <2>3. ShownText'
    BY <2>2 DEF ShownText
  <2> QED
    BY <1>3, <1>5, <2>1, <2>3 DEF StreamInv
<1>9. CASE /\ chan' = Append(chan, out)
           /\ reader' = IF out.type \in {"finish", "error"} THEN "ended" ELSE "reading"
  <2>1. StreamType'
    BY <1>1, <1>2, <1>9 DEF StreamInv, StreamType
  <2>2. /\ Len(chan') = Len(chan) + 1 /\ chan'[Len(chan) + 1] = out
        /\ \A j \in 1..Len(chan) : chan'[j] = chan[j]
    BY <1>2, <1>7, <1>9
  <2>3. text \in Nat
    BY DEF StreamInv, StreamType
  <2>4. /\ Append(g, text) \in Seq(Nat) /\ Len(Append(g, text)) = Len(chan) + 2
        /\ Append(g, text)[Len(chan) + 2] = text
        /\ \A j \in 1..(Len(chan) + 1) : Append(g, text)[j] = g[j]
    BY <1>7, <2>3
  <2>5. PICK gg \in Seq(Nat) : /\ Len(gg) = Len(chan) + 2 /\ gg[Len(chan) + 2] = text
                               /\ \A j \in 1..(Len(chan) + 1) : gg[j] = g[j]
    BY <2>4
  <2>6. ASSUME NEW j \in 1..(Len(chan) + 1)
        PROVE  /\ gg[j + 1] = IF chan'[j].type = "text" THEN gg[j] + 1 ELSE gg[j]
               /\ chan'[j].type = "finish" =>
                    /\ j = Len(chan) + 1 /\ reader' = "ended" /\ finishSeen'
                    /\ chan'[j].value = sent' /\ gg[j] = sent'.text
    <3>1. CASE j = Len(chan) + 1
      <4>1. /\ text = IF out.type = "text" THEN g[Len(chan) + 1] + 1 ELSE g[Len(chan) + 1]
            /\ gg[j] = g[Len(chan) + 1] /\ gg[j + 1] = text /\ chan'[j] = out
        BY <1>1, <1>6, <1>7, <2>2, <2>5, <3>1 DEF Shows
      <4>2. out.type = "finish" => finishSeen /\ out.value = sent /\ text = sent.text
        BY <1>1 DEF StreamInv, Received, Settled
      <4> QED
        BY <1>1, <1>9, <3>1, <4>1, <4>2
    <3>2. CASE j # Len(chan) + 1
      <4>1. /\ j \in 1..Len(chan) /\ j + 1 \in 1..(Len(chan) + 1) /\ chan'[j] = chan[j]
            /\ gg[j] = g[j] /\ gg[j + 1] = g[j + 1]
        BY <1>7, <2>2, <2>5, <3>2
      <4>2. /\ g[j + 1] = IF chan[j].type = "text" THEN g[j] + 1 ELSE g[j]
            /\ chan[j].type # "finish"
        BY <1>1, <1>6, <4>1 DEF Shows
      <4> QED
        BY <4>1, <4>2
    <3> QED
      BY <3>1, <3>2
  <2>7. gg[1] = shown'
    BY <1>1, <1>6, <1>7, <2>5 DEF Shows
  <2>8. reader' # "emitting" /\ text' = text
    BY <1>1, <1>9
  <2>9. Shows(gg)'
    BY <1>7, <2>2, <2>5, <2>6, <2>7, <2>8 DEF Shows
  <2>10. ShownText'
    BY <2>9 DEF ShownText
  <2> QED
    BY <1>3, <1>5, <2>1, <2>10 DEF StreamInv
<1> QED
  BY <1>1, <1>8, <1>9

LEMMA StreamConsume ==
    ASSUME NEW Style, StreamInv, Stream(Style)!Consume
    PROVE  StreamInv'
<1> DEFINE ev == Head(chan)
<1>1. /\ result = "none" /\ chan # <<>> /\ chan' = Tail(chan)
      /\ shown' = (IF ev.type = "text" THEN shown + 1 ELSE shown)
      /\ got' = (IF ev.type = "finish" THEN ev.value ELSE got)
      /\ result' \in {"error", "none"}
      /\ UNCHANGED <<sent, server, wire, calls, text, finishSeen, reader, out>>
  BY DEF Stream!Consume
<1>2. /\ Len(chan') = Len(chan) - 1 /\ chan' \in Seq(StreamEvents) /\ Len(chan) \in Nat \ {0}
      /\ \A j \in 1..(Len(chan) - 1) : chan'[j] = chan[j + 1]
  BY <1>1 DEF StreamInv, StreamType
<1>3. ev = chan[1] /\ 1 \in 1..Len(chan)
  BY <1>1 DEF StreamInv, StreamType
<1>4. Whole' /\ Settled'
  BY <1>1 DEF StreamInv, Whole, Leads, Settled, Finished
<1>5. StreamType'
  BY <1>1, <1>2 DEF StreamInv, StreamType
<1>6. PICK g \in Seq(Nat) : Shows(g)
  BY DEF StreamInv, ShownText
<1>7. g[1] = shown /\ Len(g) = Len(chan) + 1
  BY <1>6 DEF Shows
<1>8. /\ g[1 + 1] = IF chan[1].type = "text" THEN g[1] + 1 ELSE g[1]
      /\ chan[1].type = "finish" =>
           /\ Len(chan) = 1 /\ reader = "ended" /\ finishSeen
           /\ chan[1].value = sent /\ shown = sent.text
  BY <1>6, <1>3, <1>7 DEF Shows
<1>9. /\ g[2] = shown'
      /\ ev.type = "finish" =>
           /\ Len(chan) = 1 /\ reader = "ended" /\ finishSeen
           /\ ev.value = sent /\ shown = sent.text
  BY <1>1, <1>3, <1>7, <1>8
<1> HIDE DEF ev
<1>10. Received'
  <2>1. got = NoReply
    BY <1>1 DEF StreamInv, Received
  <2>2. ev.type = "finish" => chan' = <<>>
    <3>1. ev.type = "finish" => Len(chan) = 1
      BY <1>9
    <3>2. Len(chan) = 1 => chan' = <<>>
      BY <1>2
    <3> QED
      BY <3>1, <3>2
  <2> QED
    BY <1>1, <1>9, <2>1, <2>2 DEF StreamInv, Received
<1>11. ShownText'
  <2>1. /\ Tail(g) \in Seq(Nat) /\ Len(Tail(g)) = Len(chan)
        /\ \A j \in 1..Len(chan) : Tail(g)[j] = g[j + 1]
    BY <1>2, <1>7
  <2>2. PICK t \in Seq(Nat) : Len(t) = Len(chan) /\ \A j \in 1..Len(chan) : t[j] = g[j + 1]
    BY <2>1
  <2>3. ASSUME NEW j \in 1..(Len(chan) - 1)
        PROVE  /\ t[j + 1] = IF chan'[j].type = "text" THEN t[j] + 1 ELSE t[j]
               /\ chan'[j].type = "finish" =>
                    /\ j = Len(chan) - 1 /\ reader' = "ended" /\ finishSeen'
                    /\ chan'[j].value = sent' /\ t[j] = sent'.text
    <3>1. j + 1 \in 1..Len(chan) /\ j \in 1..Len(chan)
      BY <1>2
    <3>2. /\ chan'[j] = chan[j + 1]
          /\ t[j] = g[j + 1] /\ t[j + 1] = g[(j + 1) + 1]
      BY <1>2, <2>2, <3>1
    <3>3. /\ g[(j + 1) + 1] = IF chan[j + 1].type = "text" THEN g[j + 1] + 1 ELSE g[j + 1]
          /\ chan[j + 1].type = "finish" =>
               /\ j + 1 = Len(chan) /\ reader = "ended" /\ finishSeen
               /\ chan[j + 1].value = sent /\ g[j + 1] = sent.text
      BY <1>6, <3>1 DEF Shows
    <3> QED
      BY <1>1, <3>2, <3>3, <3>1
  <2>4. t[1] = shown' /\ t[Len(chan)] = g[Len(chan) + 1]
    <3>1. 1 \in 1..Len(chan) /\ Len(chan) \in 1..Len(chan) /\ 1 + 1 = 2
      BY <1>2
    <3>2. t[1] = g[1 + 1] /\ t[Len(chan)] = g[Len(chan) + 1]
      BY <2>2, <3>1
    <3>3. g[2] = shown'
      BY <1>9
    <3> QED
      BY <3>1, <3>2, <3>3
  <2>5. reader' = reader /\ text' = text /\ out' = out
    BY <1>1
  <2>6. Len(chan') = Len(chan) - 1 /\ Len(chan) \in Nat \ {0}
    BY <1>2
  <2>7. /\ reader = "reading" => g[Len(chan) + 1] = text
        /\ reader = "emitting" =>
             text = IF out.type = "text" THEN g[Len(chan) + 1] + 1 ELSE g[Len(chan) + 1]
    BY <1>6 DEF Shows
  <2>8. Shows(t)'
    BY <2>2, <2>3, <2>4, <2>5, <2>6, <2>7 DEF Shows
  <2> QED
    BY <2>8 DEF ShownText
<1> QED
  BY <1>4, <1>5, <1>10, <1>11 DEF StreamInv

\* The steps that move no chunk and no event.
LEMMA StreamQuiet ==
    ASSUME StreamInv,
           UNCHANGED <<sent, server, wire, calls, text, finishSeen, reader, out, chan, shown, got>>,
           result' = "message" => got # NoReply
    PROVE  StreamInv'
<1>1. StreamType' /\ Whole' /\ Settled'
  BY DEF StreamInv, StreamType, Whole, Leads, Settled, Finished
<1>2. ShownText'
  BY DEF StreamInv, ShownText, Shows
<1>3. Received'
  BY DEF StreamInv, Received
<1> QED
  BY <1>1, <1>2, <1>3 DEF StreamInv

LEMMA StreamSends ==
    ASSUME NEW Style \in {"indexed", "no_index"}, StreamInv,
           \/ Stream(Style)!SendText \/ \E arg \in BOOLEAN : Stream(Style)!SendHeader(arg)
           \/ \E i \in 1..StreamCalls : Stream(Style)!SendArgs(i)
           \/ Stream(Style)!SendFinish
           \/ \E how \in {"done", "reset", "oversize"} : Stream(Style)!Hangup(how)
    PROVE  StreamInv'
<1>1. sent.calls \in Seq(Nat) /\ sent.text \in Nat /\ sent = [calls |-> sent.calls, text |-> sent.text]
  BY DEF StreamInv, StreamType, Replies
<1>2. ASSUME NEW c \in Chunks, wire' = Append(wire, c), Speaks(c) => server = "open",
             server' = IF c.type = "finish" THEN "finished" ELSE IF Speaks(c) THEN "open"
                       ELSE IF server = "open" THEN "broken" ELSE "closed",
             sent' = Taken(sent, c),
             UNCHANGED <<calls, text, finishSeen, reader, out, chan, shown, got, result>>
      PROVE  StreamInv'
  BY <1>2, StreamGrows
<1>3. CASE Stream(Style)!SendText
  <2> DEFINE c == [type |-> "text"]
  <2>1. /\ server = "open" /\ server' = server /\ wire' = Append(wire, c)
        /\ sent' = [sent EXCEPT !.text = @ + 1]
        /\ UNCHANGED <<calls, text, finishSeen, reader, out, chan, shown, got, result>>
    BY <1>3 DEF Stream!SendText, Stream!Send, Stream!reading, Stream!consuming
  <2>2. c \in Chunks /\ Speaks(c) /\ c.type = "text"
    BY DEF Chunks, Speaks
  <2>3. sent' = Taken(sent, c)
    BY <1>1, <2>1, <2>2 DEF Taken
  <2> HIDE DEF c
  <2> QED
    BY <1>2, <2>1, <2>2, <2>3
<1>4. ASSUME NEW arg \in BOOLEAN, Stream(Style)!SendHeader(arg) PROVE StreamInv'
  <2> DEFINE c == [type |-> "call", header |-> TRUE, arg |-> arg,
                   index |-> IF Style = "no_index" THEN 0 ELSE Len(sent.calls) + 1]
  <2>1. /\ server = "open" /\ server' = server /\ wire' = Append(wire, c)
        /\ sent' = [sent EXCEPT !.calls = Append(@, IF arg THEN 1 ELSE 0)]
        /\ UNCHANGED <<calls, text, finishSeen, reader, out, chan, shown, got, result>>
    BY <1>4 DEF Stream!SendHeader, Stream!Send, Stream!Fragment, Stream!reading, Stream!consuming
  <2>2. c \in Chunks /\ Speaks(c) /\ c.type = "call"
    BY <1>1 DEF Chunks, Speaks
  <2>3. Fitted(sent.calls, c) = Append(sent.calls, IF arg THEN 1 ELSE 0)
    BY <1>1 DEF Fitted
  <2>4. sent' = Taken(sent, c)
    BY <1>1, <2>1, <2>2, <2>3 DEF Taken
  <2> HIDE DEF c
  <2> QED
    BY <1>2, <2>1, <2>2, <2>4
<1>5. ASSUME NEW i \in 1..StreamCalls, Stream(Style)!SendArgs(i) PROVE StreamInv'
  <2> DEFINE c == [type |-> "call", header |-> FALSE, arg |-> TRUE,
                   index |-> IF Style = "no_index" THEN 0 ELSE i]
  <2>1. /\ server = "open" /\ server' = server /\ wire' = Append(wire, c)
        /\ i \in 1..Len(sent.calls) /\ (Style = "no_index" => i = Len(sent.calls))
        /\ sent' = [sent EXCEPT !.calls[i] = @ + 1]
        /\ UNCHANGED <<calls, text, finishSeen, reader, out, chan, shown, got, result>>
    BY <1>5 DEF Stream!SendArgs, Stream!Send, Stream!Fragment, Stream!reading, Stream!consuming
  <2>2. c \in Chunks /\ Speaks(c) /\ c.type = "call"
    BY <1>1, <2>1 DEF Chunks, Speaks
  <2>3. Fitted(sent.calls, c) = [sent.calls EXCEPT ![i] = @ + 1]
    <3>1. i \in DOMAIN sent.calls /\ i # 0
      BY <1>1, <2>1
    <3>2. Style = "no_index" => i = Len(sent.calls)
      BY <2>1
    <3> QED
      BY <3>1, <3>2 DEF Fitted
  <2>4. sent' = Taken(sent, c)
    BY <1>1, <2>1, <2>2, <2>3 DEF Taken
  <2> HIDE DEF c
  <2> QED
    BY <1>2, <2>1, <2>2, <2>4
<1>6. CASE Stream(Style)!SendFinish
  <2> DEFINE c == [type |-> "finish"]
  <2>1. /\ server = "open" /\ server' = "finished" /\ wire' = Append(wire, c) /\ sent' = sent
        /\ UNCHANGED <<calls, text, finishSeen, reader, out, chan, shown, got, result>>
    BY <1>6 DEF Stream!SendFinish, Stream!Send, Stream!reading, Stream!consuming
  <2>2. c \in Chunks /\ Speaks(c) /\ c.type = "finish"
    BY DEF Chunks, Speaks
  <2>3. sent' = Taken(sent, c)
    BY <1>1, <2>1, <2>2 DEF Taken
  <2> HIDE DEF c
  <2> QED
    BY <1>2, <2>1, <2>2, <2>3
<1>7. ASSUME NEW how \in {"done", "reset", "oversize"}, Stream(Style)!Hangup(how) PROVE StreamInv'
  <2> DEFINE c == [type |-> how]
  <2>1. /\ server' = (IF server = "open" THEN "broken" ELSE "closed") /\ wire' = Append(wire, c)
        /\ sent' = sent
        /\ UNCHANGED <<calls, text, finishSeen, reader, out, chan, shown, got, result>>
    BY <1>7 DEF Stream!Hangup, Stream!reading, Stream!consuming
  <2>2. c \in Chunks /\ ~Speaks(c) /\ c.type \notin {"text", "call", "finish"}
    BY DEF Chunks, Speaks
  <2>3. sent' = Taken(sent, c)
    BY <1>1, <2>1, <2>2 DEF Taken
  <2> HIDE DEF c
  <2> QED
    BY <1>2, <2>1, <2>2, <2>3
<1> QED
  BY <1>3, <1>4, <1>5, <1>6, <1>7

\* A new stream.
LEMMA StreamInit ==
    ASSUME NEW Style \in {"indexed", "no_index"}
    PROVE  Stream(Style)!Init => StreamInv
<1> SUFFICES ASSUME Stream(Style)!Init PROVE StreamInv
  OBVIOUS
<1>1. StreamType
  <2>1. sent \in Replies
    BY DEF Stream!Init, Replies
  <2>2. /\ server = "open" /\ wire = <<>> /\ calls = <<>> /\ text = 0 /\ finishSeen = FALSE
        /\ reader = "reading" /\ chan = <<>> /\ shown = 0
    BY DEF Stream!Init
  <2>3. wire \in Seq(Chunks) /\ calls \in Seq(Nat) /\ chan \in Seq(StreamEvents)
    BY <2>2
  <2> QED
    BY <2>1, <2>2, <2>3 DEF StreamType
<1>2. Settled /\ Received
  BY DEF Stream!Init, Stream!NoMessage, NoReply, Settled, Received
<1>3. Whole
  <2>1. Leads(<<sent>>)
    BY DEF Stream!Init, Leads, Replies
  <2>2. <<sent>> \in Seq(Replies)
    BY <1>1 DEF StreamType
  <2> QED
    BY <2>1, <2>2 DEF Whole
<1>4. ShownText
  <2>1. Shows(<<0>>)
    BY DEF Stream!Init, Shows
  <2>2. <<0>> \in Seq(Nat)
    OBVIOUS
  <2> QED
    BY <2>1, <2>2 DEF ShownText
<1> QED
  BY <1>1, <1>2, <1>3, <1>4 DEF StreamInv

\* Every step of either side, of the watchdog and of the context.
LEMMA StreamSteps ==
    ASSUME NEW Style \in {"indexed", "no_index"}
    PROVE  StreamInv /\ [Stream(Style)!Next]_(Stream(Style)!vars) => StreamInv'
<1> SUFFICES ASSUME StreamInv, [Stream(Style)!Next]_(Stream(Style)!vars) PROVE StreamInv'
  OBVIOUS
<1>1. CASE \/ Stream(Style)!SendText \/ \E arg \in BOOLEAN : Stream(Style)!SendHeader(arg)
           \/ \E i \in 1..StreamCalls : Stream(Style)!SendArgs(i)
           \/ Stream(Style)!SendFinish
           \/ \E how \in {"done", "reset", "oversize"} : Stream(Style)!Hangup(how)
  BY <1>1, StreamSends
<1>2. CASE Stream(Style)!ReadChunk BY <1>2, StreamRead
<1>3. CASE Stream(Style)!ReadClosed BY <1>3, StreamReadClosed
<1>4. CASE Stream(Style)!EmitEvent BY <1>4, StreamEmit
<1>5. CASE Stream(Style)!Consume BY <1>5, StreamConsume
<1>6. CASE \/ Stream(Style)!Watchdog \/ Stream(Style)!ConsumeEnd \/ Stream(Style)!EndContext
           \/ Stream(Style)!Done \/ UNCHANGED Stream(Style)!vars
  <2>1. UNCHANGED <<sent, server, wire, calls, text, finishSeen, reader, out, chan, shown, got>>
    BY <1>6 DEF Stream!Watchdog, Stream!ConsumeEnd, Stream!EndContext, Stream!Done, Stream!vars,
       Stream!reading, Stream!consuming
  <2>2. result' = "message" => got # NoReply
    BY <1>6 DEF Stream!Watchdog, Stream!ConsumeEnd, Stream!EndContext, Stream!Done, Stream!vars,
       Stream!reading, Stream!consuming, Stream!NoMessage, NoReply, StreamInv, Received
  <2> QED
    BY <2>1, <2>2, StreamQuiet
<1> QED
  BY <1>1, <1>2, <1>3, <1>4, <1>5, <1>6 DEF Stream!Next

\* A message that came is whole.
LEMMA StreamMeans ==
    ASSUME NEW Style \in {"indexed", "no_index"}
    PROVE  StreamInv => Stream(Style)!MessageComplete /\ Stream(Style)!ShownIsKept
BY DEF StreamInv, Received, Settled, Finished, Stream!MessageComplete, Stream!ShownIsKept

\* The message a turn goes on with is the whole of what a provider that finished
\* it sent, and what the client saw of it, for every number of calls, fragments
\* and slots, with indexed fragments and without.
THEOREM MessageIsWhole ==
    ASSUME NEW Style \in {"indexed", "no_index"}
    PROVE  Stream(Style)!Spec => [](Stream(Style)!MessageComplete /\ Stream(Style)!ShownIsKept)
<1> QED
  BY StreamInit, StreamSteps, StreamMeans, PTL DEF Stream!Spec

-----------------------------------------------------------------------------
(* Chat completions. *)

Texts == Seq(Nat \X Nat)
Ends == {"completed", "max_turns", "error", "cancelled"}
ChatEvents ==
    [turn : Nat, type : {"message.delta"}, v : Nat \X Nat]
    \cup [turn : Nat, type : {"message.done"},
          v : [text : Texts, finish : {"stop", "length", "tool_calls"}]]
    \cup [turn : Nat, type : {"error"}, v : {0}]
    \cup [turn : Nat, type : {"turn.end"}, v : Ends]
Outs == [content : Texts, finish : {"stop", "length"}, error : BOOLEAN]
Works == [round : Nat, text : Texts, all : Texts, finish : {"stop", "length"},
          reason : Ends \cup {"none"}]

\* What an event does to the result of a client whose turn is n.
Takes(c, n, o, e) ==
    IF e.turn # n THEN o
    ELSE IF c \in Streamers THEN Chat({}, FALSE, 1, 1, 1)!Streamed(o, e)
    ELSE Chat({}, FALSE, 1, 1, 1)!Buffered(o, e)

\* A result is what a turn that says w so far asks for, and what one that has
\* ended does.
Ready(c, o, w) ==
    /\ c \in Streamers => o.content = w.all
    /\ w.reason = "none" => o.finish = "stop" /\ ~o.error
    /\ w.reason = "completed" =>
         (c \notin Streamers => o.content = w.text) /\ o.finish = w.finish /\ ~o.error
    /\ w.reason \in {"max_turns", "error", "cancelled"} =>
         o.finish = "stop" /\ (o.error <=> w.reason = "error")
Replied(c, o, w) ==
    /\ c \in Streamers => o.content = w.all
    /\ c \notin Streamers => (w.reason = "completed" => o.content = w.text)
                             /\ (o.error <=> w.reason = "error")
    /\ o.finish = IF w.reason = "completed" THEN w.finish
                  ELSE IF w.reason = "max_turns" THEN "length" ELSE "stop"

LEMMA TakesIsOut ==
    ASSUME NEW c, NEW n, NEW o \in Outs, NEW e \in ChatEvents
    PROVE  Takes(c, n, o, e) \in Outs
<1>1. o.content \in Texts /\ o.finish \in {"stop", "length"} /\ o.error \in BOOLEAN
  BY DEF Outs
<1>2. CASE e.type = "message.delta"
  <2>1. e.v \in Nat \X Nat
    BY <1>2 DEF ChatEvents
  <2>2. Append(o.content, e.v) \in Texts
    BY <1>1, <2>1 DEF Texts
  <2>3. [o EXCEPT !.content = Append(o.content, e.v)] \in Outs
    BY <1>1, <2>2 DEF Outs
  <2> QED
    BY <1>2, <2>3 DEF Takes, Chat!Streamed, Chat!Buffered
<1>3. CASE e.type = "message.done"
  <2>1. e.v.text \in Texts /\ e.v.finish \in {"stop", "length", "tool_calls"}
    BY <1>3 DEF ChatEvents
  <2>2. <<>> \in Texts
    BY DEF Texts
  <2>3. /\ [o EXCEPT !.content = <<>>] \in Outs
        /\ e.v.finish # "tool_calls" =>
             /\ [o EXCEPT !.content = e.v.text, !.finish = e.v.finish] \in Outs
             /\ [o EXCEPT !.finish = e.v.finish] \in Outs
    BY <1>1, <2>1, <2>2 DEF Outs
  <2> QED
    BY <1>3, <2>3 DEF Takes, Chat!Streamed, Chat!Buffered
<1>4. CASE e.type = "error"
  <2>1. [o EXCEPT !.error = TRUE] \in Outs
    BY DEF Outs
  <2> QED
    BY <1>4, <2>1 DEF Takes, Chat!Streamed, Chat!Buffered
<1>5. CASE e.type = "turn.end"
  <2>1. e.v \in Ends
    BY <1>5 DEF ChatEvents
  <2>2. \A f \in {"stop", "length"}, b \in BOOLEAN :
          [o EXCEPT !.finish = f, !.error = b] \in Outs /\ [o EXCEPT !.finish = f] \in Outs
    BY <1>1 DEF Outs
  <2>3. Chat({}, FALSE, 1, 1, 1)!openAIFinishReason(e.v) \in {"stop", "length"}
        /\ (o.error \/ e.v = "error") \in BOOLEAN
    BY DEF Chat!openAIFinishReason
  <2> QED
    BY <1>5, <2>2, <2>3 DEF Takes, Chat!Streamed, Chat!Buffered
<1> QED
  BY <1>2, <1>3, <1>4, <1>5 DEF ChatEvents

\* One lemma for each kind of event.
LEMMA TakesDelta ==
    ASSUME NEW c, NEW n, NEW o \in Outs, NEW w \in Works, NEW p, NEW ww \in Works,
           Ready(c, o, w), w.reason = "none", ww.reason = "none", ww.all = Append(w.all, p)
    PROVE  Ready(c, Takes(c, n, o, [turn |-> n, type |-> "message.delta", v |-> p]), ww)
<1> DEFINE e == [turn |-> n, type |-> "message.delta", v |-> p]
<1>1. Takes(c, n, o, e) = [o EXCEPT !.content = Append(o.content, p)]
  BY DEF Takes, Chat!Streamed, Chat!Buffered
<1>2. /\ [o EXCEPT !.content = Append(o.content, p)].content = Append(o.content, p)
      /\ [o EXCEPT !.content = Append(o.content, p)].finish = o.finish
      /\ [o EXCEPT !.content = Append(o.content, p)].error = o.error
  BY DEF Outs
<1> QED
  BY <1>1, <1>2 DEF Ready

LEMMA TakesNote ==
    ASSUME NEW c, NEW n, NEW o \in Outs, NEW w \in Works, NEW t, NEW ww \in Works,
           Ready(c, o, w), w.reason = "none", ww.reason = "none", ww.all = w.all
    PROVE  Ready(c, Takes(c, n, o, [turn |-> n, type |-> "message.done",
                                    v |-> [text |-> t, finish |-> "tool_calls"]]), ww)
<1> DEFINE e == [turn |-> n, type |-> "message.done", v |-> [text |-> t, finish |-> "tool_calls"]]
<1>1. Takes(c, n, o, e) = IF c \in Streamers THEN o ELSE [o EXCEPT !.content = <<>>]
  BY DEF Takes, Chat!Streamed, Chat!Buffered
<1>2. /\ [o EXCEPT !.content = <<>>].finish = o.finish
      /\ [o EXCEPT !.content = <<>>].error = o.error
  BY DEF Outs
<1> QED
  BY <1>1, <1>2 DEF Ready

LEMMA TakesAnswer ==
    ASSUME NEW c, NEW n, NEW o \in Outs, NEW w \in Works, NEW f \in {"stop", "length"},
           NEW ww \in Works, Ready(c, o, w), w.reason = "none",
           ww.reason = "completed", ww.finish = f, ww.all = w.all, ww.text = w.text
    PROVE  Ready(c, Takes(c, n, o, [turn |-> n, type |-> "message.done",
                                    v |-> [text |-> w.text, finish |-> f]]), ww)
<1> DEFINE e == [turn |-> n, type |-> "message.done", v |-> [text |-> w.text, finish |-> f]]
<1>1. Takes(c, n, o, e) = IF c \in Streamers THEN [o EXCEPT !.finish = f]
                          ELSE [o EXCEPT !.content = w.text, !.finish = f]
  BY DEF Takes, Chat!Streamed, Chat!Buffered
<1>2. /\ [o EXCEPT !.finish = f].finish = f /\ [o EXCEPT !.finish = f].error = o.error
      /\ [o EXCEPT !.finish = f].content = o.content
      /\ [o EXCEPT !.content = w.text, !.finish = f].finish = f
      /\ [o EXCEPT !.content = w.text, !.finish = f].error = o.error
      /\ [o EXCEPT !.content = w.text, !.finish = f].content = w.text
  BY DEF Outs
<1> QED
  BY <1>1, <1>2 DEF Ready

LEMMA TakesError ==
    ASSUME NEW c, NEW n, NEW o \in Outs, NEW w \in Works, NEW ww \in Works,
           Ready(c, o, w), w.reason = "none", ww.reason = "error", ww.all = w.all
    PROVE  Ready(c, Takes(c, n, o, [turn |-> n, type |-> "error", v |-> 0]), ww)
<1>1. Takes(c, n, o, [turn |-> n, type |-> "error", v |-> 0]) = [o EXCEPT !.error = TRUE]
  BY DEF Takes, Chat!Streamed, Chat!Buffered
<1>2. /\ [o EXCEPT !.error = TRUE].content = o.content
      /\ [o EXCEPT !.error = TRUE].finish = o.finish
      /\ [o EXCEPT !.error = TRUE].error = TRUE
  BY DEF Outs
<1> QED
  BY <1>1, <1>2 DEF Ready

LEMMA TakesEnd ==
    ASSUME NEW c, NEW n, NEW o \in Outs, NEW w \in Works, Ready(c, o, w), w.reason # "none"
    PROVE  Replied(c, Takes(c, n, o, [turn |-> n, type |-> "turn.end", v |-> w.reason]), w)
<1> DEFINE e == [turn |-> n, type |-> "turn.end", v |-> w.reason]
           f == IF w.reason = "max_turns" THEN "length" ELSE "stop"
           b == o.error \/ w.reason = "error"
<1>1. Takes(c, n, o, e) = IF w.reason = "completed" THEN o
                          ELSE IF c \in Streamers THEN [o EXCEPT !.finish = f]
                          ELSE [o EXCEPT !.finish = f, !.error = b]
  BY DEF Takes, Chat!Streamed, Chat!Buffered, Chat!openAIFinishReason
<1>2. /\ [o EXCEPT !.finish = f].content = o.content /\ [o EXCEPT !.finish = f].finish = f
      /\ [o EXCEPT !.finish = f, !.error = b].content = o.content
      /\ [o EXCEPT !.finish = f, !.error = b].finish = f
      /\ [o EXCEPT !.finish = f, !.error = b].error = b
  BY DEF Outs
<1>3. w.reason \in Ends /\ o.error \in BOOLEAN
  BY DEF Works, Outs
<1> QED
  BY <1>1, <1>2, <1>3 DEF Ready, Replied, Ends

\* What the results of a client were and will be while the events s reach it.
Heard(c, n, o, s, h) ==
    /\ Len(h) = Len(s) + 1 /\ h[1] = o
    /\ \A j \in 1..Len(s) : h[j + 1] = Takes(c, n, h[j], s[j])

Live(n, d, t) == n = t /\ Len(d) < t

\* The events s turn o into what the turns d said that ended, and, while turn t
\* runs and is the client's own, into what it said so far.
Told(c, n, o, s, d, w, t) ==
    \E h \in Seq(Outs) :
      /\ Heard(c, n, o, s, h)
      /\ \A j \in 1..Len(s) : s[j].turn = n /\ s[j].type = "turn.end" =>
           n \in 1..Len(d) /\ Replied(c, h[j + 1], d[n])
      /\ Live(n, d, t) => Ready(c, h[Len(s) + 1], w)

\* One more event.
LEMMA ToldMore ==
    ASSUME NEW c, NEW n, NEW o, NEW s \in Seq(ChatEvents), NEW d, NEW w, NEW t,
           NEW e \in ChatEvents, NEW dd, NEW ww, NEW tt,
           Told(c, n, o, s, d, w, t),
           n \in 1..Len(d) => n \in 1..Len(dd) /\ dd[n] = d[n],
           Live(n, dd, tt) => \A oo \in Outs : (Live(n, d, t) => Ready(c, oo, w)) =>
                                Ready(c, Takes(c, n, oo, e), ww),
           e.turn = n /\ e.type = "turn.end" =>
             /\ n \in 1..Len(dd)
             /\ \A oo \in Outs : (Live(n, d, t) => Ready(c, oo, w)) =>
                  Replied(c, Takes(c, n, oo, e), dd[n])
    PROVE  Told(c, n, o, Append(s, e), dd, ww, tt)
<1>1. PICK h \in Seq(Outs) :
        /\ Heard(c, n, o, s, h)
        /\ \A j \in 1..Len(s) : s[j].turn = n /\ s[j].type = "turn.end" =>
             n \in 1..Len(d) /\ Replied(c, h[j + 1], d[n])
        /\ Live(n, d, t) => Ready(c, h[Len(s) + 1], w)
  BY DEF Told
<1> DEFINE k == Len(s)
           x == Takes(c, n, h[k + 1], e)
           g == Append(h, x)
           r == Append(s, e)
<1>2. k \in Nat /\ Len(h) = k + 1 /\ h[1] = o /\ h[k + 1] \in Outs
  BY <1>1 DEF Heard
<1>3. x \in Outs
  BY <1>2, TakesIsOut
<1>4. /\ g \in Seq(Outs) /\ Len(g) = k + 2 /\ g[k + 2] = x
      /\ \A j \in 1..(k + 1) : g[j] = h[j]
  BY <1>2, <1>3
<1>5. /\ Len(r) = k + 1 /\ r[k + 1] = e
      /\ \A j \in 1..k : r[j] = s[j]
  OBVIOUS
<1> HIDE DEF g, r, x, k
<1>6. Heard(c, n, o, r, g)
  <2>1. ASSUME NEW j \in 1..(k + 1) PROVE g[j + 1] = Takes(c, n, g[j], r[j])
    <3>1. CASE j = k + 1
      <4>1. g[j + 1] = x /\ g[j] = h[k + 1] /\ r[j] = e
        BY <3>1, <1>2, <1>4, <1>5
      <4> QED
        BY <4>1 DEF x
    <3>2. CASE j \in 1..k
      <4>1. g[j + 1] = h[j + 1] /\ g[j] = h[j] /\ r[j] = s[j]
        BY <3>2, <1>2, <1>4, <1>5
      <4>2. h[j + 1] = Takes(c, n, h[j], s[j])
        BY <3>2, <1>1 DEF Heard, k
      <4> QED
        BY <4>1, <4>2
    <3> QED
      BY <3>1, <3>2, <1>2
  <2>2. Len(g) = Len(r) + 1 /\ g[1] = o
    BY <1>2, <1>4, <1>5
  <2> QED
    BY <2>1, <2>2, <1>5 DEF Heard
<1>7. (Live(n, d, t) => Ready(c, h[k + 1], w)) /\ h[k + 1] \in Outs
  BY <1>1, <1>2 DEF k
<1>8. ASSUME NEW j \in 1..Len(r), r[j].turn = n, r[j].type = "turn.end"
      PROVE  n \in 1..Len(dd) /\ Replied(c, g[j + 1], dd[n])
  <2>1. CASE j = k + 1
    <3>1. r[j] = e /\ g[j + 1] = x
      BY <2>1, <1>2, <1>4, <1>5
    <3> QED
      BY <3>1, <1>7, <1>8 DEF x
  <2>2. CASE j \in 1..k
    <3>1. r[j] = s[j] /\ g[j + 1] = h[j + 1]
      BY <2>2, <1>2, <1>4, <1>5
    <3>2. n \in 1..Len(d) /\ Replied(c, h[j + 1], d[n])
      BY <2>2, <3>1, <1>1, <1>8 DEF k
    <3> QED
      BY <3>1, <3>2
  <2> QED
    BY <2>1, <2>2, <1>2, <1>5
<1>9. Live(n, dd, tt) => Ready(c, g[Len(r) + 1], ww)
  <2>1. g[Len(r) + 1] = x
    BY <1>2, <1>4, <1>5
  <2> QED
    BY <2>1, <1>7 DEF x
<1> QED
  BY <1>4, <1>6, <1>8, <1>9 DEF Told, r

\* The turns go on without an event.
LEMMA ToldQuiet ==
    ASSUME NEW c, NEW n, NEW o, NEW s \in Seq(ChatEvents), NEW d, NEW w, NEW t,
           NEW ww, NEW tt,
           Told(c, n, o, s, d, w, t),
           Live(n, d, tt) => Live(n, d, t) /\ \A oo \in Outs : Ready(c, oo, w) => Ready(c, oo, ww)
    PROVE  Told(c, n, o, s, d, ww, tt)
<1>1. PICK h \in Seq(Outs) :
        /\ Heard(c, n, o, s, h)
        /\ \A j \in 1..Len(s) : s[j].turn = n /\ s[j].type = "turn.end" =>
             n \in 1..Len(d) /\ Replied(c, h[j + 1], d[n])
        /\ Live(n, d, t) => Ready(c, h[Len(s) + 1], w)
  BY DEF Told
<1>2. h[Len(s) + 1] \in Outs
  BY <1>1 DEF Heard
<1> QED
  BY <1>1, <1>2 DEF Told

\* The first event is taken.
LEMMA ToldRead ==
    ASSUME NEW c, NEW n, NEW o, NEW s \in Seq(ChatEvents), NEW d, NEW w, NEW t,
           Told(c, n, o, s, d, w, t), s # <<>>
    PROVE  /\ Told(c, n, Takes(c, n, o, Head(s)), Tail(s), d, w, t)
           /\ Head(s).turn = n /\ Head(s).type = "turn.end" =>
                n \in 1..Len(d) /\ Replied(c, Takes(c, n, o, Head(s)), d[n])
<1>1. PICK h \in Seq(Outs) :
        /\ Heard(c, n, o, s, h)
        /\ \A j \in 1..Len(s) : s[j].turn = n /\ s[j].type = "turn.end" =>
             n \in 1..Len(d) /\ Replied(c, h[j + 1], d[n])
        /\ Live(n, d, t) => Ready(c, h[Len(s) + 1], w)
  BY DEF Told
<1> DEFINE k == Len(s)
           g == Tail(h)
           r == Tail(s)
<1>2. k \in Nat /\ k >= 1 /\ Len(h) = k + 1 /\ Head(s) = s[1] /\ h[1] = o
  BY <1>1 DEF Heard
<1>3. /\ g \in Seq(Outs) /\ Len(g) = k
      /\ \A j \in 1..k : g[j] = h[j + 1]
  BY <1>2
<1>4. /\ Len(r) = k - 1 /\ \A j \in 1..(k - 1) : r[j] = s[j + 1]
  BY <1>2
<1>5. h[2] = Takes(c, n, o, Head(s))
  BY <1>1, <1>2 DEF Heard
<1> HIDE DEF g, r, k
<1>6. Heard(c, n, h[2], r, g)
  <2>1. ASSUME NEW j \in 1..(k - 1) PROVE g[j + 1] = Takes(c, n, g[j], r[j])
    <3>1. j \in 1..k /\ j + 1 \in 1..k
      BY <1>2
    <3>2. g[j + 1] = h[(j + 1) + 1] /\ g[j] = h[j + 1] /\ r[j] = s[j + 1]
      BY <3>1, <1>3, <1>4
    <3>3. h[(j + 1) + 1] = Takes(c, n, h[j + 1], s[j + 1])
      BY <3>1, <1>1 DEF Heard, k
    <3> QED
      BY <3>2, <3>3
  <2>2. Len(g) = Len(r) + 1 /\ g[1] = h[2]
    BY <1>2, <1>3, <1>4
  <2> QED
    BY <2>1, <2>2, <1>4 DEF Heard
<1>7. ASSUME NEW j \in 1..Len(r), r[j].turn = n, r[j].type = "turn.end"
      PROVE  n \in 1..Len(d) /\ Replied(c, g[j + 1], d[n])
  <2>1. j \in 1..(k - 1) /\ j + 1 \in 1..k
    BY <1>2, <1>4
  <2>2. r[j] = s[j + 1] /\ g[j + 1] = h[(j + 1) + 1]
    BY <2>1, <1>3, <1>4
  <2> QED
    BY <2>1, <2>2, <1>1, <1>7 DEF k
<1>8. Live(n, d, t) => Ready(c, g[Len(r) + 1], w)
  <2>1. g[Len(r) + 1] = h[k + 1]
    BY <1>2, <1>3, <1>4
  <2> QED
    BY <2>1, <1>1 DEF k
<1>9. Told(c, n, h[2], r, d, w, t)
  BY <1>3, <1>6, <1>7, <1>8 DEF Told
<1>10. Head(s).turn = n /\ Head(s).type = "turn.end" =>
         n \in 1..Len(d) /\ Replied(c, h[2], d[n])
  <2>1. 1 \in 1..Len(s)
    BY <1>2 DEF k
  <2>2. s[1].turn = n /\ s[1].type = "turn.end" =>
          n \in 1..Len(d) /\ Replied(c, h[1 + 1], d[n])
    BY <2>1, <1>1
  <2> QED
    BY <2>2, <1>2
<1> QED
  BY <1>5, <1>9, <1>10 DEF r

\* No event is the client's own.
LEMMA ToldFresh ==
    ASSUME NEW c, NEW n, NEW o \in Outs, NEW s \in Seq(ChatEvents), NEW d, NEW w, NEW t,
           \A j \in 1..Len(s) : s[j].turn # n,
           Live(n, d, t) => Ready(c, o, w)
    PROVE  Told(c, n, o, s, d, w, t)
<1> DEFINE h == [j \in 1..(Len(s) + 1) |-> o]
<1>1. h \in Seq(Outs) /\ Len(h) = Len(s) + 1 /\ \A j \in 1..(Len(s) + 1) : h[j] = o
  OBVIOUS
<1> HIDE DEF h
<1>2. ASSUME NEW j \in 1..Len(s) PROVE h[j + 1] = Takes(c, n, h[j], s[j])
  <2>1. h[j + 1] = o /\ h[j] = o
    BY <1>1
  <2> QED
    BY <2>1 DEF Takes
<1>3. Heard(c, n, o, s, h)
  BY <1>1, <1>2 DEF Heard
<1>4. h[Len(s) + 1] = o
  BY <1>1
<1> QED
  BY <1>1, <1>3, <1>4 DEF Told

Then(n) == {e \in ChatEvents : e.turn <= n}
Latest == IF turn > Len(said) THEN turn ELSE Len(said)
Nothing == [content |-> <<>>, finish |-> "stop", error |-> FALSE]
Rest == [round |-> 0, text |-> <<>>, all |-> <<>>, finish |-> "stop", reason |-> "none"]

ChatType ==
    /\ pc \in [Clients -> {"idle", "sending", "reading", "done"}]
    /\ reply \in [Clients -> {"none", "200", "502", "499", "409", "gone", "cut", "500"}]
    /\ own \in [Clients -> Nat] /\ out \in [Clients -> Outs] /\ lost \in [Clients -> BOOLEAN]
    /\ turn \in Nat /\ said \in Seq(Works) /\ work \in Works
    /\ turn # 0 => turn = Len(said) \/ turn = Len(said) + 1
    /\ turn = 0 => work = Rest
    /\ queue \in Seq(Then(Latest)) /\ chan \in [Clients -> Seq(Then(Latest))]

\* The events on their way to a client make its result the one of its own turn.
ChatAt(c) ==
    /\ pc[c] \in {"idle", "sending"} => out[c] = Nothing /\ reply[c] = "none"
    /\ pc[c] = "reading" =>
         /\ reply[c] = "none" /\ own[c] \in 1..Latest
         /\ ~lost[c] => Told(c, own[c], out[c], chan[c] \o queue, said, work, turn)
    /\ reply[c] \in {"200", "502"} /\ ~lost[c] =>
         /\ own[c] \in 1..Len(said) /\ Replied(c, out[c], said[own[c]])
         /\ c \notin Streamers => (reply[c] = "502" <=> out[c].error)

ChatInv == ChatType /\ \A c \in Clients : ChatAt(c)

LEMMA ThenGrows ==
    ASSUME NEW m \in Nat, NEW n \in Nat, m <= n
    PROVE  Then(m) \subseteq Then(n) /\ Seq(Then(m)) \subseteq Seq(Then(n))
<1>1. Then(m) \subseteq Then(n)
  BY DEF Then, ChatEvents
<1> QED
  BY <1>1

\* The events on their way to a client.
LEMMA ComingIsSeq ==
    ASSUME ChatType, NEW c \in Clients
    PROVE  /\ chan[c] \in Seq(Then(Latest)) /\ queue \in Seq(Then(Latest))
           /\ chan[c] \o queue \in Seq(Then(Latest)) /\ chan[c] \o queue \in Seq(ChatEvents)
           /\ \A e \in ChatEvents :
                chan[c] \o Append(queue, e) = Append(chan[c] \o queue, e)
           /\ queue # <<>> =>
                /\ Head(queue) \in Then(Latest) /\ Tail(queue) \in Seq(Then(Latest))
                /\ Append(chan[c], Head(queue)) \in Seq(Then(Latest))
                /\ Append(chan[c], Head(queue)) \o Tail(queue) = chan[c] \o queue
           /\ chan[c] # <<>> =>
                /\ Tail(chan[c]) \in Seq(Then(Latest)) /\ chan[c] \o queue # <<>>
                /\ Tail(chan[c]) \o queue = Tail(chan[c] \o queue)
                /\ Head(chan[c] \o queue) = Head(chan[c])
                /\ Head(chan[c]) \in ChatEvents
<1>1. chan[c] \in Seq(Then(Latest)) /\ queue \in Seq(Then(Latest))
  BY DEF ChatType
<1> DEFINE T == Then(Latest)
           s == chan[c]
           r == queue
<1>2. s \in Seq(T) /\ r \in Seq(T) /\ T \subseteq ChatEvents
  BY <1>1 DEF Then
<1> HIDE DEF s, r, T
<1>3. s \in Seq(ChatEvents) /\ r \in Seq(ChatEvents)
  BY <1>2
<1>4. s \o r \in Seq(T) /\ s \o r \in Seq(ChatEvents)
  BY <1>2, <1>3
<1>5. \A e \in ChatEvents : s \o Append(r, e) = Append(s \o r, e)
  BY <1>3
<1>6. ASSUME r # <<>>
      PROVE  /\ Head(r) \in T /\ Tail(r) \in Seq(T) /\ Append(s, Head(r)) \in Seq(T)
             /\ Append(s, Head(r)) \o Tail(r) = s \o r
  BY <1>2, <1>6
<1>7. ASSUME s # <<>>
      PROVE  /\ Tail(s) \in Seq(T) /\ s \o r # <<>> /\ Tail(s) \o r = Tail(s \o r)
             /\ Head(s \o r) = Head(s) /\ Head(s) \in ChatEvents
  BY <1>2, <1>3, <1>7
<1> QED
  BY <1>1, <1>4, <1>5, <1>6, <1>7 DEF s, r, T

\* A client the step does not concern.
LEMMA ChatUntouched ==
    ASSUME NEW c \in Clients, ChatAt(c), UNCHANGED <<queue, said, work, turn>>,
           pc'[c] = pc[c], own'[c] = own[c], out'[c] = out[c], reply'[c] = reply[c],
           lost'[c] = lost[c], chan'[c] = chan[c]
    PROVE  ChatAt(c)'
<1>1. Latest' = Latest
  BY DEF Latest
<1>2. chan'[c] \o queue' = chan[c] \o queue
  OBVIOUS
<1>3. Told(c, own'[c], out'[c], chan'[c] \o queue', said', work', turn')
        <=> Told(c, own[c], out[c], chan[c] \o queue, said, work, turn)
  BY <1>2
<1> QED
  BY <1>1, <1>3 DEF ChatAt

\* The running turn publishes an event.
LEMMA ChatGrows ==
    ASSUME ChatInv, turn # 0, NEW e \in ChatEvents, e.turn = turn, queue' = Append(queue, e),
           UNCHANGED <<pc, chan, own, out, reply, lost, turn>>, work' \in Works,
           \/ /\ said' = said /\ e.type # "turn.end"
              /\ \A c \in Clients, oo \in Outs :
                   Ready(c, oo, work) => Ready(c, Takes(c, turn, oo, e), work')
           \/ /\ said' = Append(said, work) /\ Len(said) < turn
              /\ \A c \in Clients, oo \in Outs :
                   Ready(c, oo, work) => Replied(c, Takes(c, turn, oo, e), work)
    PROVE  ChatInv'
<1>1. ChatType
  BY DEF ChatInv
<1>2. /\ turn \in Nat /\ said \in Seq(Works) /\ said' \in Seq(Works)
      /\ turn = Len(said) \/ turn = Len(said) + 1
      /\ Len(said') >= Len(said) /\ \A i \in 1..Len(said) : said'[i] = said[i]
  <2>1. said' = said \/ said' = Append(said, work)
    OBVIOUS
  <2>2. /\ turn \in Nat /\ said \in Seq(Works) /\ work \in Works
        /\ turn = Len(said) \/ turn = Len(said) + 1
    BY <1>1 DEF ChatType
  <2> QED
    BY <2>1, <2>2
<1>3. Latest' = Latest /\ Latest \in Nat /\ turn <= Latest
  BY <1>2 DEF Latest
<1>4. queue' \in Seq(Then(Latest))
  <2>1. e \in Then(Latest)
    BY <1>3 DEF Then
  <2>2. queue \in Seq(Then(Latest))
    BY <1>1 DEF ChatType
  <2>3. Append(queue, e) \in Seq(Then(Latest))
    BY <2>1, <2>2
  <2> QED
    BY <2>3, <1>3
<1>5. turn' = Len(said') \/ turn' = Len(said') + 1
  BY <1>2
<1>6. ChatType'
  BY <1>1, <1>2, <1>3, <1>4, <1>5 DEF ChatType
<1>7. ASSUME NEW c \in Clients PROVE ChatAt(c)'
  <2> DEFINE s == chan[c] \o queue
             n == own[c]
             o == out[c]
  <2>1. ChatAt(c)
    BY DEF ChatInv
  <2>2. s \in Seq(ChatEvents) /\ chan'[c] \o queue' = Append(s, e)
    <3>1. s \in Seq(ChatEvents) /\ chan[c] \o Append(queue, e) = Append(s, e)
      BY <1>1, ComingIsSeq
    <3>2. chan'[c] = chan[c]
      OBVIOUS
    <3> QED
      BY <3>1, <3>2
  <2> HIDE DEF s
  <2>3. ASSUME Told(c, n, o, s, said, work, turn)
        PROVE  Told(c, n, o, Append(s, e), said', work', turn)
    <3>1. n \in 1..Len(said) => n \in 1..Len(said') /\ said'[n] = said[n]
      BY <1>2
    <3>2. CASE /\ said' = said /\ e.type # "turn.end"
               /\ \A oo \in Outs : Ready(c, oo, work) => Ready(c, Takes(c, turn, oo, e), work')
      <4>1. Live(n, said', turn) => \A oo \in Outs : (Live(n, said, turn) => Ready(c, oo, work))
                => Ready(c, Takes(c, n, oo, e), work')
        BY <3>2 DEF Live
      <4> QED
        BY <2>2, <2>3, <3>1, <3>2, <4>1, ToldMore
    <3>3. CASE /\ said' = Append(said, work) /\ Len(said) < turn
               /\ \A oo \in Outs : Ready(c, oo, work) => Replied(c, Takes(c, turn, oo, e), work)
      <4>1. Len(said') = turn /\ said'[turn] = work /\ turn \in 1..Len(said')
        BY <1>1, <1>2, <3>3 DEF ChatType
      <4>2. ~Live(n, said', turn)
        BY <4>1, <1>2 DEF Live
      <4>3. e.turn = n => /\ n \in 1..Len(said')
                          /\ \A oo \in Outs : (Live(n, said, turn) => Ready(c, oo, work))
                               => Replied(c, Takes(c, n, oo, e), said'[n])
        BY <3>3, <4>1 DEF Live
      <4> QED
        BY <2>2, <2>3, <3>1, <4>2, <4>3, ToldMore
    <3> QED
      BY <3>2, <3>3
  <2>4. /\ pc'[c] = pc[c] /\ own'[c] = n /\ out'[c] = o /\ reply'[c] = reply[c]
        /\ lost'[c] = lost[c]
    OBVIOUS
  <2>5. Told(c, n, o, s, said, work, turn)
          => Told(c, own'[c], out'[c], chan'[c] \o queue', said', work', turn')
    BY <2>2, <2>3, <2>4
  <2>6. own[c] \in 1..Len(said) => own'[c] \in 1..Len(said') /\ said'[own'[c]] = said[own[c]]
    BY <1>2
  <2> QED
    BY <2>1, <2>4, <2>5, <2>6, <1>3 DEF ChatAt, s
<1> QED
  BY <1>6, <1>7 DEF ChatInv

\* The running turn goes on without an event.
LEMMA ChatHushed ==
    ASSUME ChatInv, turn # 0, UNCHANGED <<pc, chan, own, out, reply, lost, turn, queue, said>>,
           work' \in Works,
           \A c \in Clients, oo \in Outs : Ready(c, oo, work) => Ready(c, oo, work')
    PROVE  ChatInv'
<1>1. Latest' = Latest
  BY DEF Latest
<1>2. ChatType'
  BY <1>1 DEF ChatInv, ChatType
<1>3. ASSUME NEW c \in Clients PROVE ChatAt(c)'
  <2> DEFINE s == chan[c] \o queue
  <2>1. ChatAt(c) /\ s \in Seq(ChatEvents)
    BY ComingIsSeq DEF ChatInv
  <2>2. chan'[c] \o queue' = s
    OBVIOUS
  <2> HIDE DEF s
  <2>3. Told(c, own[c], out[c], s, said, work, turn)
          => Told(c, own[c], out[c], s, said, work', turn)
    BY <2>1, ToldQuiet
  <2>4. Told(c, own[c], out[c], s, said, work, turn)
          => Told(c, own'[c], out'[c], chan'[c] \o queue', said', work', turn')
    BY <2>2, <2>3
  <2> QED
    BY <2>1, <2>4, <1>1 DEF ChatAt, s
<1> QED
  BY <1>2, <1>3 DEF ChatInv

\* A delta of the stream.
LEMMA ChatSayDelta ==
    ASSUME NEW L, NEW K, NEW B, NEW T, NEW R, ChatInv, Chat(L, K, B, T, R)!SayDelta
    PROVE  ChatInv'
<1> DEFINE piece == <<turn, Len(work.all) + 1>>
           e == [turn |-> turn, type |-> "message.delta", v |-> piece]
<1>1. work \in Works /\ turn \in Nat /\ turn # 0 /\ work.reason = "none"
  BY DEF ChatInv, ChatType, Chat!SayDelta, Chat!Running
<1>2. work.text \in Texts /\ work.all \in Texts /\ piece \in Nat \X Nat
  BY <1>1 DEF Works, Texts
<1>3. e \in ChatEvents /\ e.turn = turn /\ e.type # "turn.end"
  BY <1>1, <1>2 DEF ChatEvents
<1>4. /\ work' = [work EXCEPT !.text = Append(work.text, piece), !.all = Append(work.all, piece)]
      /\ queue' = queue \o <<e>>
      /\ UNCHANGED <<pc, chan, own, out, reply, lost, turn, said>>
  BY DEF Chat!SayDelta, Chat!Publish, Chat!Event, Chat!clientVars
<1> HIDE DEF piece
<1>5. Append(work.text, piece) \in Texts /\ Append(work.all, piece) \in Texts
  BY <1>2 DEF Texts
<1>6. work' \in Works /\ work'.reason = "none" /\ work'.all = Append(work.all, piece)
  BY <1>1, <1>4, <1>5 DEF Works
<1>7. queue' = Append(queue, e)
  <2>1. queue \in Seq(Then(Latest))
    BY DEF ChatInv, ChatType
  <2> QED
    BY <1>4, <2>1
<1>8. ASSUME NEW c \in Clients, NEW oo \in Outs, Ready(c, oo, work)
      PROVE  Ready(c, Takes(c, turn, oo, e), work')
  BY <1>1, <1>6, <1>8, TakesDelta
<1> HIDE DEF e
<1> QED
  BY <1>1, <1>3, <1>4, <1>6, <1>7, <1>8, ChatGrows

\* The loop asks the model again.
LEMMA ChatNextRound ==
    ASSUME NEW L, NEW K, NEW B, NEW T, NEW R, ChatInv,
           NEW rejected \in BOOLEAN, Chat(L, K, B, T, R)!NextRound(rejected)
    PROVE  ChatInv'
<1> DEFINE e == [turn |-> turn, type |-> "message.done",
                 v |-> [text |-> work.text, finish |-> "tool_calls"]]
<1>1. work \in Works /\ turn \in Nat /\ turn # 0 /\ work.reason = "none" /\ work.round \in Nat
  BY DEF ChatInv, ChatType, Chat!NextRound, Chat!Running, Works
<1>2. /\ work' = [work EXCEPT !.round = work.round + 1, !.text = <<>>]
      /\ UNCHANGED <<pc, chan, own, out, reply, lost, turn, said>>
      /\ queue' = queue \o <<e>> \/ queue' = queue \o <<>>
  BY DEF Chat!NextRound, Chat!Publish, Chat!Event, Chat!clientVars, Chat!Done
<1>3. work' \in Works /\ work'.reason = "none" /\ work'.all = work.all
  <2>1. <<>> \in Texts /\ work.round + 1 \in Nat
    BY <1>1 DEF Texts
  <2>2. ASSUME NEW m \in Nat, NEW x \in Texts
        PROVE  LET ww == [work EXCEPT !.round = m, !.text = x]
               IN  ww \in Works /\ ww.reason = work.reason /\ ww.all = work.all
    BY <1>1 DEF Works
  <2> QED
    BY <1>1, <1>2, <2>1, <2>2
<1>4. queue \in Seq(Then(Latest))
  BY DEF ChatInv, ChatType
<1>5. CASE queue' = queue \o <<e>>
  <2>1. e \in ChatEvents /\ e.turn = turn /\ e.type # "turn.end"
    BY <1>1 DEF ChatEvents, Works
  <2>2. queue' = Append(queue, e)
    BY <1>4, <1>5
  <2>3. ASSUME NEW c \in Clients, NEW oo \in Outs, Ready(c, oo, work)
        PROVE  Ready(c, Takes(c, turn, oo, e), work')
    BY <1>1, <1>3, <2>3, TakesNote
  <2> HIDE DEF e
  <2> QED
    BY <1>1, <1>2, <1>3, <2>1, <2>2, <2>3, ChatGrows
<1>6. CASE queue' = queue \o <<>>
  <2>1. queue' = queue
    BY <1>4, <1>6
  <2>2. ASSUME NEW c \in Clients, NEW oo \in Outs, Ready(c, oo, work) PROVE Ready(c, oo, work')
    BY <1>1, <1>3, <2>2 DEF Ready
  <2> QED
    BY <1>1, <1>2, <1>3, <2>1, <2>2, ChatHushed
<1> QED
  BY <1>2, <1>5, <1>6

\* The accepted answer.
LEMMA ChatFinalAnswer ==
    ASSUME NEW L, NEW K, NEW B, NEW T, NEW R, ChatInv,
           NEW f \in {"stop", "length"}, Chat(L, K, B, T, R)!FinalAnswer(f)
    PROVE  ChatInv'
<1> DEFINE e == [turn |-> turn, type |-> "message.done", v |-> [text |-> work.text, finish |-> f]]
<1>1. work \in Works /\ turn \in Nat /\ turn # 0 /\ work.reason = "none"
  BY DEF ChatInv, ChatType, Chat!FinalAnswer, Chat!Running
<1>2. /\ work' = [work EXCEPT !.reason = "completed", !.finish = f]
      /\ UNCHANGED <<pc, chan, own, out, reply, lost, turn, said>>
      /\ queue' = queue \o <<e>>
  BY DEF Chat!FinalAnswer, Chat!Publish, Chat!Event, Chat!clientVars, Chat!Done, Chat!Ending
<1>3. /\ work' \in Works /\ work'.reason = "completed" /\ work'.all = work.all
      /\ work'.text = work.text /\ work'.finish = f
  BY <1>1, <1>2 DEF Works, Ends
<1>4. queue' = Append(queue, e)
  <2>1. queue \in Seq(Then(Latest))
    BY DEF ChatInv, ChatType
  <2> QED
    BY <1>2, <2>1
<1>5. e \in ChatEvents /\ e.turn = turn /\ e.type # "turn.end"
  BY <1>1 DEF ChatEvents, Works
<1>6. ASSUME NEW c \in Clients, NEW oo \in Outs, Ready(c, oo, work)
      PROVE  Ready(c, Takes(c, turn, oo, e), work')
  BY <1>1, <1>3, <1>6, TakesAnswer
<1> HIDE DEF e
<1> QED
  BY <1>1, <1>2, <1>3, <1>4, <1>5, <1>6, ChatGrows

\* The turn fails.
LEMMA ChatTurnFails ==
    ASSUME NEW L, NEW K, NEW B, NEW T, NEW R, ChatInv,
           NEW why \in {"max_turns", "error", "cancelled"}, Chat(L, K, B, T, R)!TurnFails(why)
    PROVE  ChatInv'
<1> DEFINE e == [turn |-> turn, type |-> "error", v |-> 0]
<1>1. work \in Works /\ turn \in Nat /\ turn # 0 /\ work.reason = "none"
  BY DEF ChatInv, ChatType, Chat!TurnFails, Chat!Running
<1>2. /\ work' = [work EXCEPT !.reason = why, !.finish = "stop"]
      /\ UNCHANGED <<pc, chan, own, out, reply, lost, turn, said>>
      /\ queue' = IF why = "error" THEN queue \o <<e>> ELSE queue \o <<>>
  BY DEF Chat!TurnFails, Chat!Publish, Chat!Event, Chat!clientVars, Chat!Ending
<1>3. work' \in Works /\ work'.reason = why /\ work'.all = work.all
  BY <1>1, <1>2 DEF Works, Ends
<1>4. queue \in Seq(Then(Latest))
  BY DEF ChatInv, ChatType
<1>5. CASE why = "error"
  <2>1. e \in ChatEvents /\ e.turn = turn /\ e.type # "turn.end"
    BY <1>1 DEF ChatEvents
  <2>2. queue' = Append(queue, e)
    BY <1>2, <1>4, <1>5
  <2>3. ASSUME NEW c \in Clients, NEW oo \in Outs, Ready(c, oo, work)
        PROVE  Ready(c, Takes(c, turn, oo, e), work')
    BY <1>1, <1>3, <1>5, <2>3, TakesError
  <2> HIDE DEF e
  <2> QED
    BY <1>1, <1>2, <1>3, <2>1, <2>2, <2>3, ChatGrows
<1>6. CASE why # "error"
  <2>1. queue' = queue
    BY <1>2, <1>4, <1>6
  <2>2. ASSUME NEW c \in Clients, NEW oo \in Outs, Ready(c, oo, work) PROVE Ready(c, oo, work')
    BY <1>1, <1>3, <1>6, <2>2 DEF Ready
  <2> QED
    BY <1>1, <1>2, <1>3, <2>1, <2>2, ChatHushed
<1> QED
  BY <1>5, <1>6

\* turn.end.
LEMMA ChatTurnEnds ==
    ASSUME NEW L, NEW K, NEW B, NEW T, NEW R, ChatInv, Chat(L, K, B, T, R)!PublishTurnEnd
    PROVE  ChatInv'
<1> DEFINE e == [turn |-> turn, type |-> "turn.end", v |-> work.reason]
<1>1. work \in Works /\ turn \in Nat /\ turn # 0 /\ work.reason # "none" /\ Len(said) < turn
  BY DEF ChatInv, ChatType, Chat!PublishTurnEnd
<1>2. /\ said' = Append(said, work) /\ queue' = queue \o <<e>>
      /\ UNCHANGED <<pc, chan, own, out, reply, lost, turn, work>>
  BY DEF Chat!PublishTurnEnd, Chat!Publish, Chat!Event, Chat!clientVars
<1>3. e \in ChatEvents /\ e.turn = turn
  <2>1. work.reason \in Ends
    BY <1>1 DEF Works
  <2> QED
    BY <1>1, <2>1 DEF ChatEvents
<1>4. queue' = Append(queue, e)
  <2>1. queue \in Seq(Then(Latest))
    BY DEF ChatInv, ChatType
  <2> QED
    BY <1>2, <2>1
<1>5. ASSUME NEW c \in Clients, NEW oo \in Outs, Ready(c, oo, work)
      PROVE  Replied(c, Takes(c, turn, oo, e), work)
  BY <1>1, <1>5, TakesEnd
<1> HIDE DEF e
<1>6. work' \in Works
  BY <1>1, <1>2
<1> QED
  BY <1>1, <1>2, <1>3, <1>4, <1>5, <1>6, ChatGrows

\* takeTurn.
LEMMA ChatTakeTurn ==
    ASSUME NEW L, NEW K, NEW B, NEW T, NEW R, ChatInv, Chat(L, K, B, T, R)!TakeTurn
    PROVE  ChatInv'
<1>1. /\ turn # 0 /\ Len(said) = turn /\ turn' = 0 /\ work' = Rest
      /\ UNCHANGED <<pc, chan, own, out, reply, lost, queue, said>>
  BY DEF Chat!TakeTurn, Chat!clientVars, Chat!NoWork, Rest
<1>2. Latest' = Latest
  BY <1>1 DEF Latest, ChatInv, ChatType
<1>3. Rest \in Works
  <2>1. <<>> \in Texts
    BY DEF Texts
  <2> QED
    BY <2>1 DEF Rest, Works
<1>4. ChatType'
  BY <1>1, <1>2, <1>3 DEF ChatInv, ChatType
<1>5. ASSUME NEW c \in Clients PROVE ChatAt(c)'
  <2> DEFINE s == chan[c] \o queue
  <2>1. ChatAt(c) /\ s \in Seq(ChatEvents)
    BY ComingIsSeq DEF ChatInv
  <2>2. chan'[c] \o queue' = s
    BY <1>1
  <2> HIDE DEF s
  <2>3. ~Live(own[c], said, 0)
    BY DEF Live, ChatInv, ChatType
  <2>4. Told(c, own[c], out[c], s, said, work, turn) => Told(c, own[c], out[c], s, said, Rest, 0)
    BY <2>1, <2>3, ToldQuiet
  <2>5. Told(c, own[c], out[c], s, said, work, turn)
          => Told(c, own'[c], out'[c], chan'[c] \o queue', said', work', turn')
    BY <1>1, <2>2, <2>4
  <2> QED
    BY <2>1, <2>5, <1>1, <1>2 DEF ChatAt, s
<1> QED
  BY <1>4, <1>5 DEF ChatInv

\* The fanout hands out an event.
LEMMA ChatDispatch ==
    ASSUME NEW L, NEW K, NEW B, NEW T, NEW R, ChatInv, Chat(L, K, B, T, R)!Dispatch
    PROVE  ChatInv'
<1> DEFINE room(c) == Len(chan[c]) < B
           taking(c) == pc[c] \in {"sending", "reading"}
<1>1. /\ queue # <<>> /\ queue' = Tail(queue)
      /\ chan' = [c \in Clients |-> IF taking(c) /\ room(c)
                                    THEN Append(chan[c], Head(queue)) ELSE chan[c]]
      /\ lost' = [c \in Clients |-> lost[c] \/ (taking(c) /\ ~room(c))]
      /\ UNCHANGED <<pc, own, out, reply, turn, work, said>>
  BY DEF Chat!Dispatch, Chat!Subscribed, Chat!clientVars, Chat!loopVars
<1>2. Latest' = Latest
  BY <1>1 DEF Latest
<1>3. ChatType
  BY DEF ChatInv
<1> HIDE DEF room, taking
<1>4. ASSUME NEW c \in Clients
      PROVE  /\ chan'[c] \in Seq(Then(Latest)) /\ lost'[c] \in BOOLEAN
             /\ chan'[c] = IF taking(c) /\ room(c) THEN Append(chan[c], Head(queue)) ELSE chan[c]
             /\ lost'[c] <=> lost[c] \/ (taking(c) /\ ~room(c))
  BY <1>1, <1>3, ComingIsSeq
<1>5. ChatType'
  <2>1. chan' \in [Clients -> Seq(Then(Latest))]
    BY <1>1, <1>4
  <2>2. lost' \in [Clients -> BOOLEAN]
    BY <1>1, <1>4
  <2>3. queue' \in Seq(Then(Latest))
    BY <1>1, <1>3 DEF ChatType
  <2> QED
    BY <1>1, <1>2, <1>3, <2>1, <2>2, <2>3 DEF ChatType
<1>6. ASSUME NEW c \in Clients PROVE ChatAt(c)'
  <2>1. ChatAt(c)
    BY DEF ChatInv
  <2>2. CASE pc[c] = "reading"
    <3>1. ASSUME ~lost'[c] PROVE ~lost[c] /\ chan'[c] \o queue' = chan[c] \o queue
      <4>1. taking(c)
        BY <2>2 DEF taking
      <4>2. ~lost[c] /\ chan'[c] = Append(chan[c], Head(queue))
        BY <3>1, <4>1, <1>4
      <4> QED
        BY <4>2, <1>1, <1>3, ComingIsSeq
    <3>2. ~lost'[c] => Told(c, own'[c], out'[c], chan'[c] \o queue', said', work', turn')
      <4> SUFFICES ASSUME ~lost'[c]
                   PROVE  Told(c, own'[c], out'[c], chan'[c] \o queue', said', work', turn')
        OBVIOUS
      <4>1. Told(c, own[c], out[c], chan[c] \o queue, said, work, turn)
        BY <2>1, <2>2, <3>1 DEF ChatAt
      <4> QED
        BY <4>1, <3>1, <1>1
    <3> QED
      BY <2>1, <2>2, <3>2, <1>1, <1>2 DEF ChatAt
  <2>3. CASE pc[c] # "reading"
    <3>1. reply[c] \in {"200", "502"} => ~taking(c)
      BY <2>1 DEF ChatAt, taking
    <3>2. reply[c] \in {"200", "502"} => lost'[c] = lost[c]
      BY <3>1, <1>3, <1>4 DEF ChatType
    <3> QED
      BY <2>1, <2>3, <3>2, <1>1 DEF ChatAt
  <2> QED
    BY <2>2, <2>3
<1> QED
  BY <1>5, <1>6 DEF ChatInv

\* A handler returns without a reply of its turn.
LEMMA ChatReturns ==
    ASSUME NEW L, NEW K, NEW B, NEW T, NEW R, ChatInv, NEW c \in Clients,
           NEW how \in {"499", "409", "gone", "cut", "500"}, Chat(L, K, B, T, R)!Returns(c, how),
           UNCHANGED <<own, out, lost, turn, work, queue, said>>
    PROVE  ChatInv'
<1>1. /\ pc' = [pc EXCEPT ![c] = "done"] /\ reply' = [reply EXCEPT ![c] = how]
      /\ chan' = [chan EXCEPT ![c] = <<>>]
  BY DEF Chat!Returns
<1>2. ChatType /\ Latest' = Latest
  BY DEF ChatInv, Latest
<1>3. /\ pc'[c] = "done" /\ reply'[c] = how
      /\ \A d \in Clients \ {c} : pc'[d] = pc[d] /\ reply'[d] = reply[d] /\ chan'[d] = chan[d]
  BY <1>1, <1>2 DEF ChatType
<1>4. ChatType'
  <2>1. <<>> \in Seq(Then(Latest))
    OBVIOUS
  <2>2. /\ pc' \in [Clients -> {"idle", "sending", "reading", "done"}]
        /\ reply' \in [Clients -> {"none", "200", "502", "499", "409", "gone", "cut", "500"}]
        /\ chan' \in [Clients -> Seq(Then(Latest))]
    BY <1>1, <1>2, <2>1 DEF ChatType
  <2> QED
    BY <1>2, <2>2 DEF ChatType
<1>5. ChatAt(c)'
  BY <1>3 DEF ChatAt
<1>6. ASSUME NEW d \in Clients \ {c} PROVE ChatAt(d)'
  <2>1. ChatAt(d)
    BY DEF ChatInv
  <2> QED
    BY <2>1, <1>3, ChatUntouched
<1> QED
  BY <1>4, <1>5, <1>6 DEF ChatInv

\* The request is subscribed ...
LEMMA ChatSubscribe ==
    ASSUME NEW L, NEW K, NEW B, NEW T, NEW R, ChatInv, NEW c \in Clients,
           Chat(L, K, B, T, R)!Subscribe(c)
    PROVE  ChatInv'
<1>1. /\ pc[c] = "idle" /\ pc' = [pc EXCEPT ![c] = "sending"]
      /\ UNCHANGED <<chan, own, out, reply, lost, turn, work, queue, said>>
  BY DEF Chat!Subscribe, Chat!loopVars
<1>2. ChatType /\ Latest' = Latest
  BY <1>1 DEF ChatInv, Latest
<1>3. pc'[c] = "sending" /\ \A d \in Clients \ {c} : pc'[d] = pc[d]
  BY <1>1, <1>2 DEF ChatType
<1>4. ChatType'
  BY <1>1, <1>2 DEF ChatType
<1>5. ChatAt(c)'
  <2>1. ChatAt(c)
    BY DEF ChatInv
  <2> QED
    BY <2>1, <1>1, <1>3 DEF ChatAt
<1>6. ASSUME NEW d \in Clients \ {c} PROVE ChatAt(d)'
  <2>1. ChatAt(d)
    BY DEF ChatInv
  <2> QED
    BY <2>1, <1>1, <1>3, ChatUntouched
<1> QED
  BY <1>4, <1>5, <1>6 DEF ChatInv

\* ... and its turn taken.
LEMMA ChatSend ==
    ASSUME NEW L, NEW K, NEW B, NEW T, NEW R, ChatInv, NEW c \in Clients,
           Chat(L, K, B, T, R)!SendAccepted(c)
    PROVE  ChatInv'
<1> DEFINE n == Len(said) + 1
<1>1. /\ pc[c] = "sending" /\ turn = 0 /\ turn' = n /\ own' = [own EXCEPT ![c] = n]
      /\ lost' = [lost EXCEPT ![c] = FALSE] /\ pc' = [pc EXCEPT ![c] = "reading"]
      /\ UNCHANGED <<chan, out, reply, work, queue, said>>
  BY DEF Chat!SendAccepted
<1>2. ChatType /\ said \in Seq(Works) /\ work = Rest
  BY <1>1 DEF ChatInv, ChatType
<1>3. Len(said) \in Nat /\ n \in Nat /\ Latest = Len(said) /\ Latest' = n
  BY <1>1, <1>2 DEF Latest
<1> HIDE DEF n
<1>4. /\ pc'[c] = "reading" /\ own'[c] = n /\ lost'[c] = FALSE
      /\ \A d \in Clients \ {c} : pc'[d] = pc[d] /\ own'[d] = own[d] /\ lost'[d] = lost[d]
  BY <1>1, <1>2 DEF ChatType
<1>5. Seq(Then(Latest)) \subseteq Seq(Then(Latest'))
  BY <1>3, ThenGrows DEF n
<1>6. ChatType'
  <2>1. pc' \in [Clients -> {"idle", "sending", "reading", "done"}]
        /\ own' \in [Clients -> Nat] /\ lost' \in [Clients -> BOOLEAN]
    BY <1>1, <1>2, <1>3 DEF ChatType
  <2>2. queue' \in Seq(Then(Latest')) /\ chan' \in [Clients -> Seq(Then(Latest'))]
    BY <1>1, <1>2, <1>5 DEF ChatType
  <2>3. turn' = Len(said') + 1 /\ turn' # 0 /\ turn' \in Nat
    BY <1>1, <1>3 DEF n
  <2> QED
    BY <1>1, <1>2, <2>1, <2>2, <2>3 DEF ChatType
<1>7. ~(n \in 1..Len(said)) /\ \A i \in 1..Len(said) : ~Live(i, said, n)
  BY <1>3 DEF n, Live
<1>8. ChatAt(c)'
  <2> DEFINE s == chan[c] \o queue
  <2>1. out[c] = Nothing /\ reply[c] = "none"
    BY <1>1 DEF ChatInv, ChatAt
  <2>2. s \in Seq(Then(Latest)) /\ s \in Seq(ChatEvents) /\ chan'[c] \o queue' = s
    BY <1>1, <1>2, ComingIsSeq
  <2> HIDE DEF s
  <2>3. \A j \in 1..Len(s) : s[j].turn # n
    <3> SUFFICES ASSUME NEW j \in 1..Len(s) PROVE s[j].turn # n
      OBVIOUS
    <3>1. s[j] \in Then(Latest)
      BY <2>2
    <3>2. s[j].turn \in Nat /\ s[j].turn <= Len(said)
      BY <3>1, <1>3 DEF Then, ChatEvents
    <3> QED
      BY <3>2, <1>3 DEF n
  <2>4. Nothing \in Outs /\ Ready(c, Nothing, Rest)
    <3>1. <<>> \in Texts
      BY DEF Texts
    <3> QED
      BY <3>1 DEF Nothing, Outs, Ready, Rest
  <2>5. Told(c, n, Nothing, s, said, Rest, n)
    BY <2>2, <2>3, <2>4, ToldFresh
  <2>6. Told(c, own'[c], out'[c], chan'[c] \o queue', said', work', turn')
    BY <1>1, <1>2, <1>4, <2>1, <2>2, <2>5
  <2>7. own'[c] \in 1..Latest'
    BY <1>3, <1>4 DEF n
  <2> QED
    BY <1>1, <1>4, <2>1, <2>6, <2>7 DEF ChatAt
<1>9. ASSUME NEW d \in Clients \ {c} PROVE ChatAt(d)'
  <2> DEFINE s == chan[d] \o queue
  <2>1. ChatAt(d) /\ s \in Seq(ChatEvents)
    BY <1>2, ComingIsSeq DEF ChatInv
  <2>2. chan'[d] \o queue' = s
    BY <1>1
  <2> HIDE DEF s
  <2>3. own[d] \in 1..Latest => ~Live(own[d], said, n)
    BY <1>3, <1>7
  <2>4. own[d] \in 1..Latest /\ Told(d, own[d], out[d], s, said, work, turn)
          => Told(d, own[d], out[d], s, said, work, n)
    BY <2>1, <2>3, ToldQuiet
  <2>5. own[d] \in 1..Latest /\ Told(d, own[d], out[d], s, said, work, turn)
          => Told(d, own'[d], out'[d], chan'[d] \o queue', said', work', turn')
    BY <2>2, <2>4, <1>1, <1>4
  <2>6. own[d] \in 1..Latest => own'[d] \in 1..Latest'
    BY <1>3, <1>4 DEF n
  <2> QED
    BY <2>1, <2>5, <2>6, <1>1, <1>4 DEF ChatAt, s
<1> QED
  BY <1>6, <1>8, <1>9 DEF ChatInv

\* The next event of a client.
LEMMA ChatRead ==
    ASSUME NEW L, NEW K, NEW B, NEW T, NEW R, ChatInv, NEW c \in Clients,
           Chat(L, K, B, T, R)!Read(c)
    PROVE  ChatInv'
<1> DEFINE e == Head(chan[c])
           x == Takes(c, own[c], out[c], e)
           over == e.turn = own[c] /\ e.type = "turn.end"
           how == IF c \notin Streamers /\ x.error THEN "502" ELSE "200"
           y == IF c \in Streamers THEN Chat(L, K, B, T, R)!Streamed(out[c], e)
                ELSE Chat(L, K, B, T, R)!Buffered(out[c], e)
<1>1. /\ Chat(L, K, B, T, R)!Streamed(out[c], e) = Chat({}, FALSE, 1, 1, 1)!Streamed(out[c], e)
      /\ Chat(L, K, B, T, R)!Buffered(out[c], e) = Chat({}, FALSE, 1, 1, 1)!Buffered(out[c], e)
  BY DEF Chat!Streamed, Chat!Buffered, Chat!openAIFinishReason
<1>2. x = IF e.turn = own[c] THEN y ELSE out[c]
  BY <1>1 DEF Takes
<1>3. /\ pc[c] = "reading" /\ chan[c] # <<>>
      /\ out' = [out EXCEPT ![c] = IF e.turn = own[c] THEN y ELSE out[c]]
      /\ UNCHANGED <<own, lost, turn, work, queue, said>>
  BY DEF Chat!Read, Chat!ForTurn, Chat!loopVars
<1>4. /\ pc[c] = "reading" /\ chan[c] # <<>> /\ out' = [out EXCEPT ![c] = x]
      /\ UNCHANGED <<own, lost, turn, work, queue, said>>
  BY <1>2, <1>3
<1>5. over => /\ pc' = [pc EXCEPT ![c] = "done"] /\ reply' = [reply EXCEPT ![c] = how]
              /\ chan' = [chan EXCEPT ![c] = <<>>]
  <2>1. over => /\ pc' = [pc EXCEPT ![c] = "done"] /\ chan' = [chan EXCEPT ![c] = <<>>]
                /\ reply' = [reply EXCEPT ![c] = Chat(L, K, B, T, R)!Answer(c, y)]
    BY DEF Chat!Read, Chat!ForTurn, Chat!Returns
  <2>2. over => Chat(L, K, B, T, R)!Answer(c, y) = how
    BY <1>2 DEF Chat!Answer
  <2> QED
    BY <2>1, <2>2
<1>6. ~over => chan' = [chan EXCEPT ![c] = Tail(chan[c])] /\ UNCHANGED <<pc, reply>>
  BY DEF Chat!Read, Chat!ForTurn
<1>7. ChatType /\ Latest' = Latest
  BY <1>4 DEF ChatInv, Latest
<1>8. e \in ChatEvents /\ Tail(chan[c]) \in Seq(Then(Latest))
  BY <1>4, <1>7, ComingIsSeq
<1>9. x \in Outs
  <2>1. out[c] \in Outs
    BY <1>7 DEF ChatType
  <2> QED
    BY <2>1, <1>8, TakesIsOut
<1>10. how \in {"200", "502"}
  OBVIOUS
<1>11. ~lost[c] =>
        /\ Told(c, own[c], x, Tail(chan[c]) \o queue, said, work, turn)
        /\ over => own[c] \in 1..Len(said) /\ Replied(c, x, said[own[c]])
  <2> SUFFICES ASSUME ~lost[c]
               PROVE  /\ Told(c, own[c], x, Tail(chan[c]) \o queue, said, work, turn)
                      /\ over => own[c] \in 1..Len(said) /\ Replied(c, x, said[own[c]])
    OBVIOUS
  <2> DEFINE s == chan[c] \o queue
  <2>1. Told(c, own[c], out[c], s, said, work, turn)
    BY <1>4 DEF ChatInv, ChatAt
  <2>2. s \in Seq(ChatEvents) /\ s # <<>> /\ Head(s) = e /\ Tail(chan[c]) \o queue = Tail(s)
    BY <1>4, <1>7, ComingIsSeq
  <2> HIDE DEF s
  <2> HIDE DEF e
  <2>3. /\ Told(c, own[c], Takes(c, own[c], out[c], Head(s)), Tail(s), said, work, turn)
        /\ Head(s).turn = own[c] /\ Head(s).type = "turn.end" =>
             own[c] \in 1..Len(said) /\ Replied(c, Takes(c, own[c], out[c], Head(s)), said[own[c]])
    BY <2>1, <2>2, ToldRead
  <2> QED
    BY <2>2, <2>3
<1> HIDE DEF x, y, e, over, how
<1>12. /\ out'[c] = x /\ own'[c] = own[c] /\ lost'[c] = lost[c]
      /\ \A d \in Clients \ {c} : out'[d] = out[d]
  BY <1>4, <1>7 DEF ChatType
<1>13. CASE over
  <2>1. /\ pc'[c] = "done" /\ reply'[c] = how
        /\ \A d \in Clients \ {c} : pc'[d] = pc[d] /\ reply'[d] = reply[d] /\ chan'[d] = chan[d]
    BY <1>5, <1>7, <1>13 DEF ChatType
  <2>2. ChatType'
    <3>1. <<>> \in Seq(Then(Latest))
      OBVIOUS
    <3>2. /\ pc' \in [Clients -> {"idle", "sending", "reading", "done"}]
          /\ reply' \in [Clients -> {"none", "200", "502", "499", "409", "gone", "cut", "500"}]
          /\ chan' \in [Clients -> Seq(Then(Latest))] /\ out' \in [Clients -> Outs]
      BY <1>4, <1>5, <1>7, <1>9, <1>10, <1>13, <3>1 DEF ChatType
    <3> QED
      BY <1>4, <1>7, <3>2 DEF ChatType
  <2>3. ChatAt(c)'
    <3>1. c \notin Streamers => (how = "502" <=> x.error)
      BY DEF how
    <3> QED
      BY <2>1, <3>1, <1>4, <1>11, <1>12, <1>13 DEF ChatAt
  <2>4. ASSUME NEW d \in Clients \ {c} PROVE ChatAt(d)'
    <3>1. ChatAt(d)
      BY DEF ChatInv
    <3> QED
      BY <3>1, <2>1, <1>4, <1>12, ChatUntouched
  <2> QED
    BY <2>2, <2>3, <2>4 DEF ChatInv
<1>14. CASE ~over
  <2>1. /\ chan'[c] = Tail(chan[c]) /\ pc' = pc /\ reply' = reply
        /\ \A d \in Clients \ {c} : chan'[d] = chan[d]
    BY <1>6, <1>7, <1>14 DEF ChatType
  <2>2. ChatType'
    <3>1. chan' \in [Clients -> Seq(Then(Latest))] /\ out' \in [Clients -> Outs]
      BY <1>4, <1>6, <1>7, <1>8, <1>9, <1>14 DEF ChatType
    <3> QED
      BY <1>4, <1>7, <2>1, <3>1 DEF ChatType
  <2>3. ChatAt(c)'
    <3>1. ChatAt(c)
      BY DEF ChatInv
    <3>2. ~lost[c] => Told(c, own'[c], out'[c], chan'[c] \o queue', said', work', turn')
      BY <2>1, <1>4, <1>11, <1>12
    <3> QED
      BY <3>1, <3>2, <2>1, <1>4, <1>7, <1>12 DEF ChatAt
  <2>4. ASSUME NEW d \in Clients \ {c} PROVE ChatAt(d)'
    <3>1. ChatAt(d)
      BY DEF ChatInv
    <3> QED
      BY <3>1, <2>1, <1>4, <1>12, ChatUntouched
  <2> QED
    BY <2>2, <2>3, <2>4 DEF ChatInv
<1> QED
  BY <1>13, <1>14

\* A new session.
LEMMA ChatInit ==
    ASSUME NEW L, NEW K, NEW B, NEW T, NEW R
    PROVE  Chat(L, K, B, T, R)!Init => ChatInv
<1> SUFFICES ASSUME Chat(L, K, B, T, R)!Init PROVE ChatInv
  OBVIOUS
<1>1. /\ pc = [c \in Clients |-> "idle"] /\ chan = [c \in Clients |-> <<>>]
      /\ own = [c \in Clients |-> 0] /\ out = [c \in Clients |-> Nothing]
      /\ reply = [c \in Clients |-> "none"] /\ lost = [c \in Clients |-> FALSE]
      /\ turn = 0 /\ work = Rest /\ queue = <<>> /\ said = <<>>
  BY DEF Chat!Init, Chat!Fresh, Chat!NoWork, Nothing, Rest
<1>2. Nothing \in Outs /\ Rest \in Works
  <2>1. <<>> \in Texts
    BY DEF Texts
  <2> QED
    BY <2>1 DEF Nothing, Rest, Outs, Works
<1>3. ChatType
  BY <1>1, <1>2 DEF ChatType
<1>4. ASSUME NEW c \in Clients PROVE ChatAt(c)
  BY <1>1 DEF ChatAt
<1> QED
  BY <1>3, <1>4 DEF ChatInv

\* Every step of the turns, of the fanout and of the clients.
LEMMA ChatSteps ==
    ASSUME NEW L, NEW K, NEW B, NEW T, NEW R
    PROVE  ChatInv /\ [Chat(L, K, B, T, R)!Next]_(Chat(L, K, B, T, R)!vars) => ChatInv'
<1> SUFFICES ASSUME ChatInv, [Chat(L, K, B, T, R)!Next]_(Chat(L, K, B, T, R)!vars)
             PROVE  ChatInv'
  OBVIOUS
<1>1. CASE Chat(L, K, B, T, R)!SayDelta
  BY <1>1, ChatSayDelta
<1>2. ASSUME NEW rejected \in BOOLEAN, Chat(L, K, B, T, R)!NextRound(rejected) PROVE ChatInv'
  BY <1>2, ChatNextRound
<1>3. ASSUME NEW f \in {"stop", "length"}, Chat(L, K, B, T, R)!FinalAnswer(f) PROVE ChatInv'
  BY <1>3, ChatFinalAnswer
<1>4. ASSUME NEW why \in {"max_turns", "error", "cancelled"}, Chat(L, K, B, T, R)!TurnFails(why)
      PROVE  ChatInv'
  BY <1>4, ChatTurnFails
<1>5. CASE Chat(L, K, B, T, R)!PublishTurnEnd
  BY <1>5, ChatTurnEnds
<1>6. CASE Chat(L, K, B, T, R)!TakeTurn
  BY <1>6, ChatTakeTurn
<1>7. CASE Chat(L, K, B, T, R)!Dispatch
  BY <1>7, ChatDispatch
<1>8. ASSUME NEW c \in Clients, Chat(L, K, B, T, R)!Subscribe(c) PROVE ChatInv'
  BY <1>8, ChatSubscribe
<1>9. ASSUME NEW c \in Clients, NEW how \in {"499", "409", "gone", "cut", "500"},
             Chat(L, K, B, T, R)!Returns(c, how),
             UNCHANGED <<own, out, lost, turn, work, queue, said>>
      PROVE  ChatInv'
  BY <1>9, ChatReturns
<1>10. ASSUME NEW c \in Clients, Chat(L, K, B, T, R)!SendRefused(c) PROVE ChatInv'
  <2>1. /\ Chat(L, K, B, T, R)!Returns(c, IF gone[c] THEN "499" ELSE "409")
        /\ UNCHANGED <<own, out, lost, turn, work, queue, said>>
    BY <1>10 DEF Chat!SendRefused, Chat!loopVars
  <2> QED
    BY <2>1, <1>9
<1>11. ASSUME NEW c \in Clients, Chat(L, K, B, T, R)!SendAccepted(c) PROVE ChatInv'
  BY <1>11, ChatSend
<1>12. ASSUME NEW c \in Clients, Chat(L, K, B, T, R)!GiveUp(c) PROVE ChatInv'
  <2>1. /\ Chat(L, K, B, T, R)!Returns(c, "gone")
        /\ UNCHANGED <<own, out, lost, turn, work, queue, said>>
    BY <1>12 DEF Chat!GiveUp
  <2> QED
    BY <2>1, <1>9
<1>13. ASSUME NEW c \in Clients, Chat(L, K, B, T, R)!Read(c) PROVE ChatInv'
  BY <1>13, ChatRead
<1>14. ASSUME NEW c \in Clients, Chat(L, K, B, T, R)!StreamCloses(c) PROVE ChatInv'
  <2>1. /\ Chat(L, K, B, T, R)!Returns(c, IF c \in Streamers THEN "cut" ELSE "500")
        /\ UNCHANGED <<own, out, lost, turn, work, queue, said>>
    BY <1>14 DEF Chat!StreamCloses, Chat!loopVars
  <2> QED
    BY <2>1, <1>9
<1>15. ASSUME UNCHANGED <<pc, chan, own, out, reply, lost, turn, work, queue, said>>
       PROVE  ChatInv'
  <2>1. ChatType' /\ Latest' = Latest
    BY <1>15 DEF ChatInv, ChatType, Latest
  <2>2. ASSUME NEW c \in Clients PROVE ChatAt(c)'
    <3>1. ChatAt(c)
      BY DEF ChatInv
    <3> QED
      BY <3>1, <1>15, ChatUntouched
  <2> QED
    BY <2>1, <2>2 DEF ChatInv
<1>16. ASSUME NEW c \in Clients, Chat(L, K, B, T, R)!Disconnect(c) PROVE ChatInv'
  <2>1. UNCHANGED <<pc, chan, own, out, reply, lost, turn, work, queue, said>>
    BY <1>16 DEF Chat!Disconnect, Chat!loopVars
  <2> QED
    BY <2>1, <1>15
<1>17. CASE Chat(L, K, B, T, R)!CloseSession \/ UNCHANGED Chat(L, K, B, T, R)!vars
  <2>1. UNCHANGED <<pc, chan, own, out, reply, lost, turn, work, queue, said>>
    BY <1>17 DEF Chat!CloseSession, Chat!clientVars, Chat!vars
  <2> QED
    BY <2>1, <1>15
<1> QED
  BY <1>1, <1>2, <1>3, <1>4, <1>5, <1>6, <1>7, <1>8, <1>10, <1>11, <1>12, <1>13, <1>14,
     <1>16, <1>17 DEF Chat!Next

\* A reply is that of its own turn.
LEMMA ChatMeans ==
    ASSUME NEW L, NEW K, NEW B, NEW T, NEW R
    PROVE  ChatInv => Chat(L, K, B, T, R)!ReplyIsOwn
<1> SUFFICES ASSUME ChatInv, NEW c \in Clients, reply[c] \in {"200", "502"}, ~lost[c]
             PROVE  LET t == said[own[c]]
                    IN  /\ t.reason = "completed" /\ c \notin Streamers => out[c].content = t.text
                        /\ c \in Streamers => out[c].content = t.all
                        /\ out[c].finish =
                             IF t.reason = "completed" THEN t.finish
                             ELSE Chat(L, K, B, T, R)!openAIFinishReason(t.reason)
                        /\ c \notin Streamers => (reply[c] = "502" <=> t.reason = "error")
  BY DEF Chat!ReplyIsOwn
<1>1. /\ Replied(c, out[c], said[own[c]])
      /\ c \notin Streamers => (reply[c] = "502" <=> out[c].error)
  BY DEF ChatInv, ChatAt
<1> QED
  BY <1>1 DEF Replied, Chat!openAIFinishReason

\* A chat completion that is answered carries its own turn's reply, for every
\* number of clients, whatever the capacity of a subscription and however their
\* turns, their leaving and the close of the session interleave.
THEOREM ReplyIsOwnCorrect ==
    ASSUME NEW L, NEW K, NEW B, NEW T, NEW R
    PROVE  Chat(L, K, B, T, R)!Spec => []Chat(L, K, B, T, R)!ReplyIsOwn
<1> QED
  BY ChatInit, ChatSteps, ChatMeans, PTL DEF Chat!Spec

-----------------------------------------------------------------------------
(* The behaviours of MCTools: in its scene, a component behaves as alone. *)

\* A behaviour keeps its scene.
LEMMA SceneKept ==
    [Next]_vars => scene' = scene
  BY DEF Next, Kept, Stop, vars

\* OwnReply of MCTools: both transports, for any server and any capacities.
THEOREM OwnReplyInScenes ==
    Spec => []OwnReply
<1>1. Init => /\ scene = "mcp" => Mcp!Init
              /\ scene = "mcp_http" => Http!Init
  BY DEF Init
<1>2. [Next]_vars => /\ scene = "mcp" => [Mcp!Next]_(Mcp!vars)
                     /\ scene = "mcp_http" => [Http!Next]_(Http!vars)
  BY DEF Next, Stop, vars, Mcp!vars, Http!vars
<1>3. [Next]_vars => /\ (scene = "mcp") <=> (scene = "mcp")'
                     /\ (scene = "mcp_http") <=> (scene = "mcp_http")'
  BY SceneKept
<1>4. Mcp!Spec => [](Mcp!OwnReply /\ Mcp!NoPanic)
  BY MCToolsAssumption, OwnReplyCorrect DEF MCToolsAssumption
<1>5. Http!Spec => []Http!NoPanic
  BY MCToolsAssumption, HttpNoPanicCorrect DEF MCToolsAssumption
<1> QED
  BY <1>1, <1>2, <1>3, <1>4, <1>5, PTL DEF Spec, Mcp!Spec, Http!Spec, OwnReply

\* ShellReported of MCTools, on the host.
THEOREM ShellReportedInScene ==
    ASSUME Backend = "local"
    PROVE  Spec => []ShellReported
<1>1. Init => (scene = "shell" => Shell!Init)
  BY DEF Init
<1>2. [Next]_vars => (scene = "shell" => [Shell!Next]_(Shell!vars))
  BY DEF Next, Stop, vars, Shell!vars
<1>3. [Next]_vars => ((scene = "shell") <=> (scene = "shell")')
  BY SceneKept
<1>4. Shell!Spec => []Shell!ShellReported
  BY MCToolsAssumption, ShellReportedCorrect DEF MCToolsAssumption
<1> QED
  BY <1>1, <1>2, <1>3, <1>4, PTL DEF Spec, Shell!Spec, ShellReported

\* EditIsExact of MCTools: for any file, any limits and any appends.
THEOREM EditIsExactInScene ==
    Spec => EditIsExact
<1>1. Init => (scene = "edit" => Edit!Init)
  BY DEF Init
<1>2. [Next]_vars => (scene = "edit" => [Edit!Next]_(Edit!vars))
  BY DEF Next, Stop, vars, Edit!vars
<1>3. [Next]_vars => ((scene = "edit") <=> (scene = "edit")')
  BY SceneKept
<1>4. Edit!Spec => [][Edit!EditIsExact /\ Edit!EditIsUnambiguous]_(Edit!vars)
  BY MCToolsAssumption, EditIsExactCorrect DEF MCToolsAssumption
<1>5. [Next]_vars /\ scene = "edit" /\ UNCHANGED Edit!vars => UNCHANGED vars
  BY DEF Next, Kept, vars, Edit!vars
<1> QED
  BY <1>1, <1>2, <1>3, <1>4, <1>5, PTL DEF Spec, Edit!Spec, EditIsExact

\* SubagentsContained of MCTools: for any depth, channel and schedule.
THEOREM SubagentsContainedInScene ==
    Spec => []SubagentsContained
<1>1. Init => (scene = "subagents" => Sub!Init)
  BY DEF Init
<1>2. [Next]_vars => (scene = "subagents" => [Sub!Next]_(Sub!vars))
  BY DEF Next, Stop, vars, Sub!vars
<1>3. [Next]_vars => ((scene = "subagents") <=> (scene = "subagents")')
  BY SceneKept
<1>4. Sub!Spec => []Sub!SubagentsContained
  BY MCToolsAssumption, SubagentsContainedCorrect DEF MCToolsAssumption
<1> QED
  BY <1>1, <1>2, <1>3, <1>4, PTL DEF Spec, Sub!Spec, SubagentsContained

\* AnswersVerified of MCTools, in a session of one turn whose calls all run,
\* whose answers are not truncated and whose log is not compacted.
THEOREM AnswersVerifiedInScene ==
    ASSUME ~Skips, ~Recovers, ~Compacts, MaxTurns = 1
    PROVE  Spec => []AnswersVerified
<1>1. Init => (scene = "verify" => Verify!Init)
  BY DEF Init
<1>2. [Next]_vars => (scene = "verify" => [Verify!Next]_(Verify!vars))
  BY DEF Next, Stop, vars, Verify!vars
<1>3. [Next]_vars => ((scene = "verify") <=> (scene = "verify")')
  BY SceneKept
<1>4. Verify!Spec => []Verify!StaleNeverAccepted
  BY MCToolsAssumption, StaleNeverAcceptedCorrect DEF MCToolsAssumption
<1>5. Verify!Spec => []Verify!BlockJustified
  BY MCToolsAssumption, BlockJustifiedCorrect DEF MCToolsAssumption
<1> QED
  BY <1>1, <1>2, <1>3, <1>4, <1>5, PTL DEF Spec, Verify!Spec, AnswersVerified

\* GuardsTruthful of MCTools, where the fetches of an API never meet a host
\* that serves a page without its data, and files change by edits of code.
THEOREM GuardsTruthfulInScenes ==
    ASSUME "dynamic_shell" \in Kinds => Apis = {}, Docs = {}, "shell" \notin FileTools
    PROVE  Spec => []GuardsTruthful
<1>1. Init => /\ scene = "guard_web" => GuardWeb!Init
              /\ scene = "guard_files" => GuardFiles!Init
  BY DEF Init
<1>2. [Next]_vars => /\ scene = "guard_web" => [GuardWeb!Next]_(GuardWeb!vars)
                     /\ scene = "guard_files" => [GuardFiles!Next]_(GuardFiles!vars)
  BY DEF Next, Stop, vars, GuardWeb!vars, GuardFiles!vars
<1>3. [Next]_vars => /\ (scene = "guard_web") <=> (scene = "guard_web")'
                     /\ (scene = "guard_files") <=> (scene = "guard_files")'
  BY SceneKept
<1>4. GuardWeb!Spec => [](GuardWeb!RetriedOnce /\ GuardWeb!HostGivenUp)
  BY MCToolsAssumption, GivenUpCorrect DEF MCToolsAssumption
<1>5. GuardFiles!Spec => [](/\ GuardFiles!FreshEvidence
                            /\ GuardFiles!NoEvidenceTruthful
                            /\ GuardFiles!SoftNeverForces)
  BY MCToolsAssumption, RefusalsTruthfulCorrect DEF MCToolsAssumption
<1> QED
  BY <1>1, <1>2, <1>3, <1>4, <1>5, PTL
     DEF Spec, GuardWeb!Spec, GuardFiles!Spec, GuardsTruthful

\* GivenStays of MCTools, for servers that give the session id when asked to
\* initialize.
THEOREM GivenStaysInScenes ==
    ASSUME InitGivesId
    PROVE  Spec => GivenStays
<1>1. Init => /\ scene = "mcp_http" => Http!Init
              /\ scene = "network" => Net(AllResponses, MaxEntries, TRUE)!Init
  BY DEF Init
<1>2. [Next]_vars => /\ scene = "mcp_http" => [Http!Next]_(Http!vars)
                     /\ scene = "network" =>
                          [Net(AllResponses, MaxEntries, TRUE)!Next]_
                            (Net(AllResponses, MaxEntries, TRUE)!vars)
  BY DEF Next, Stop, vars, Http!vars, Net!vars
<1>3. [Next]_vars => /\ (scene = "mcp_http") <=> (scene = "mcp_http")'
                     /\ (scene = "network") <=> (scene = "network")'
  BY SceneKept
<1>4. Http!Spec => [][Http!SessionPinned]_(Http!vars)
  BY MCToolsAssumption, SessionPinnedCorrect DEF MCToolsAssumption
<1>5. IsFiniteSet(AllResponses)
  BY MCToolsAssumption DEF MCToolsAssumption, Net!NetworkEvidenceAssumption,
                           Net!IsFiniteSet, IsFiniteSet
<1>6. /\ Net(AllResponses, MaxEntries, TRUE)!Init => NetInv(AllResponses)
      /\ /\ NetInv(AllResponses)
         /\ [Net(AllResponses, MaxEntries, TRUE)!Next]_
              (Net(AllResponses, MaxEntries, TRUE)!vars)
         => NetInv(AllResponses)' /\ Net(AllResponses, MaxEntries, TRUE)!RefsStable
      /\ NetInv(AllResponses) => Net(AllResponses, MaxEntries, TRUE)!ReadsCounted
  BY <1>5, NetInit, NetSteps, NetMeans
<1>7. [Next]_vars => /\ scene = "mcp_http" /\ UNCHANGED Http!vars => UNCHANGED vars
                     /\ /\ scene = "network"
                        /\ UNCHANGED Net(AllResponses, MaxEntries, TRUE)!vars
                        => UNCHANGED vars
  BY DEF Next, Kept, vars, Http!vars, Net!vars
<1> QED
  BY <1>1, <1>2, <1>3, <1>4, <1>6, <1>7, PTL DEF Spec, Http!Spec, GivenStays

\* RefHits of MCTools: for any elements and any tool calls; the settled snapshot
\* with a slot for each of its responses and a log that keeps them.
THEOREM RefHitsInScenes ==
    ASSUME Cardinality(FewResponses) <= Slots, Cardinality(FewResponses) <= FewEntries
    PROVE  Spec => []RefHits
<1>1. Init =>
        /\ scene = "browser" => Refs(PageElems, FALSE, FALSE, FALSE)!Init
        /\ scene = "browser_late" => Refs(FewElems, TRUE, TRUE, TRUE)!Init
        /\ scene = "network_settled" => Net(FewResponses, FewEntries, FALSE)!Init
  BY DEF Init
<1>2. [Next]_vars =>
        /\ scene = "browser" =>
             [Refs(PageElems, FALSE, FALSE, FALSE)!Next]_
               (Refs(PageElems, FALSE, FALSE, FALSE)!vars)
        /\ scene = "browser_late" =>
             [Refs(FewElems, TRUE, TRUE, TRUE)!Next]_
               (Refs(FewElems, TRUE, TRUE, TRUE)!vars)
        /\ scene = "network_settled" =>
             [Net(FewResponses, FewEntries, FALSE)!Next]_
               (Net(FewResponses, FewEntries, FALSE)!vars)
  BY DEF Next, Stop, vars, Refs!vars, Net!vars
<1>3. [Next]_vars => /\ (scene = "browser") <=> (scene = "browser")'
                     /\ (scene = "browser_late") <=> (scene = "browser_late")'
                     /\ (scene = "network_settled") <=> (scene = "network_settled")'
  BY SceneKept
<1>4. /\ Refs(PageElems, FALSE, FALSE, FALSE)!BrowserRefsAssumption
      /\ Refs(FewElems, TRUE, TRUE, TRUE)!BrowserRefsAssumption
      /\ Net(FewResponses, FewEntries, FALSE)!NetworkEvidenceAssumption
  BY MCToolsAssumption DEF MCToolsAssumption
<1>5. IsFiniteSet(FewResponses) /\ {FewEntries, Slots} \subseteq Nat /\ PageElems \in Nat
  BY <1>4 DEF Net!NetworkEvidenceAssumption, Net!IsFiniteSet, IsFiniteSet,
              Refs!BrowserRefsAssumption
<1>6. /\ Refs(PageElems, FALSE, FALSE, FALSE)!Init => HitInv(PageElems)
      /\ HitInv(PageElems)
         /\ [Refs(PageElems, FALSE, FALSE, FALSE)!Next]_
              (Refs(PageElems, FALSE, FALSE, FALSE)!vars)
         => HitInv(PageElems)'
      /\ HitInv(PageElems) => Refs(PageElems, FALSE, FALSE, FALSE)!RefHits
  BY <1>4, <1>5, HitInit, HitSteps DEF HitInv, Refs!RefHits
<1>7. /\ Refs(FewElems, TRUE, TRUE, TRUE)!Init => StampInv(FewElems)
      /\ StampInv(FewElems)
         /\ [Refs(FewElems, TRUE, TRUE, TRUE)!Next]_
              (Refs(FewElems, TRUE, TRUE, TRUE)!vars)
         => StampInv(FewElems)'
      /\ StampInv(FewElems) => Refs(FewElems, TRUE, TRUE, TRUE)!StampsUnique
  <2>1. StampInv(FewElems) => Refs(FewElems, TRUE, TRUE, TRUE)!StampsUnique
    BY DEF StampInv, Refs!StampsUnique
  <2> QED
    BY <1>4, <2>1, StampInit, StampSteps
<1>8. /\ Net(FewResponses, FewEntries, FALSE)!Init => SettledInv(FewResponses)
      /\ SettledInv(FewResponses)
         /\ [Net(FewResponses, FewEntries, FALSE)!Next]_
              (Net(FewResponses, FewEntries, FALSE)!vars)
         => SettledInv(FewResponses)'
      /\ SettledInv(FewResponses) => Net(FewResponses, FewEntries, FALSE)!SettledComplete
  BY <1>5, SettledInit, SettledSteps DEF SettledInv, Net!SettledComplete
<1> QED
  BY <1>1, <1>2, <1>3, <1>6, <1>7, <1>8, PTL DEF Spec, RefHits

\* MessageComplete of MCTools: for any calls and fragments of a reply, any chain
\* of subagents whose events fit the channel, and any clients of a session.
THEOREM MessageCompleteInScenes ==
    ASSUME ReportSaid < ReportRoom
    PROVE  Spec => []MessageComplete
<1>1. Init =>
        /\ scene = "stream" => Stream("indexed")!Init
        /\ scene = "stream_no_index" => Stream("no_index")!Init
        /\ scene = "subagent_report" => SubReport!Init
        /\ scene = "chat" => Chat(Quitters, FALSE, ChatRoom, ChatTurns, FewRounds)!Init
        /\ scene = "chat_rounds" => Chat({}, TRUE, MoreRoom, FewTurns, ChatRounds)!Init
  BY DEF Init
<1>2. [Next]_vars =>
        /\ scene = "stream" => [Stream("indexed")!Next]_(Stream("indexed")!vars)
        /\ scene = "stream_no_index" => [Stream("no_index")!Next]_(Stream("no_index")!vars)
        /\ scene = "subagent_report" => [SubReport!Next]_(SubReport!vars)
        /\ scene = "chat" =>
             [Chat(Quitters, FALSE, ChatRoom, ChatTurns, FewRounds)!Next]_
               (Chat(Quitters, FALSE, ChatRoom, ChatTurns, FewRounds)!vars)
        /\ scene = "chat_rounds" =>
             [Chat({}, TRUE, MoreRoom, FewTurns, ChatRounds)!Next]_
               (Chat({}, TRUE, MoreRoom, FewTurns, ChatRounds)!vars)
  BY DEF Next, Stop, vars, Stream!vars, SubReport!vars, Chat!vars
<1>3. [Next]_vars => /\ (scene = "stream") <=> (scene = "stream")'
                     /\ (scene = "stream_no_index") <=> (scene = "stream_no_index")'
                     /\ (scene = "subagent_report") <=> (scene = "subagent_report")'
                     /\ (scene = "chat") <=> (scene = "chat")'
                     /\ (scene = "chat_rounds") <=> (scene = "chat_rounds")'
  BY SceneKept
<1>4. /\ Stream("indexed")!Init => StreamInv
      /\ StreamInv /\ [Stream("indexed")!Next]_(Stream("indexed")!vars) => StreamInv'
      /\ StreamInv => Stream("indexed")!MessageComplete /\ Stream("indexed")!ShownIsKept
  BY StreamInit, StreamSteps, StreamMeans
<1>5. /\ Stream("no_index")!Init => StreamInv
      /\ StreamInv /\ [Stream("no_index")!Next]_(Stream("no_index")!vars) => StreamInv'
      /\ StreamInv => Stream("no_index")!MessageComplete
  BY StreamInit, StreamSteps, StreamMeans
<1>6. SubReport!Spec => []SubReport!ReportIsLast
  BY MCToolsAssumption, ReportIsLastCorrect DEF MCToolsAssumption
<1>7. /\ Chat(Quitters, FALSE, ChatRoom, ChatTurns, FewRounds)!Init => ChatInv
      /\ /\ ChatInv
         /\ [Chat(Quitters, FALSE, ChatRoom, ChatTurns, FewRounds)!Next]_
              (Chat(Quitters, FALSE, ChatRoom, ChatTurns, FewRounds)!vars)
         => ChatInv'
      /\ ChatInv => Chat(Quitters, FALSE, ChatRoom, ChatTurns, FewRounds)!ReplyIsOwn
  BY ChatInit, ChatSteps, ChatMeans
<1>8. /\ Chat({}, TRUE, MoreRoom, FewTurns, ChatRounds)!Init => ChatInv
      /\ /\ ChatInv
         /\ [Chat({}, TRUE, MoreRoom, FewTurns, ChatRounds)!Next]_
              (Chat({}, TRUE, MoreRoom, FewTurns, ChatRounds)!vars)
         => ChatInv'
      /\ ChatInv => Chat({}, TRUE, MoreRoom, FewTurns, ChatRounds)!ReplyIsOwn
  BY ChatInit, ChatSteps, ChatMeans
<1> QED
  BY <1>1, <1>2, <1>3, <1>4, <1>5, <1>6, <1>7, <1>8, PTL DEF Spec, SubReport!Spec, MessageComplete
=============================================================================
