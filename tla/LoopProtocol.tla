---------------------------- MODULE LoopProtocol ----------------------------
(***************************************************************************)
(* The durable state of one long-running loop: LOOP.md (`doc'), its        *)
(* sidecar state.json (`st') and the number of lines of events.jsonl       *)
(* (`events').  Two actors use the files without a lock between them: the  *)
(* turn (the loop_protocol tool, the protocol feed, the checkpoints of the *)
(* agent loop) and the HTTP handlers (POST and DELETE of the protocol, the *)
(* calibration answer recorded while a user message is accepted).          *)
(*                                                                         *)
(* An operation is a list of file steps.  Each read or atomic replacement  *)
(* of one file is a step of its own, so the steps of the two actors        *)
(* interleave and a crash may fall between any two.  The text of LOOP.md   *)
(* is reduced to its metadata status, whether it passes                    *)
(* ValidateProtocolActivation, and whether it has a recorded question and  *)
(* answer; completed, blocked and paused are one status, "closed", and a   *)
(* text or state without a status has the status "none".                   *)
(***************************************************************************)
EXTENDS Naturals, Sequences

CONSTANTS
    TurnOps,    \* the operations the turn may start
    HttpOps,    \* the operations the HTTP handlers may start
    Overlap,    \* may the two actors be at work at the same time
    Crashes,    \* may the process die
    MaxLines,   \* bound on the events
    MaxFeeds    \* bound on the protocol feeds

LoopBounds == MaxLines \in Nat /\ MaxFeeds \in Nat

VARIABLES
    doc,        \* LOOP.md
    st,         \* state.json
    events,     \* lines of events.jsonl
    torn,       \* events.jsonl ends in half a line
    job,        \* the file steps each actor still has to take
    answered,   \* history: an answer was recorded since the draft was set up
    owed,       \* history: a full feed was promised and no feed came since
    closed      \* history: the loop was closed and nothing reopened it

vars == <<doc, st, events, torn, job, answered, owed, closed>>

Actors == {"turn", "http"}
OpsOf(a) == IF a = "turn" THEN TurnOps ELSE HttpOps

Docs == [found: BOOLEAN, status: {"none", "draft", "running", "closed"},
         ready: BOOLEAN, pairs: BOOLEAN]
NoDoc == [found |-> FALSE, status |-> "none", ready |-> FALSE, pairs |-> FALSE]
Text(status) == {d \in Docs : d.found /\ d.status = status}

NoState == [found |-> FALSE, status |-> "none", q |-> 0, a |-> 0,
            full |-> FALSE, feeds |-> 0, mode |-> "none", seq |-> 0]

Idle == [todo |-> <<>>, snap |-> NoState, proto |-> NoDoc,
         status |-> "none", mode |-> "none", seq |-> 0]

-----------------------------------------------------------------------------
(* What the operations do to the state they read.                          *)

loopProtocolFullFirstFeeds == 1
loopProtocolFullEveryFeeds == 6

loopProtocolFeedMode(n) ==
    IF n <= loopProtocolFullFirstFeeds \/ n % loopProtocolFullEveryFeeds = 0
    THEN "full" ELSE "digest"

nextLoopProtocolFeedDecision(s) ==
    IF s.full THEN "full" ELSE loopProtocolFeedMode(s.feeds + 1)

\* A state that is missing, or has no status, becomes a running one.
normalizeStateForProtocol(s) ==
    [s EXCEPT !.found = TRUE,
              !.status = IF s.status = "none" THEN "running" ELSE @]

RecordProtocolActivation(s, j) == [s EXCEPT !.status = "running", !.full = TRUE]

RecordProtocolStatus(s, j) == [s EXCEPT !.status = "closed", !.full = FALSE]

RecordProtocolCalibrationQuestion(s, j) == [s EXCEPT !.q = @ + 1]

RecordProtocolCalibrationAnswer(s, j) == [s EXCEPT !.a = @ + 1]

RecordProtocolUpdate(s, j) ==
    [s EXCEPT !.status = IF j.status = "none" THEN @ ELSE j.status,
              !.full = @ \/ j.status \in {"none", "running"}]

RecordProtocolFeed(s, j) ==
    [s EXCEPT !.feeds = @ + 1, !.mode = j.mode, !.full = @ /\ j.mode # "full"]

RecordContextCompaction(s, j) ==
    [s EXCEPT !.full = @ \/ j.mode = "reactive"]

\* The HTTP handler takes the status its summary carries over the state's.
recordSessionLoopProtocolEvent(s, j, update) ==
    LET status == IF j.status # "none" THEN j.status ELSE s.status
    IN [s EXCEPT !.status = status, !.full = @ \/ (update /\ status = "running")]

Recorded(op, s, j) ==
    CASE op = "init"       -> [s EXCEPT !.status = "draft"]
      [] op = "question"   -> RecordProtocolCalibrationQuestion(s, j)
      [] op = "answer"     -> RecordProtocolCalibrationAnswer(s, j)
      [] op = "update"     -> RecordProtocolUpdate(s, j)
      [] op = "activate"   -> RecordProtocolActivation(s, j)
      [] op = "close"      -> RecordProtocolStatus(s, j)
      [] op = "feed"       -> RecordProtocolFeed(s, j)
      [] op = "compaction" -> RecordContextCompaction(s, j)
      [] op = "checkpoint" -> s
      [] op = "put"        -> recordSessionLoopProtocolEvent(s, j, TRUE)
      [] op = "delete"     -> recordSessionLoopProtocolEvent(s, j, FALSE)

-----------------------------------------------------------------------------
(* Starting an operation: what it reads first, and its file steps.         *)

RecordSteps(op) == << <<"read", op>>, <<"count", op>>, <<"append", op>>, <<"write", op>> >>
AppendFirstSteps(op) == << <<"count", op>>, <<"append", op>>, <<"read", op>>, <<"write", op>> >>
WriteDoc == << <<"writedoc", "none">> >>

Begin(a, j) ==
    /\ job' = [job EXCEPT ![a] = j]
    /\ UNCHANGED <<doc, st, events, torn, answered, owed, closed>>

MayStart(a, op) ==
    /\ op \in OpsOf(a)
    /\ job[a] = Idle
    /\ Overlap \/ \A b \in Actors : job[b] = Idle
    /\ events < MaxLines

\* EnsureProtocolTemplate: an existing LOOP.md is honoured as it is.
StartInit(a) ==
    /\ MayStart(a, "init") /\ ~doc.found
    /\ Begin(a, [Idle EXCEPT !.todo = WriteDoc \o AppendFirstSteps("init"),
                             !.proto = [NoDoc EXCEPT !.found = TRUE, !.status = "draft"]])

\* recordLoopProtocolCalibrationQuestionIfReady
StartQuestion(a) ==
    /\ MayStart(a, "question")
    /\ st.found /\ st.status = "draft" /\ st.q <= st.a
    /\ Begin(a, [Idle EXCEPT !.todo = RecordSteps("question")])

\* recordLoopProtocolCalibrationAnswerIfReady
StartAnswer(a) ==
    /\ MayStart(a, "answer")
    /\ st.found /\ st.status = "draft" /\ st.q > 0 /\ st.a < st.q
    /\ Begin(a, [Idle EXCEPT !.todo = RecordSteps("answer")])

\* patchLoopProtocolDraft edits the sections of a saved draft.
StartPatch(a) ==
    /\ MayStart(a, "patch")
    /\ doc.found /\ doc.status = "draft"
    /\ \E d \in Text("draft") :
          Begin(a, [Idle EXCEPT !.todo = WriteDoc \o RecordSteps("update"), !.proto = d])

\* updateLoopProtocolDraft writes a whole LOOP.md whose status is not running.
StartUpdate(a) ==
    /\ MayStart(a, "update")
    /\ \E d \in Text("draft") \cup Text("closed") :
          Begin(a, [Idle EXCEPT !.todo = WriteDoc \o RecordSteps("update"), !.proto = d])

\* completeLoopProtocolActivation and the activating POST:
\* PrepareProtocolActivation takes the submitted text if it has a status and
\* the saved one otherwise; ValidateProtocolActivation must accept it.
PrepareProtocolActivation(d) ==
    d.found /\ d.status \in {"draft", "running"} /\ d.ready

StartActivate(a) ==
    /\ MayStart(a, "activate")
    /\ \E d \in {doc} \cup Text("draft") \cup Text("running") :
          /\ PrepareProtocolActivation(d)
          /\ Begin(a, [Idle EXCEPT
                !.todo = << <<"repair", "none">>, <<"ready", "none">> >> \o WriteDoc \o RecordSteps("activate"),
                !.proto = [d EXCEPT !.status = "running"]])

\* closeLoopProtocol
StartClose(a) ==
    /\ MayStart(a, "close") /\ doc.found
    /\ Begin(a, [Idle EXCEPT !.todo = WriteDoc \o RecordSteps("close"),
                             !.proto = [doc EXCEPT !.status = "closed"]])

\* activeLoopProtocolSkillBlockWithCheckpoint
StartFeed(a) ==
    /\ MayStart(a, "feed") /\ st.feeds < MaxFeeds
    /\ doc.found /\ doc.status \in {"none", "running"}
    /\ Begin(a, [Idle EXCEPT !.todo = << <<"decide", "none">> >> \o RecordSteps("feed")])

\* markLoopProtocolCompacted
StartCompaction(a, kind) ==
    /\ MayStart(a, kind) /\ doc.found
    /\ Begin(a, [Idle EXCEPT !.todo = RecordSteps("compaction"), !.mode = kind])

\* recordLoopTurnCheckpoint, recordLoopDecision, recordLoopMemoryUpdate
StartCheckpoint(a) ==
    /\ MayStart(a, "checkpoint") /\ doc.found
    /\ Begin(a, [Idle EXCEPT !.todo = RecordSteps("checkpoint")])

\* validateNonActivatingLoopProtocolUpdate
validateNonActivatingLoopProtocolUpdate(d) ==
    d.status = "running" => doc.found /\ doc.status = "running"

\* writeSessionLoopProtocol without activate.
StartPut(a) ==
    /\ MayStart(a, "put")
    /\ \E d \in Docs :
          /\ d.found /\ validateNonActivatingLoopProtocolUpdate(d)
          /\ Begin(a, [Idle EXCEPT
                !.todo = WriteDoc \o << <<"summarize", "none">> >> \o AppendFirstSteps("put"),
                !.proto = d])

\* clearSessionLoopProtocol
StartDelete(a) ==
    /\ MayStart(a, "delete")
    /\ Begin(a, [Idle EXCEPT !.todo = << <<"remove", "none">> >> \o AppendFirstSteps("delete"),
                             !.status = "disabled"])

-----------------------------------------------------------------------------
(* The file steps.                                                         *)

At(a, k) == job[a].todo # <<>> /\ Head(job[a].todo)[1] = k
OpAt(a) == Head(job[a].todo)[2]

\* The job after its first step; a job with no step left is idle again.
Rest(a) == IF Len(job[a].todo) = 1 THEN Idle
           ELSE [job[a] EXCEPT !.todo = Tail(@)]
Advance(a, j) == job' = [job EXCEPT ![a] = j]

WriteProtocol(a) ==
    /\ At(a, "writedoc")
    /\ doc' = job[a].proto
    /\ answered' = (answered /\ job[a].todo[2] # <<"count", "init">>)
    /\ closed' = (closed /\ job[a].todo[Len(job[a].todo)][2] \notin {"activate", "init"})
    /\ Advance(a, Rest(a))
    /\ UNCHANGED <<st, events, torn, owed>>

\* RemoveProtocol, then ReadState: nothing there, nothing to record.
RemoveProtocol(a) ==
    /\ At(a, "remove")
    /\ doc' = NoDoc
    /\ Advance(a, IF ~doc.found /\ ~st.found THEN Idle ELSE Rest(a))
    /\ UNCHANGED <<st, events, torn, answered, owed, closed>>

\* SummarizeFile: the state's status is preferred to the one in the text.
SummarizeFile(a) ==
    /\ At(a, "summarize")
    /\ Advance(a, IF ~doc.found THEN Idle
                  ELSE [Rest(a) EXCEPT !.status = IF st.found /\ st.status # "none"
                                                  THEN st.status ELSE doc.status])
    /\ UNCHANGED <<doc, st, events, torn, answered, owed, closed>>

\* ReadState; RecordProtocolUpdate then looks up the status in LOOP.md.
ReadState(a) ==
    /\ At(a, "read")
    /\ Advance(a, [Rest(a) EXCEPT !.snap = st,
                      !.status = IF OpAt(a) = "update" THEN doc.status ELSE @])
    /\ UNCHANGED <<doc, st, events, torn, answered, owed, closed>>

\* CountEvents of AppendEvent: half a line is an error and ends the operation.
CountEvents(a) ==
    /\ At(a, "count")
    /\ Advance(a, IF torn THEN Idle ELSE [Rest(a) EXCEPT !.seq = events + 1])
    /\ UNCHANGED <<doc, st, events, torn, answered, owed, closed>>

AppendEvent(a) ==
    /\ At(a, "append")
    /\ events' = events + 1
    /\ Advance(a, Rest(a))
    /\ UNCHANGED <<doc, st, torn, answered, owed, closed>>

\* The history variables follow what the written state promises.
WriteState(a) ==
    /\ At(a, "write")
    /\ LET op == OpAt(a)
           j  == job[a]
           s  == Recorded(op, normalizeStateForProtocol(j.snap), j)
       IN /\ st' = [s EXCEPT !.seq = j.seq]
          /\ answered' = (answered \/ op = "answer")
          /\ owed' = CASE op \in {"activate", "compaction"} -> TRUE
                       [] op \in {"update", "put"} /\ s.status = "running" -> TRUE
                       [] op = "close" -> FALSE
                       [] OTHER -> owed
          /\ closed' = ((closed \/ op = "close") /\ op # "activate")
    /\ Advance(a, Rest(a))
    /\ UNCHANGED <<doc, events, torn>>

\* RepairRecordedCalibrationFromProtocol: a draft without an answer takes
\* over the question and answer its text records.
RepairRecordedCalibrationFromProtocol(a) ==
    /\ At(a, "repair")
    /\ LET rest == Rest(a)
           fix  == IF ~st.found \/ st.status # "draft" \/ st.a > 0
                          \/ ~job[a].proto.pairs THEN <<>>
                   ELSE IF st.q = 0 THEN RecordSteps("question") \o RecordSteps("answer")
                   ELSE RecordSteps("answer")
       IN Advance(a, [rest EXCEPT !.todo = fix \o @])
    /\ UNCHANGED <<doc, st, events, torn, answered, owed, closed>>

\* Mutant: only the balance of questions and answers is checked.
ActivationReadyMutant(s) == s.found /\ s.a >= s.q

ActivationReady(s) == s.found /\ s.q > 0 /\ s.a > 0 /\ s.a >= s.q

ValidateProtocolActivationReady(a) ==
    /\ At(a, "ready")
    /\ Advance(a, IF ActivationReady(st) THEN Rest(a) ELSE Idle)
    /\ UNCHANGED <<doc, st, events, torn, answered, owed, closed>>

\* loopProtocolActive, then the mode of the next feed.
DecideFeed(a) ==
    /\ At(a, "decide")
    /\ LET active == ~st.found \/ st.status \in {"none", "running"}
       IN /\ Advance(a, IF active
                        THEN [Rest(a) EXCEPT !.mode = nextLoopProtocolFeedDecision(st)]
                        ELSE Idle)
          /\ owed' = (owed /\ ~active)
    /\ UNCHANGED <<doc, st, events, torn, answered, closed>>

\* The process dies: the files stay.  One that dies inside AppendEvent may
\* leave half a line.
Crash ==
    /\ Crashes
    /\ \E a \in Actors : job[a] # Idle
    /\ job' = [a \in Actors |-> Idle]
    /\ torn' \in {torn} \cup {TRUE : a \in {b \in Actors : At(b, "append")}}
    /\ UNCHANGED <<doc, st, events, answered, owed, closed>>

-----------------------------------------------------------------------------
Init ==
    /\ doc = NoDoc /\ st = NoState /\ events = 0 /\ torn = FALSE
    /\ job = [a \in Actors |-> Idle]
    /\ answered = FALSE /\ owed = FALSE /\ closed = FALSE

Next ==
    \/ \E a \in Actors :
          \/ StartInit(a) \/ StartQuestion(a) \/ StartAnswer(a) \/ StartPatch(a)
          \/ StartUpdate(a) \/ StartActivate(a) \/ StartClose(a) \/ StartFeed(a)
          \/ \E kind \in {"reactive", "proactive"} : StartCompaction(a, kind)
          \/ StartCheckpoint(a) \/ StartPut(a) \/ StartDelete(a)
          \/ WriteProtocol(a) \/ RemoveProtocol(a) \/ SummarizeFile(a)
          \/ ReadState(a) \/ CountEvents(a) \/ AppendEvent(a) \/ WriteState(a)
          \/ RepairRecordedCalibrationFromProtocol(a)
          \/ ValidateProtocolActivationReady(a) \/ DecideFeed(a)
    \/ Crash

Spec == Init /\ [][Next]_vars

-----------------------------------------------------------------------------
(* Properties.                                                             *)

TypeOK ==
    /\ doc \in Docs
    /\ st.status \in {"none", "draft", "running", "closed", "disabled"}
    /\ events \in 0 .. (MaxLines + 12)
    /\ \A a \in Actors : job[a].proto \in Docs /\ job[a].mode \in {"none", "full", "digest", "reactive", "proactive"}
    /\ {torn, answered, owed, closed} \subseteq BOOLEAN

\* activeLoopProtocolSkillBlockWithCheckpoint would feed the protocol.
Active == /\ doc.found /\ doc.status \in {"none", "running"}
          /\ ~st.found \/ st.status \in {"none", "running"}

\* A loop that is fed into turns was calibrated: since its draft was set up
\* an answer was recorded.  No order of tool calls, messages and crashes
\* starts an uncalibrated loop (ValidateProtocolActivationReady).
ActiveCalibrated == Active => answered

\* state.json carries the number of the latest event line whenever nobody is
\* in the middle of an operation, unless a crash stopped one between the two
\* files (AppendEvent, then WriteState).
MirrorsLatest ==
    (\A a \in Actors : job[a] = Idle) /\ st.found => st.seq = events

\* A feed that follows an activation, an edit of a running protocol or a
\* compaction is a full one, even if the cadence would use a digest
\* (NeedsFullProtocolFeed of state.json).
NextFeedFull ==
    \A a \in Actors :
       At(a, "decide") /\ owed /\ job'[a].mode # "none" => job'[a].mode = "full"

\* A closed loop is not fed again until it is activated or set up anew
\* (closeLoopProtocol).
ClosedStaysClosed == closed => ~Active

\* A LOOP.md whose status is draft has no state that calls the loop running,
\* once no operation is under way.
DraftNotRunning ==
    (\A a \in Actors : job[a] = Idle) /\ doc.found /\ doc.status = "draft"
        => st.status # "running"

\* The first three feeds of a loop are full copies.
FirstThreeFeedsFull ==
    [][st'.feeds # st.feeds /\ st'.feeds <= 3 => st'.mode = "full"]_vars
=============================================================================
