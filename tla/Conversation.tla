---------------------------- MODULE Conversation ----------------------------
(***************************************************************************)
(* The conversation log of one session, in memory and as a JSONL file:     *)
(* internal/agent/conversation.go, driven the way Loop drives it           *)
(* (EnsureSystemPrompt, appendUserMessage, consumeAndPersist and the tool  *)
(* results of a batch).                                                    *)
(*                                                                         *)
(* The file is a sequence of complete lines and a tail without a newline.  *)
(* An append writes one line with one write call and no fsync; Replace     *)
(* writes a temporary file, syncs it and renames it, so it happens or it   *)
(* does not.  A message is its role, a serial number that stands for its   *)
(* content, the ids of its tool calls, and the id it answers.  Ids are     *)
(* unique: a call has the serial of the result it will get.                *)
(***************************************************************************)
EXTENDS Integers, Sequences, SequencesExt, FiniteSets

CONSTANTS
    MaxSerial,      \* bound: messages the session makes
    MaxBatch,       \* bound: tool calls of one assistant message
    MaxCrashes,     \* bound: crashes
    WriteFaults,    \* the ways an append may fail: a subset of Faults
    MachineCrashes  \* may a crash lose what was not synced

Faults == {"open", "partial", "close"}

ConversationAssumption ==
    /\ MaxSerial \in Nat /\ MaxBatch \in Nat \ {0} /\ MaxCrashes \in Nat
    /\ WriteFaults \subseteq Faults
    /\ MachineCrashes \in BOOLEAN

VARIABLES
    lines,   \* the complete lines of the file
    tail,    \* what follows the last newline, as a sequence of at most one line
    synced,  \* the number of lines that are on stable storage
    up,      \* is the session loaded
    mem,     \* Conversation.messages
    todo,    \* the messages the handler that is running still appends
    serial,  \* serial of the last message made
    crashes

vars == <<lines, tail, synced, up, mem, todo, serial, crashes>>

Message ==
    [role : {"system", "context", "user", "note", "assistant", "tool"},
     serial : Nat, calls : Seq(Nat), id : Nat]
Msg(role, s, calls, id) ==
    [role |-> role, serial |-> s, calls |-> calls, id |-> id]
\* A line that is not the JSON of one message.
Junk == [role |-> "junk", serial |-> 0, calls |-> <<>>, id |-> 0]
Line == Message \cup {Junk}

TypeOK ==
    /\ lines \in Seq(Line) /\ tail \in Seq(Line) /\ Len(tail) <= 1
    /\ synced \in 0..Len(lines)
    /\ up \in BOOLEAN
    /\ mem \in Seq(Message) /\ todo \in Seq(Message)
    /\ serial \in Nat /\ crashes \in Nat

Init ==
    /\ lines = <<>> /\ tail = <<>> /\ synced = 0
    /\ up = FALSE
    /\ mem = <<>> /\ todo = <<>>
    /\ serial = 0 /\ crashes = 0
-----------------------------------------------------------------------------
(* load and repairToolCallPairs. *)

\* What load reads: the last line needs no newline, and lines that are not JSON
\* are skipped.
Parse(ls, tl) == SelectSeq(ls \o tl, LAMBDA m : m # Junk)

\* The run of tool messages right after m[i].
Window(m, i) ==
    {j \in (i + 1)..Len(m) : \A k \in (i + 1)..j : m[k].role = "tool"}

\* Tool messages that belong to no assistant message with calls.
Stray(m, j) ==
    m[j].role = "tool" /\ ~\E i \in 1..(j - 1) : m[i].calls # <<>> /\ j \in Window(m, i)

\* The first answer in the window to one of the calls.
Answers(m, i, j) ==
    /\ j \in Window(m, i)
    /\ m[j].id \in Range(m[i].calls)
    /\ \A k \in Window(m, i) : k < j => m[k].id # m[j].id

\* A result that answers nothing becomes a user-visible note.
Note(t) == Msg("note", t.serial, <<>>, 0)

\* missingToolResultOnResume.
Placeholder(id) == Msg("tool", 0, <<>>, id)

\* The members of S, a set of positions of m, in their order.
At(m, S) == [k \in 1..Cardinality(S) |->
                m[CHOOSE j \in S : Cardinality({i \in S : i < j}) = k - 1]]

\* One placeholder per call without an answer, in the order of the calls.
Placeholders(m, i) ==
    LET missing == SelectSeq(m[i].calls, LAMBDA id :
                      ~\E j \in Window(m, i) : m[j].id = id)
    IN  [k \in 1..Len(missing) |-> Placeholder(missing[k])]

\* What the walk emits at position i: tool messages are emitted by the message
\* whose window they are in.
RepairAt(m, i) ==
    LET answers == {j \in Window(m, i) : Answers(m, i, j)}
        others == Window(m, i) \ answers
        notes == [k \in 1..Cardinality(others) |-> Note(At(m, others)[k])]
    IN  IF Stray(m, i) THEN <<Note(m[i])>>
        ELSE IF m[i].role = "tool" THEN <<>>
        ELSE IF m[i].calls = <<>> THEN <<m[i]>>
        ELSE <<m[i]>> \o At(m, answers) \o Placeholders(m, i) \o notes

\* The whole walk.
Repair(m) == FlattenSeq([i \in 1..Len(m) |-> RepairAt(m, i)])

\* replaceWithoutLock: temporary file, fsync, rename, fsync of the directory.
ReplaceFile(m) == lines' = m /\ tail' = <<>> /\ synced' = Len(m)

KeepFile == UNCHANGED <<lines, tail, synced>>

LoadMutant ==
    LET m == Parse(lines, tail)
    IN  /\ ~up
        /\ up' = TRUE
        /\ mem' = Repair(m)
        /\ KeepFile
        /\ UNCHANGED <<todo, serial, crashes>>
\* OpenConversationAt.  A repair is persisted; a clean log is left as it is.  (When
\* the rewrite fails the session is not opened.)
Load ==
    LET m == Parse(lines, tail)
    IN  /\ ~up
        /\ up' = TRUE
        /\ mem' = Repair(m)
        /\ IF Repair(m) # m THEN ReplaceFile(Repair(m)) ELSE KeepFile
        /\ UNCHANGED <<todo, serial, crashes>>
-----------------------------------------------------------------------------
(* Append. *)

\* The line that now ends in a newline: glued to what was left behind.
Glued(m) == IF tail = <<>> THEN m ELSE Junk

Written(m) ==
    /\ lines' = Append(lines, Glued(m))
    /\ tail' = <<>>
    /\ UNCHANGED synced

AppendOK(m) == Written(m) /\ mem' = Append(mem, m)

\* The three ways to fail: nothing was written, a part of the line was, or all
\* of it was and Close reports an error.  Memory is left alone.
AppendFailsMutant(m) ==
    /\ \/ "open" \in WriteFaults /\ KeepFile
       \/ "partial" \in WriteFaults /\ tail' = <<Junk>> /\ UNCHANGED <<lines, synced>>
       \/ "close" \in WriteFaults /\ Written(m)
    /\ mem' = Append(mem, m)
AppendFails(m) ==
    /\ \/ "open" \in WriteFaults /\ KeepFile
       \/ "partial" \in WriteFaults /\ tail' = <<Junk>> /\ UNCHANGED <<lines, synced>>
       \/ "close" \in WriteFaults /\ Written(m)
    /\ UNCHANGED mem

\* The handler appends its next message.  An error on an assistant or tool message
\* is only logged; appendUserMessage gives up; without a system prompt there
\* is no session (counted among the crashes, to bound it).
AppendNext ==
    /\ up /\ todo # <<>>
    /\ LET m == Head(todo)
       IN  \/ AppendOK(m) /\ todo' = Tail(todo) /\ UNCHANGED <<up, crashes>>
           \/ /\ AppendFails(m) /\ m.role # "system"
              /\ todo' = IF m.role \in {"assistant", "tool"} THEN Tail(todo) ELSE <<>>
              /\ UNCHANGED <<up, crashes>>
           \/ /\ AppendFails(m) /\ m.role = "system" /\ crashes < MaxCrashes
              /\ todo' = <<>> /\ up' = FALSE /\ crashes' = crashes + 1
    /\ UNCHANGED serial
-----------------------------------------------------------------------------
(* The handlers of Loop. *)

Idle == up /\ todo = <<>>
System == Msg("system", 0, <<>>, 0)

\* EnsureSystemPrompt on an empty log.  (On another one it only changes the text of
\* a leading system message.)
EnsureSystemPrompt ==
    /\ Idle /\ mem = <<>>
    /\ todo' = <<System>>
    /\ KeepFile
    /\ UNCHANGED <<up, mem, serial, crashes>>

\* PruneTransientContext rewrites the log when it holds transient context.
Durable(m) == m.role # "context"
Prune ==
    LET pruned == SelectSeq(mem, Durable)
    IN  IF pruned = mem THEN KeepFile /\ UNCHANGED mem
        ELSE ReplaceFile(pruned) /\ mem' = pruned

\* appendUserMessage: prune, transient context for this turn, the user's message.
SendUser ==
    /\ Idle /\ mem # <<>>
    /\ serial + 2 <= MaxSerial
    /\ Prune
    /\ todo' = <<Msg("context", serial + 1, <<>>, 0), Msg("user", serial + 2, <<>>, 0)>>
    /\ serial' = serial + 2
    /\ UNCHANGED <<up, crashes>>

\* The model answers with n calls and the batch produces n results.
ModelStep(n) ==
    /\ Idle /\ serial > 0 /\ serial + n + 1 <= MaxSerial
    /\ LET calls == [k \in 1..n |-> serial + 1 + k]
       IN  todo' = <<Msg("assistant", serial + 1, calls, 0)>>
                     \o [k \in 1..n |-> Msg("tool", serial + 1 + k, <<>>, calls[k])]
    /\ serial' = serial + n + 1
    /\ KeepFile
    /\ UNCHANGED <<up, mem, crashes>>

\* A cancelled turn leaves the rest of its batch without results.
Cancel ==
    /\ up /\ todo # <<>> /\ Head(todo).role = "tool"
    /\ todo' = <<>>
    /\ KeepFile
    /\ UNCHANGED <<up, mem, serial, crashes>>
-----------------------------------------------------------------------------
(* The process stops: it is killed, or the session is evicted.  A machine that
   crashes also loses an unsynced suffix of the file and may tear a line. *)

Torn(n) ==
    IF n = Len(lines) THEN {<<>>, tail} ELSE {<<>>, <<Junk>>, <<lines[n + 1]>>}

Crash ==
    /\ up /\ crashes < MaxCrashes
    /\ crashes' = crashes + 1
    /\ up' = FALSE /\ mem' = <<>> /\ todo' = <<>>
    /\ \/ KeepFile
       \/ /\ MachineCrashes
          /\ \E n \in synced..Len(lines) :
                lines' = SubSeq(lines, 1, n) /\ tail' \in Torn(n)
          /\ UNCHANGED synced
    /\ UNCHANGED serial

Next ==
    \/ Load \/ AppendNext \/ EnsureSystemPrompt \/ SendUser
    \/ \E n \in 0..MaxBatch : ModelStep(n)
    \/ Cancel \/ Crash

Spec == Init /\ [][Next]_vars
-----------------------------------------------------------------------------
(* Properties. *)

\* "keeps memory and disk in lockstep - a failed Append leaves both empty of m":
\* what a restart would read is what the session holds (Append, Replace).
Lockstep == up => Parse(lines, tail) = mem

\* Every call is followed by exactly one result per id, and no result is stray.
Paired(m) ==
    /\ \A j \in 1..Len(m) : ~Stray(m, j)
    /\ \A i \in 1..Len(m) :
          /\ \A id \in Range(m[i].calls) :
                Cardinality({j \in Window(m, i) : m[j].id = id}) = 1
          /\ \A j \in Window(m, i) : m[i].calls # <<>> => m[j].id \in Range(m[i].calls)

\* Whatever a crash, a torn line, a lost append or a cancelled batch left in the
\* file, a loaded session is structurally valid for the provider, and the
\* file says the same, so that the next resume sees a clean log (load,
\* repairToolCallPairs).
LoadRecovers ==
    ~up /\ up' => Paired(mem') /\ Parse(lines', tail') = mem'

Serials(m) == {m[i].serial : i \in 1..Len(m)} \ {0}

\* The repair loses nothing a model or user wrote and invents no result: every
\* message that was readable is there afterwards, in the same order unless it
\* became a note, and a result that was there is not replaced by a placeholder.
RepairKeepsAll ==
    ~up /\ up' =>
     LET old == Parse(lines, tail)
         solid(m) == SelectSeq(m, LAMBDA x : x.role # "note" /\ x.serial > 0)
         noted == {m \in Range(mem') : m.role = "note"}
     IN  /\ Serials(mem') = Serials(old)
         /\ solid(mem') = SelectSeq(solid(old), LAMBDA x :
               ~\E m \in noted : m.serial = x.serial)

\* The model never sees the runtime context of an earlier turn, also when a crash
\* or a failed append left some behind: the log holds at most the context of
\* one turn (PruneTransientContext).
OneContext == Cardinality({i \in 1..Len(mem) : mem[i].role = "context"}) <= 1
=============================================================================
