---------------------------- MODULE SessionFiles ----------------------------
(***************************************************************************)
(* The durable directory of one session id and everything that touches it: *)
(* GetOrCreate and eviction (cmd/affentserve/sessions.go), DELETE, the     *)
(* retention sweep, message edits (session_message_edit.go), workbench     *)
(* commands (session_commands.go), and the session objects that outlive    *)
(* their place in the pool and still append by path.                       *)
(*                                                                         *)
(* conversation.jsonl is a sequence of messages, events.jsonl a sequence   *)
(* with one entry for the events of each turn.  Objects of the id are      *)
(* numbered; an object's trace file is the inode it opened.                *)
(***************************************************************************)
EXTENDS Integers, Sequences, FiniteSets

CONSTANTS
    MaxObjects,  \* bound: session objects of the id
    MaxTurns,    \* bound: turns
    MaxMessages, \* bound: length of the conversation
    MaxCrashes,  \* bound: crashes in the middle of an edit
    Texts,       \* what users write
    Stragglers,  \* a handler or a turn may outlive its session object
    Drift,       \* ways the two logs count user messages differently
    Retention    \* does the retention sweep run

Drifts == {"prompt", "command", "compact"}

SessionFilesAssumption ==
    /\ {MaxObjects, MaxTurns, MaxMessages, MaxCrashes} \subseteq Nat
    /\ {"command", "prompt"} \cap Texts = {}
    /\ Stragglers \in BOOLEAN /\ Retention \in BOOLEAN
    /\ Drift \subseteq Drifts

Objects == 1..MaxObjects
None == 0

VARIABLES
    dir,      \* does the directory exist
    conv,     \* conversation.jsonl
    evs,      \* events.jsonl
    inode,    \* identity of events.jsonl
    fresh,    \* is conversation.jsonl younger than the retention
    current,  \* the object in pool.sessions, or None
    opened,   \* objects made
    mem,      \* Conversation.messages of an object
    trace,    \* the inode an object records to
    turn,     \* the turn an object runs, or None
    held,     \* objects that a handler got and will send to
    turns,    \* turns started
    editing,  \* the edit that holds the pool lock: the turn it cuts, a set
    sweeping, \* the sweep found the file old
    purged,   \* turns started before the last DELETE
    crashes

vars == <<dir, conv, evs, inode, fresh, current, opened, mem, trace, turn,
          held, turns, editing, sweeping, purged, crashes>>

\* role "user" messages carry the text and turn, "reply" stands for what the
\* model and the tools add.
Message == [role : {"user", "reply"}, turn : 0..MaxTurns,
            text : Texts \cup {"prompt"}]
Entry == [turn : 1..MaxTurns, text : Texts \cup {"command"}]

TypeOK ==
    /\ dir \in BOOLEAN /\ conv \in Seq(Message) /\ evs \in Seq(Entry)
    /\ inode \in Nat /\ fresh \in BOOLEAN
    /\ current \in Objects \cup {None} /\ opened \in 0..MaxObjects
    /\ mem \in [Objects -> Seq(Message)] /\ trace \in [Objects -> Nat]
    /\ turn \in [Objects -> 0..MaxTurns] /\ held \subseteq Objects
    /\ turns \in 0..MaxTurns /\ editing \subseteq 1..MaxTurns
    /\ sweeping \in BOOLEAN /\ purged \subseteq 1..MaxTurns
    /\ crashes \in 0..MaxCrashes

Init ==
    /\ dir = FALSE /\ conv = <<>> /\ evs = <<>> /\ inode = 0 /\ fresh = FALSE
    /\ current = None /\ opened = 0
    /\ mem = [o \in Objects |-> <<>>] /\ trace = [o \in Objects |-> 0]
    /\ turn = [o \in Objects |-> None] /\ held = {} /\ turns = 0
    /\ editing = {} /\ sweeping = FALSE /\ purged = {} /\ crashes = 0

Unlocked == editing = {}
-----------------------------------------------------------------------------
(* The pool. *)

\* GetOrCreate of a handler: the object in the pool, or a new one built from the
\* directory.
GetOrCreate ==
    /\ Unlocked
    /\ \/ /\ current # None
          /\ held' = held \cup {current}
          /\ UNCHANGED <<dir, fresh, current, opened, mem, trace>>
       \/ /\ current = None /\ opened < MaxObjects
          /\ opened' = opened + 1
          /\ current' = opened'
          /\ dir' = TRUE
          /\ fresh' = (fresh \/ ~dir)
          /\ mem' = [mem EXCEPT ![opened'] = conv]
          /\ trace' = [trace EXCEPT ![opened'] = inode]
          /\ held' = held \cup {opened'}
    /\ UNCHANGED <<conv, evs, inode, turn, turns, editing, sweeping, purged,
                   crashes>>

\* A handler that returns without sending.
Release(o) ==
    /\ o \in held
    /\ held' = held \ {o}
    /\ UNCHANGED <<dir, conv, evs, inode, fresh, current, opened, mem, trace,
                   turn, turns, editing, sweeping, purged, crashes>>

\* What leaves the pool has no handler and no turn, unless stragglers exist.
MayStraggle(o) == Stragglers \/ (o \notin held /\ turn[o] = None)

\* Idle and LRU eviction, shutdown.
Evict ==
    /\ Unlocked
    /\ current # None /\ turn[current] = None
    /\ MayStraggle(current)
    /\ current' = None
    /\ UNCHANGED <<dir, conv, evs, inode, fresh, opened, mem, trace, turn,
                   held, turns, editing, sweeping, purged, crashes>>

\* os.RemoveAll of the directory.
RemoveAll ==
    /\ dir' = FALSE /\ conv' = <<>> /\ evs' = <<>>
    /\ inode' = inode + 1 /\ fresh' = FALSE

\* Delete: evictLocked cancels the turn without waiting for it, and the
\* directory goes under the same lock.
Delete ==
    /\ Unlocked
    /\ dir
    /\ current # None => MayStraggle(current)
    /\ current' = None
    /\ RemoveAll
    /\ purged' = 1..turns
    /\ UNCHANGED <<opened, mem, trace, turn, held, turns, editing, sweeping,
                   crashes>>
-----------------------------------------------------------------------------
(* Turns. *)

\* Conversation.Append: by path, creating the file but not the directory.
Append1(o, m) ==
    /\ dir
    /\ Len(conv) < MaxMessages
    /\ conv' = Append(conv, m)
    /\ mem' = [mem EXCEPT ![o] = Append(@, m)]
    /\ fresh' = TRUE

\* The fanout of an object in the pool records to the inode it opened; that of
\* a closed object is gone.
Records(o, e) ==
    evs' = IF o = current /\ trace[o] = inode THEN Append(evs, e) ELSE evs

\* SendUserWithOptions does not look whether the session was closed meanwhile.
SendUser(o, text) ==
    /\ o \in held /\ turn[o] = None /\ turns < MaxTurns
    /\ held' = held \ {o}
    /\ turns' = turns + 1
    /\ turn' = [turn EXCEPT ![o] = turns']
    /\ Append1(o, [role |-> "user", turn |-> turns', text |-> text])
    /\ Records(o, [turn |-> turns', text |-> text])
    /\ UNCHANGED <<dir, inode, current, opened, trace, editing, sweeping,
                   purged, crashes>>

\* The same in a directory that is gone: the append fails and with it the turn.
SendFails(o) ==
    /\ o \in held /\ turn[o] = None /\ ~dir
    /\ held' = held \ {o}
    /\ UNCHANGED <<dir, conv, evs, inode, fresh, current, opened, mem, trace,
                   turn, turns, editing, sweeping, purged, crashes>>

\* The model's and the tools' messages of a running turn.
Reply(o) ==
    /\ turn[o] # None
    /\ Append1(o, [role |-> "reply", turn |-> turn[o], text |-> "prompt"])
    /\ UNCHANGED <<dir, evs, inode, current, opened, trace, turn, held, turns,
                   editing, sweeping, purged, crashes>>

\* A prompt of the runtime (appendCompletionGuardPrompt, runFinalNoToolsStep): a
\* user message without an event.
Prompt(o) ==
    /\ "prompt" \in Drift
    /\ turn[o] # None
    /\ Append1(o, [role |-> "user", turn |-> turn[o], text |-> "prompt"])
    /\ UNCHANGED <<dir, evs, inode, current, opened, trace, turn, held, turns,
                   editing, sweeping, purged, crashes>>

\* A compaction in a running turn: older messages become one summary, a user
\* message without an event.
Compact(o) ==
    /\ "compact" \in Drift
    /\ turn[o] # None /\ dir
    /\ \E n \in 2..(Len(mem[o]) - 1) :
         LET summary == [role |-> "user", turn |-> 0, text |-> "prompt"]
             kept == <<summary>> \o SubSeq(mem[o], n + 1, Len(mem[o]))
         IN  conv' = kept /\ mem' = [mem EXCEPT ![o] = kept]
    /\ fresh' = TRUE
    /\ UNCHANGED <<dir, evs, inode, current, opened, trace, turn, held, turns,
                   editing, sweeping, purged, crashes>>

\* The turn ends, completed or cancelled.
EndTurn(o) ==
    /\ turn[o] # None
    /\ turn' = [turn EXCEPT ![o] = None]
    /\ UNCHANGED <<dir, conv, evs, inode, fresh, current, opened, mem, trace,
                   held, turns, editing, sweeping, purged, crashes>>

\* RunWorkbenchCommand: a turn with events and no message.
Command(o) ==
    /\ "command" \in Drift
    /\ o \in held /\ o = current /\ turn[o] = None /\ turns < MaxTurns
    /\ held' = held \ {o}
    /\ turns' = turns + 1
    /\ Records(o, [turn |-> turns', text |-> "command"])
    /\ UNCHANGED <<dir, conv, inode, fresh, current, opened, mem, trace, turn,
                   editing, sweeping, purged, crashes>>
-----------------------------------------------------------------------------
(* truncateSessionForMessageEdit. *)

\* Positions of the user messages of a conversation.
Users(c) == {i \in 1..Len(c) : c[i].role = "user"}

\* sessionEditCutFromEvents: where the turn's events begin, which is also the
\* ordinal of its user message among the user.message events.
sessionEditCut(t) == {i \in 1..Len(evs) : evs[i].turn = t}

\* truncateConversationForMessageEdit: the user message with that ordinal, if
\* its text is the event's.
conversationCut(ordinal, text) ==
    {i \in Users(conv) :
       /\ Cardinality({j \in Users(conv) : j <= i}) = ordinal
       /\ conv[i].text = text}

EditKeepsSessionMutant(t) ==
    /\ Unlocked /\ dir
    /\ current # None => turn[current] = None /\ MayStraggle(current)
    /\ \E k \in sessionEditCut(t) :
         \E i \in conversationCut(k, evs[k].text) :
            conv' = SubSeq(conv, 1, i - 1)
    /\ editing' = {t}
    /\ fresh' = TRUE
    /\ UNCHANGED <<dir, evs, inode, current, opened, mem, trace, turn, held,
                   turns, sweeping, purged, crashes>>
\* The edit closes an idle session and replaces conversation.jsonl; it still
\* holds the pool lock.  A turn without events, or without a matching message,
\* is refused after the session was closed.
EditConversation(t) ==
    /\ Unlocked /\ dir
    /\ current # None => turn[current] = None /\ MayStraggle(current)
    /\ \E k \in sessionEditCut(t) :
         \E i \in conversationCut(k, evs[k].text) :
            conv' = SubSeq(conv, 1, i - 1)
    /\ current' = None
    /\ editing' = {t}
    /\ fresh' = TRUE
    /\ UNCHANGED <<dir, evs, inode, opened, mem, trace, turn, held, turns,
                   sweeping, purged, crashes>>

EditRefused(t) ==
    /\ Unlocked /\ dir
    /\ current # None => turn[current] = None /\ MayStraggle(current)
    /\ \A k \in sessionEditCut(t) : conversationCut(k, evs[k].text) = {}
    /\ current' = None
    /\ UNCHANGED <<dir, conv, evs, inode, fresh, opened, mem, trace, turn,
                   held, turns, editing, sweeping, purged, crashes>>

\* rewriteJSONLLines of events.jsonl, and the lock is released.
EditEvents ==
    /\ \E t \in editing : \E k \in sessionEditCut(t) : evs' = SubSeq(evs, 1, k - 1)
    /\ inode' = inode + 1
    /\ editing' = {}
    /\ UNCHANGED <<dir, conv, fresh, current, opened, mem, trace, turn, held,
                   turns, sweeping, purged, crashes>>

\* The process dies in the middle of an edit.
CrashInEdit ==
    /\ editing # {} /\ crashes < MaxCrashes
    /\ crashes' = crashes + 1
    /\ editing' = {}
    /\ turn' = [o \in Objects |-> None]
    /\ held' = {} /\ sweeping' = FALSE
    /\ UNCHANGED <<dir, conv, evs, inode, fresh, current, opened, mem, trace,
                   turns, purged>>
-----------------------------------------------------------------------------
(* sweepRetentionOnce. *)

\* Time passes.
Age ==
    /\ Retention
    /\ fresh
    /\ fresh' = FALSE
    /\ UNCHANGED <<dir, conv, evs, inode, current, opened, mem, trace, turn,
                   held, turns, editing, sweeping, purged, crashes>>

\* The file's age is read without the lock.
SweepStat ==
    /\ Retention /\ ~sweeping
    /\ dir /\ ~fresh
    /\ sweeping' = TRUE
    /\ UNCHANGED <<dir, conv, evs, inode, fresh, current, opened, mem, trace,
                   turn, held, turns, editing, purged, crashes>>

\* The check for a live session and the removal, under the lock.
SweepRemove ==
    /\ sweeping /\ Unlocked
    /\ sweeping' = FALSE
    /\ IF current = None THEN RemoveAll
       ELSE UNCHANGED <<dir, conv, evs, inode, fresh>>
    /\ UNCHANGED <<current, opened, mem, trace, turn, held, turns, editing,
                   purged, crashes>>

Next ==
    \/ GetOrCreate \/ Evict \/ Delete \/ EditEvents \/ CrashInEdit
    \/ Age \/ SweepStat \/ SweepRemove
    \/ \E o \in Objects :
         \/ Release(o) \/ SendFails(o) \/ Reply(o) \/ Prompt(o) \/ Compact(o)
         \/ EndTurn(o) \/ Command(o)
         \/ \E text \in Texts : SendUser(o, text)
    \/ \E t \in 1..turns : EditConversation(t) \/ EditRefused(t)

Spec == Init /\ [][Next]_vars
-----------------------------------------------------------------------------
(* Properties. *)

\* A session in the pool has its directory: neither the retention sweep nor a
\* DELETE takes it away under the session ("we'd then wipe the dir out from
\* under it", sessions.go).
PoolHasFiles == current # None => dir

\* The messages in memory of the session in the pool are those of its file
\* ("keeps memory and disk in lockstep", conversation.go), after any sequence of
\* evictions, edits, deletions and reopenings.
MemoryMatchesFile == current # None => mem[current] = conv

\* The model is never shown a turn that the event log, and with it the user's
\* history, does not have, in every state and so also in the one a crash between
\* the two rewrites of an edit leaves behind.
ModelSeesNoMore ==
    \A i \in 1..Len(conv) :
       conv[i].turn # 0 => \E k \in 1..Len(evs) : evs[k].turn = conv[i].turn

\* "Without the disk purge the very next GetOrCreate(id) would resurrect a zombie
\* session with all the old conv history" (Delete): nothing of a turn from before
\* the DELETE is in a later conversation.
DeleteIsFinal == \A i \in 1..Len(conv) : conv[i].turn \notin purged

\* An edit that is accepted removes the edited turn, the later ones, and no
\* earlier one ("conversation still contains discarded turn" is what
\* TestHandleSessionMessage_EditTurnTruncatesHistoryAndConversation refuses).
EditCutsTheTurn ==
    [][\A t \in 1..turns :
         EditConversation(t) =>
           \A i \in 1..Len(conv) :
             conv[i].turn # 0 =>
               (i <= Len(conv') <=> conv[i].turn < t)]_vars

\* The sweep removes "session dirs whose conversation.jsonl mtime ... is older
\* than the configured retention" (sessions.go), and no other.
SweepTakesOld == [][SweepRemove /\ dir /\ ~dir' => ~fresh]_vars
=============================================================================
