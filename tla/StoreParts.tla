------------------------------ MODULE StoreParts ------------------------------
(***************************************************************************)
(* The stores that StoreParts_proofs is about, side by side: their         *)
(* variables and constants under their own names, two of them that have a  *)
(* name in common sharing it. What MCStores gives a store in one scene and *)
(* not in another is a parameter of the store.                             *)
(***************************************************************************)
EXTENDS Integers, Sequences

CONSTANTS MaxEvents, Buffer, PageLimit                  \* EventStream
CONSTANTS Retention, MaxTurns                           \* SessionFiles
CONSTANTS MaxCreated, MaxSchedules, Intervals, RetryDelay, Horizon, MaxEdits \* Schedules
CONSTANTS Core, General, Migrations, Deaths, CharLimit, MaxTopics \* MemoryStore
CONSTANTS Ensurers, MaxKeys                             \* Accounts

VARIABLES
    file, open, session, up, nextLine, stuck, event, sending, pc, holds,
    channel, closed, replay, cursor, last, seen, joined, dropped, connects,
    edits, dir, conv, evs, inode, fresh, current, opened, mem, trace, turn,
    held, turns, editing, sweeping, purged, crashes, created, now, sweep,
    claims, events, active, ending, loopOn, done, legacy, lockAt, inodes,
    holder, store, saved, mu, raw, born, faults, made, doc, st, torn, job,
    answered, owed

\* events.jsonl and the stream of events.
Ev(MaxOpens, MaxConnects, MaxRewrites, WriteFaults) == INSTANCE EventStream

\* The directory of a session.
Dir(MaxObjects, MaxMessages, MaxCrashes, Texts, Stragglers, Drift) == INSTANCE SessionFiles

\* Session schedules.
Sched == INSTANCE Schedules

\* Memory topics.
Mem(Stores, Topics, Contents, Ops, MaxInodes) == INSTANCE MemoryStore

\* The account's SSH key.
Key(Readers, Legacy, Failures, Crashes) == INSTANCE Accounts

\* LOOP.md, state.json and events of a loop.
Proto(TurnOps, HttpOps, Overlap, Crashes, MaxLines, MaxFeeds) == INSTANCE LoopProtocol
===============================================================================
