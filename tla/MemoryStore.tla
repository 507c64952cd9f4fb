----------------------------- MODULE MemoryStore -----------------------------
(***************************************************************************)
(* FileMemoryStore: memory entries in one file per topic, shared by        *)
(* several stores (processes, or sessions of one server).  A store does    *)
(* one operation at a time (its mutex).  Between stores a mutation is      *)
(* guarded by flock(2) on the side file "<path>.lock": the lock belongs to *)
(* the file that was opened (an inode), not to its name, and Remove of the *)
(* last entry also removes the name.                                       *)
(*                                                                         *)
(* A bucket is the sequence of its entries; a file without entries does    *)
(* not exist.  An entry is its normalised content, named by its length.    *)
(***************************************************************************)
EXTENDS Integers, Sequences, FiniteSets, Functions

CONSTANTS
    Stores,         \* the stores that share the memory directory
    Topics,         \* topic names; Core and General may be among them
    Core, General,
    Contents,       \* what an entry may say, each named by its length
    Ops,            \* the operations in use
    Migrations,     \* may the directory hold a file of the old layout
    Deaths,         \* may a store's process die
    CharLimit,      \* limitFor
    MaxTopics,      \* topicCountLimit
    MaxInodes       \* bound on the lock files ever created

None == "none"

MemoryBounds ==
    /\ CharLimit \in Nat /\ MaxTopics \in Nat \ {0} /\ MaxInodes \in Nat
    /\ Contents \subseteq Nat \ {0}
    /\ IsFiniteSet(Topics) /\ General \in Topics /\ General # Core
    /\ None \notin Stores

VARIABLES
    file,       \* the entries of each topic file
    legacy,     \* the entries of MEMORY.md, the old layout
    lockAt,     \* the lock file each name leads to now; 0: no such name
    inodes,     \* lock files created so far
    holder,     \* the store that holds the flock of a lock file
    store,      \* where each store is in its operation
    saved       \* history: the entries a store confirmed, by topic

vars == <<file, legacy, lockAt, inodes, holder, store, saved>>

Delim == 3      \* len(memoryEntryDelim)

Idle == [pc |-> "idle", op |-> None, t |-> General, old |-> 0, new |-> 0,
         inode |-> 0, snap |-> <<>>]
Fresh == [Idle EXCEPT !.pc = "fresh"]

fileExists(t) == file[t] # <<>>

-----------------------------------------------------------------------------
(* What a mutation computes from the entries it reads.                     *)

\* The characters of the entries, each by its entry and its place there.
chars(es) == UNION {{i} \X (1 .. es[i]) : i \in DOMAIN es}

joinedLen(es) ==
    IF es = <<>> THEN 0 ELSE Cardinality(chars(es)) + Delim * (Len(es) - 1)

Has(es, x) == \E i \in DOMAIN es : es[i] = x

\* A duplicate is kept out and an addition past the limit refused.
Added(es, x) ==
    IF Has(es, x) \/ joinedLen(es \o <<x>>) > CharLimit THEN es ELSE es \o <<x>>

\* findUnique: contents are distinct, so an old text names one entry.
findUnique(es, x) == CHOOSE i \in DOMAIN es : es[i] = x

\* The entries less one.
without(es, i) ==
    [k \in 1 .. (Len(es) - 1) |-> IF k < i THEN es[k] ELSE es[k + 1]]

Removed(es, x) == IF Has(es, x) THEN without(es, findUnique(es, x)) ELSE es

\* A replacement that another entry already says removes the old one.
Replaced(es, x, y) ==
    LET i    == findUnique(es, x)
        next == [es EXCEPT ![i] = y]
    IN IF ~Has(es, x) THEN es
       ELSE IF \E k \in DOMAIN es : k # i /\ es[k] = y THEN without(es, i)
       ELSE IF joinedLen(next) > CharLimit THEN es
       ELSE next

Mutated(s, es) ==
    CASE s.op = "add"     -> Added(es, s.new)
      [] s.op = "replace" -> Replaced(es, s.old, s.new)
      [] s.op = "remove"  -> Removed(es, s.old)

-----------------------------------------------------------------------------
topicCount == Cardinality({t \in Topics \ {Core} : fileExists(t)})

\* migrateLegacyLocked, the first time a store is used: MEMORY.md becomes the
\* general topic unless there is one.
migrateLegacyLocked(p) ==
    /\ store[p].pc = "fresh"
    /\ store' = [store EXCEPT ![p] = Idle]
    /\ IF legacy # <<>> /\ ~fileExists(General)
       THEN file' = [file EXCEPT ![General] = legacy] /\ legacy' = <<>>
       ELSE UNCHANGED <<file, legacy>>
    /\ UNCHANGED <<lockAt, inodes, holder, saved>>

Begin(p, op, t, old, new) ==
    /\ op \in Ops
    /\ store[p].pc = "idle"
    /\ store' = [store EXCEPT ![p] =
          [Idle EXCEPT !.pc = "open", !.op = op, !.t = t, !.old = old, !.new = new]]
    /\ UNCHANGED <<file, legacy, lockAt, inodes, holder, saved>>

RoomForTopic(t) == t = Core \/ fileExists(t) \/ topicCount < MaxTopics

StartAdd(p) ==
    \E t \in Topics, x \in Contents :
        RoomForTopic(t) /\ Begin(p, "add", t, 0, x)

\* ReplaceWithMetadata and Remove stop early when the topic does not exist.
StartReplace(p) ==
    \E t \in Topics, x, y \in Contents :
        fileExists(t) /\ Begin(p, "replace", t, x, y)

StartRemove(p) ==
    \E t \in Topics, x \in Contents :
        fileExists(t) /\ Begin(p, "remove", t, x, 0)

\* lockFile opens the side file, creating it if the name is free ...
OpenLock(p) ==
    LET t == store[p].t
    IN /\ store[p].pc = "open"
       /\ IF lockAt[t] # 0
          THEN /\ store' = [store EXCEPT ![p] =
                [store[p] EXCEPT !.pc = "flock", !.inode = lockAt[t]]]
               /\ UNCHANGED <<lockAt, inodes>>
          ELSE /\ inodes < MaxInodes
               /\ inodes' = inodes + 1
               /\ lockAt' = [lockAt EXCEPT ![t] = inodes + 1]
               /\ store' = [store EXCEPT ![p] =
                [store[p] EXCEPT !.pc = "flock", !.inode = inodes + 1]]
       /\ UNCHANGED <<file, legacy, holder, saved>>

\* Mutant: the result of the lock call is not looked at.
FlockMutant(p) ==
    /\ store[p].pc = "flock"
    /\ holder' = [holder EXCEPT ![store[p].inode] = p]
    /\ store' = [store EXCEPT ![p] = [store[p] EXCEPT !.pc = "read"]]
    /\ UNCHANGED <<file, legacy, lockAt, inodes, saved>>

\* ... and waits for the exclusive lock of what it opened.
Flock(p) ==
    /\ store[p].pc = "flock"
    /\ holder[store[p].inode] = None
    /\ holder' = [holder EXCEPT ![store[p].inode] = p]
    /\ store' = [store EXCEPT ![p] = [store[p] EXCEPT !.pc = "read"]]
    /\ UNCHANGED <<file, legacy, lockAt, inodes, saved>>

readMemoryFile(p) ==
    /\ store[p].pc = "read"
    /\ store' = [store EXCEPT ![p] =
          [store[p] EXCEPT !.pc = "write", !.snap = file[store[p].t]]]
    /\ UNCHANGED <<file, legacy, lockAt, inodes, holder, saved>>

\* The entries a store has confirmed: the one it wrote, less the one it was
\* asked to drop.
Confirm(s, new) ==
    saved' = [saved EXCEPT ![s.t] =
                (saved[s.t] \ (IF new # s.snap THEN {s.old} ELSE {})) \cup ({s.new} \cap Range(new))]

\* writeMemoryFile, by a rename; the last entry takes the file with it.
writeMemoryFile(p) ==
    LET s   == store[p]
        new == Mutated(s, s.snap)
    IN /\ s.pc = "write"
       /\ file' = IF new = s.snap THEN file ELSE [file EXCEPT ![s.t] = new]
       /\ Confirm(s, new)
       /\ store' = [store EXCEPT ![p] = [s EXCEPT !.pc =
             IF new = <<>> /\ s.snap # <<>> THEN "unlink" ELSE "unlock"]]
       /\ UNCHANGED <<legacy, lockAt, inodes, holder>>

\* Remove of the last entry takes the name of the lock file away, held or not.
RemoveLockFile(p) ==
    /\ store[p].pc = "unlink"
    /\ lockAt' = [lockAt EXCEPT ![store[p].t] = 0]
    /\ store' = [store EXCEPT ![p] = [store[p] EXCEPT !.pc = "unlock"]]
    /\ UNCHANGED <<file, legacy, inodes, holder, saved>>

Release(p) == holder' = [i \in DOMAIN holder |-> IF holder[i] = p THEN None ELSE holder[i]]

Unlock(p) ==
    /\ store[p].pc = "unlock"
    /\ Release(p)
    /\ store' = [store EXCEPT ![p] = Idle]
    /\ UNCHANGED <<file, legacy, lockAt, inodes, saved>>

\* flock is released when its process exits.
Crash(p) ==
    /\ Deaths
    /\ store[p].pc \notin {"idle", "fresh"}
    /\ Release(p)
    /\ store' = [store EXCEPT ![p] = Fresh]
    /\ UNCHANGED <<file, legacy, lockAt, inodes, saved>>

-----------------------------------------------------------------------------
\* An old MEMORY.md kept to the core limit, which is below a topic's.
Init ==
    /\ file = [t \in Topics |-> <<>>]
    /\ legacy \in {<<>>} \cup (IF Migrations THEN {<<x>> : x \in Contents \cap (1 .. CharLimit)} ELSE {})
    /\ lockAt = [t \in Topics |-> 0]
    /\ inodes = 0
    /\ holder = [i \in 1 .. MaxInodes |-> None]
    /\ store = [p \in Stores |-> Fresh]
    /\ saved = [t \in Topics |-> IF t = General THEN Range(legacy) ELSE {}]

Steps(p) ==
    \/ migrateLegacyLocked(p) \/ OpenLock(p) \/ readMemoryFile(p)
    \/ writeMemoryFile(p) \/ RemoveLockFile(p) \/ Unlock(p)

Next ==
    \E p \in Stores :
        \/ StartAdd(p) \/ StartReplace(p) \/ StartRemove(p)
        \/ Flock(p) \/ Steps(p) \/ Crash(p)

Spec == Init /\ [][Next]_vars

\* A store runs on until it returns; the kernel hands a contended lock to
\* every waiter in turn.  A store may stop asking, or crash.
FairSpec == Spec /\ \A p \in Stores : WF_vars(Steps(p)) /\ SF_vars(Flock(p))

-----------------------------------------------------------------------------
\* The stores serialise their read-modify-write cycles: between reading a
\* topic's file and writing it back, no other store reads or writes it
\* (lockFile of internal/memory/flock_unix.go).
Serialised ==
    \A p, r \in Stores :
        p # r /\ store[p].t = store[r].t
          => ~(store[p].pc \in {"read", "write"} /\ store[r].pc \in {"read", "write"})

\* What a store has confirmed stays on disk until someone replaces or removes
\* it: no interleaving of two stores and no crash loses an entry.
NothingLost ==
    \A t \in Topics :
        saved[t] \subseteq Range(file[t])
                           \cup (IF t = General THEN Range(legacy) ELSE {})

\* Whatever was replaced or merged, a topic says nothing twice and keeps to
\* its character limit.
BucketsTidy ==
    \A t \in Topics :
        /\ \A i, j \in DOMAIN file[t] : i # j => file[t][i] # file[t][j]
        /\ file[t] # <<>> => joinedLen(file[t]) <= CharLimit

\* The number of topics stays within the cap that every addition checks.
TopicCap == topicCount <= MaxTopics

\* A store that waits for a lock gets it or dies, also when the holder dies.
Waits(p) == store[p].pc = "flock"

WaiterServed == \A p \in Stores : Waits(p) ~> ~Waits(p)
=============================================================================
