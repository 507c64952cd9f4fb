---------------------------- MODULE ResponseCache ----------------------------
(***************************************************************************)
(* FileResponseCache (extras/browser/cache.go): one URL's pair of files,   *)
(* the body and the meta with its fetch time.  Writers hold the mutex and  *)
(* write the body, then the meta, each by rename.  Readers take no lock    *)
(* and read the meta, then the body.  The sweeper removes expired pairs.   *)
(* URLs share nothing but the mutex; one of them shows every race.         *)
(*                                                                         *)
(* A response is named by the writer that fetched it; the files hold names *)
(* and the time of the fetch.                                              *)
(***************************************************************************)
EXTENDS Integers, FiniteSets

CONSTANTS Writers,    \* cache observers' goroutines, each with one response
          Readers,    \* requests that ask the cache
          TTL,        \* ttl > 0
          MaxTime,    \* bound on the clock
          Overlap,    \* BOOLEAN: writers of the URL may run at the same time
          Faults      \* BOOLEAN: failed writes, damaged metas and crashes

ResponseCacheAssumption ==
    /\ TTL \in Nat \ {0} /\ MaxTime \in Nat
    /\ {Overlap, Faults} \subseteq BOOLEAN

None == "none"

VARIABLES now,
          meta,       \* [of, at, mtime]; of = None when there is no file
          body,       \* the response in the body file, or None
          mu,         \* who holds the mutex, or None
          fetched,    \* the time of each response's fetch, -1 before it
          writer,     \* each writer: idle, waiting, body, meta, done
          reader,     \* each reader: idle, body (meta read), done
          seen,       \* the meta each reader took, and when it checked it
          served,     \* the pairs of responses handed to the browser
          sweep,      \* idle, look, remove, removeBody
          cutoff      \* now - ttl when the sweeper looked

vars == <<now, meta, body, mu, fetched, writer, reader, seen, served, sweep, cutoff>>

NoMeta == [of |-> None, at |-> -1, mtime |-> -1]

Init ==
    /\ now = 0 /\ meta = NoMeta /\ body = None /\ mu = None
    /\ fetched = [w \in Writers |-> -1]
    /\ writer = [w \in Writers |-> "idle"]
    /\ reader = [r \in Readers |-> "idle"]
    /\ seen = [r \in Readers |-> [meta |-> NoMeta, at |-> 0]]
    /\ served = {} /\ sweep = "idle" /\ cutoff = -1

Tick == now < MaxTime /\ now' = now + 1
        /\ UNCHANGED <<meta, body, mu, fetched, writer, reader, seen, served, sweep, cutoff>>

readers == <<reader, seen, served>>

sweeper == <<sweep, cutoff>>

(***************************************************************************)
(* PutResult.                                                              *)
(***************************************************************************)
\* Statuses from 400, challenge pages and oversize bodies are not stored.
\* FetchedAt is set before the mutex is taken.
PutStart(w, storable) ==
    /\ writer[w] = "idle"
    /\ Overlap \/ \A v \in Writers : writer[v] \in {"idle", "done"}
    /\ writer' = [writer EXCEPT ![w] = IF storable THEN "waiting" ELSE "done"]
    /\ fetched' = [fetched EXCEPT ![w] = now]
    /\ UNCHANGED <<now, meta, body, mu, readers, sweeper>>

PutLock(w) ==
    /\ writer[w] = "waiting" /\ mu = None
    /\ mu' = w /\ writer' = [writer EXCEPT ![w] = "body"]
    /\ UNCHANGED <<now, meta, body, fetched, readers, sweeper>>

Release(w) == mu' = IF mu = w THEN None ELSE mu

MetaOf(w) == [of |-> w, at |-> fetched[w], mtime |-> now]

PutBody(w) ==
    /\ writer[w] = "body"
    /\ body' = w /\ writer' = [writer EXCEPT ![w] = "meta"]
    /\ UNCHANGED <<now, meta, mu, fetched, readers, sweeper>>

PutMeta(w) ==
    /\ writer[w] = "meta"
    /\ meta' = MetaOf(w)
    /\ writer' = [writer EXCEPT ![w] = "done"] /\ Release(w)
    /\ UNCHANGED <<now, body, fetched, readers, sweeper>>

\* Either write fails: the other file stays as it is.
PutFails(w) ==
    /\ Faults /\ writer[w] \in {"body", "meta"}
    /\ writer' = [writer EXCEPT ![w] = "done"] /\ Release(w)
    /\ UNCHANGED <<now, meta, body, fetched, readers, sweeper>>

(***************************************************************************)
(* Get.                                                                    *)
(***************************************************************************)
Expired(at, t) == t - at > TTL

GetMeta(r) ==
    /\ reader[r] = "idle"
    /\ LET hit == meta.of # None /\ meta.of # "damaged" /\ ~Expired(meta.at, now) IN
         reader' = [reader EXCEPT ![r] = IF hit THEN "body" ELSE "done"]
    /\ seen' = [seen EXCEPT ![r] = [meta |-> meta, at |-> now]]
    /\ UNCHANGED <<now, meta, body, mu, fetched, writer, served, sweeper>>

GetBody(r) ==
    /\ reader[r] = "body"
    /\ reader' = [reader EXCEPT ![r] = "done"]
    /\ served' = IF body = None THEN served
                 ELSE served \cup {[head |-> seen[r].meta.of, body |-> body, at |-> seen[r].at]}
    /\ UNCHANGED <<now, meta, body, mu, fetched, writer, seen, sweeper>>

\* A later request of the same session.
Again(r) ==
    /\ reader[r] = "done" /\ reader' = [reader EXCEPT ![r] = "idle"]
    /\ UNCHANGED <<now, meta, body, mu, fetched, writer, seen, served, sweeper>>

(***************************************************************************)
(* sweepOne.  Only *.meta.json files are visited.                          *)
(***************************************************************************)
SweepLook ==
    /\ sweep = "idle"
    /\ cutoff' = now - TTL
    /\ sweep' = IF meta.of = None \/ meta.mtime > now - TTL THEN "idle" ELSE "look"
    /\ UNCHANGED <<now, meta, body, mu, fetched, writer, readers>>

SweepVerifyMutant ==
    /\ sweep = "look" /\ mu = None
    /\ meta' = NoMeta /\ mu' = "sweeper" /\ sweep' = "removeBody"
    /\ UNCHANGED <<now, body, fetched, writer, readers, cutoff>>

\* Under the mutex the meta is looked at again; a damaged one is removed
\* alone, an expired one with its body.
SweepVerify ==
    /\ sweep = "look" /\ mu = None
    /\ IF meta.of = None \/ meta.mtime > cutoff \/ (meta.of # "damaged" /\ meta.at > cutoff)
       THEN sweep' = "idle" /\ UNCHANGED <<meta, mu>>
       ELSE /\ meta' = NoMeta
            /\ IF meta.of = "damaged" THEN sweep' = "idle" /\ UNCHANGED mu
               ELSE sweep' = "removeBody" /\ mu' = "sweeper"
    /\ UNCHANGED <<now, body, fetched, writer, readers, cutoff>>

SweepBody ==
    /\ sweep = "removeBody"
    /\ body' = None /\ mu' = None /\ sweep' = "idle"
    /\ UNCHANGED <<now, meta, fetched, writer, readers, cutoff>>

(***************************************************************************)
(* The process dies and comes back: the files stay, nothing else does.     *)
(* A disk fault leaves a meta that does not decode.                        *)
(***************************************************************************)
Crash ==
    /\ Faults /\ mu # None
    /\ mu' = None /\ sweep' = "idle"
    /\ writer' = [w \in Writers |-> IF writer[w] = "idle" THEN "idle" ELSE "done"]
    /\ reader' = [r \in Readers |-> "idle"]
    /\ UNCHANGED <<now, meta, body, fetched, seen, served, cutoff>>

Damage ==
    /\ Faults /\ meta.of \in Writers
    /\ meta' = [meta EXCEPT !.of = "damaged"]
    /\ UNCHANGED <<now, body, mu, fetched, writer, readers, sweeper>>

Put(w) == PutLock(w) \/ PutBody(w) \/ PutMeta(w)

Get(r) == GetMeta(r) \/ GetBody(r)

Sweep == SweepLook \/ SweepVerify \/ SweepBody

Next ==
    \/ Tick
    \/ \E w \in Writers : Put(w) \/ PutFails(w) \/ \E s \in BOOLEAN : PutStart(w, s)
    \/ \E r \in Readers : Get(r) \/ Again(r)
    \/ Sweep \/ Crash \/ Damage

Spec == Init /\ [][Next]_vars

\* The sweeper's ticker and the holder of the mutex go on; time passes.
FairSpec ==
    /\ Spec /\ WF_vars(Tick) /\ WF_vars(SweepLook) /\ SF_vars(SweepVerify) /\ WF_vars(SweepBody)
    /\ \A w \in Writers : WF_vars(PutBody(w)) /\ WF_vars(PutMeta(w)) /\ SF_vars(PutLock(w))

-----------------------------------------------------------------------------
\* "the TTL gate stays honest": no body older than the TTL is served, also
\* when the meta read with it belongs to another response.
TtlHonest == \A s \in served : ~Expired(fetched[s.body], s.at)

\* Once nobody writes, the two files are of one response: a mixed read can
\* only happen during a Put ("the worst observable case is one stale-headers
\* read").
PairSettles == mu = None /\ meta.of \in Writers => body = meta.of

\* "a concurrent Put cannot have its just-written file deleted by a Sweep that
\* decided stale against the old content".
FreshKept ==
    meta.of \in Writers /\ meta' = NoMeta => meta.at <= now - TTL

\* "actually delete expired entries from disk so the cache doesn't grow
\* without bound": a body is not left behind for good.
NoBodyLeft == [](body # None => <>(body = None \/ meta.of # None))

\* A pair that has expired is removed once no one writes it any more.
Stale == meta.of \in Writers /\ meta.mtime <= MaxTime - TTL

ExpiredRemoved == Stale ~> ~Stale
==============================================================================
