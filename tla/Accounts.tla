------------------------------- MODULE Accounts -------------------------------
(***************************************************************************)
(* The account's SSH key (cmd/affentserve/account_settings.go).  POST      *)
(* ensure makes a key pair, or completes one, under settingsMu.  Every     *)
(* read of the settings and every shell command that asks for              *)
(* GIT_SSH_COMMAND first moves a key from its legacy place, without the    *)
(* lock.  Files are created empty and then written; a write may fail.      *)
(*                                                                         *)
(* A file holds a key's number, Empty, or is Absent.  Converting a key to  *)
(* the OpenSSH format replaces the file by rename and keeps the key.       *)
(***************************************************************************)
EXTENDS Integers, FiniteSets

CONSTANTS Ensurers,   \* POST handlers of ensure
          Readers,    \* unlocked callers
          MaxKeys,    \* keys generated, and failures
          Legacy,     \* the legacy files at the start: "none", "private", "pair"
          Failures,   \* BOOLEAN: writes may fail
          Crashes     \* BOOLEAN: the process may die

AccountsAssumption ==
    /\ Ensurers \intersect Readers = {} /\ "none" \notin Ensurers
    /\ MaxKeys \in Nat /\ Legacy \in {"none", "private", "pair"}
    /\ {Failures, Crashes} \subseteq BOOLEAN

Absent == -1
Empty == 0
Actors == Ensurers \cup Readers

VARIABLES file,      \* priv, pub, oldPriv, oldPub
          mu,        \* holder of settingsMu
          pc, raw,   \* each actor's place, and what it read
          born,      \* keys that have existed
          faults,    \* failures and crashes so far
          made       \* public keys returned to a client as the account's

vars == <<file, mu, pc, raw, born, faults, made>>

Init ==
    /\ file = [priv |-> Absent, pub |-> Absent,
               oldPriv |-> IF Legacy = "none" THEN Absent ELSE 1,
               oldPub |-> IF Legacy = "pair" THEN 1 ELSE Absent]
    /\ mu = "none" /\ pc = [a \in Actors |-> "idle"] /\ raw = [a \in Actors |-> Absent]
    /\ born = IF Legacy = "none" THEN 0 ELSE 1
    /\ faults = 0 /\ made = {}

Whole(f) == file[f] > 0

Exists(f) == file[f] # Absent

Go(a, here, there) == pc[a] = here /\ pc' = [pc EXCEPT ![a] = there]

Set(f, v) == file' = [file EXCEPT ![f] = v]

Look == UNCHANGED <<file, raw, mu, born, faults, made>>

\* What follows the migration: ensure goes on, a reader is done.
Next1(a) == IF a \in Ensurers THEN "readPub" ELSE "idle"

Leave(a) == IF mu = a THEN mu' = "none" ELSE UNCHANGED mu

(***************************************************************************)
(* migrateLegacyAccountSSHKeyIfNeeded and copyFileIfMissing.               *)
(***************************************************************************)
Enter(a) ==
    /\ Go(a, "idle", "checkNew")
    /\ a \in Ensurers => mu = "none" /\ mu' = a
    /\ a \in Readers => UNCHANGED mu
    /\ UNCHANGED <<file, raw, born, faults, made>>

CheckNew(a) ==
    /\ Go(a, "checkNew", IF Exists("priv") THEN Next1(a) ELSE "checkOld")
    /\ Look

CheckOld(a) ==
    /\ Go(a, "checkOld", IF Exists("oldPriv") THEN "copyPriv" ELSE Next1(a))
    /\ Look

\* Lstat of the destination, then the read of the source: an error ends the
\* call, except that accountGitSSHCommand goes on without it.
Copy(a, here, src, dst, created, after) ==
    /\ pc[a] = here
    /\ IF Exists(dst) THEN pc' = [pc EXCEPT ![a] = after] /\ UNCHANGED <<raw, mu>>
       ELSE IF ~Exists(src) THEN pc' = [pc EXCEPT ![a] = "idle"] /\ Leave(a) /\ UNCHANGED raw
       ELSE /\ pc' = [pc EXCEPT ![a] = created] /\ raw' = [raw EXCEPT ![a] = file[src]]
            /\ UNCHANGED mu
    /\ UNCHANGED <<file, born, faults, made>>

\* writeNewFile: O_EXCL, then the content.
Create(a, here, f, there) ==
    /\ pc[a] = here
    /\ IF Exists(f) THEN pc' = [pc EXCEPT ![a] = "idle"] /\ Leave(a) /\ UNCHANGED file
       ELSE pc' = [pc EXCEPT ![a] = there] /\ Set(f, Empty) /\ UNCHANGED mu
    /\ UNCHANGED <<raw, born, faults, made>>

Write(a, here, f, there) ==
    /\ Go(a, here, there) /\ Set(f, raw[a])
    /\ UNCHANGED <<raw, mu, born, faults, made>>

\* The write fails: the file is removed and the call ends.
WriteFails(a, here, f, alsoPriv) ==
    /\ Failures /\ faults < MaxKeys /\ pc[a] = here
    /\ faults' = faults + 1
    /\ file' = [g \in DOMAIN file |->
                  IF g = f \/ (alsoPriv /\ g = "priv") THEN Absent ELSE file[g]]
    /\ pc' = [pc EXCEPT ![a] = "idle"] /\ Leave(a)
    /\ UNCHANGED <<raw, born, made>>

CopyPriv(a) == Copy(a, "copyPriv", "oldPriv", "priv", "createPriv", "copyPub")

CreatePriv(a) == Create(a, "createPriv", "priv", "writePriv")

WritePriv(a) ==
    \/ Write(a, "writePriv", "priv", "copyPub")
    \/ WriteFails(a, "writePriv", "priv", FALSE)

CopyPub(a) ==
    IF Exists("oldPub") THEN Copy(a, "copyPub", "oldPub", "pub", "createPub", "dropOld")
    ELSE Go(a, "copyPub", "dropOld") /\ Look

CreatePub(a) == Create(a, "createPub", "pub", "writePub")

WritePub(a) ==
    \/ Write(a, "writePub", "pub", "dropOld")
    \/ WriteFails(a, "writePub", "pub", FALSE)

\* The legacy files are removed.
DropOld(a) ==
    /\ Go(a, "dropOld", Next1(a))
    /\ file' = [file EXCEPT !.oldPub = Absent, !.oldPriv = Absent]
    /\ UNCHANGED <<raw, mu, born, faults, made>>

Migrate(a) ==
    \/ Enter(a) \/ CheckNew(a) \/ CheckOld(a)
    \/ CopyPriv(a) \/ CreatePriv(a) \/ WritePriv(a)
    \/ CopyPub(a) \/ CreatePub(a) \/ WritePub(a) \/ DropOld(a)

(***************************************************************************)
(* The rest of ensureAccountSSHKey.                                        *)
(***************************************************************************)
\* A public key that is there is the answer.
ReadPub(a) ==
    /\ pc[a] = "readPub"
    /\ IF Whole("pub")
       THEN /\ pc' = [pc EXCEPT ![a] = "idle"] /\ Leave(a)
            /\ made' = made \cup {file.pub}
       ELSE pc' = [pc EXCEPT ![a] = "checkPriv"] /\ UNCHANGED <<mu, made>>
    /\ UNCHANGED <<file, raw, born, faults>>

\* A private key that is there gives its public one; one that cannot be read
\* is an error ("refusing to overwrite").
CheckPriv(a) ==
    /\ pc[a] = "checkPriv"
    /\ IF ~Exists("priv") THEN pc' = [pc EXCEPT ![a] = "generate"] /\ UNCHANGED <<raw, mu>>
       ELSE IF Whole("priv")
       THEN /\ pc' = [pc EXCEPT ![a] = "createOwn"] /\ raw' = [raw EXCEPT ![a] = file.priv]
            /\ UNCHANGED mu
       ELSE pc' = [pc EXCEPT ![a] = "idle"] /\ Leave(a) /\ UNCHANGED raw
    /\ UNCHANGED <<file, born, faults, made>>

Generate(a) ==
    /\ born < MaxKeys + 1
    /\ Go(a, "generate", "createNew") /\ born' = born + 1
    /\ raw' = [raw EXCEPT ![a] = born + 1]
    /\ UNCHANGED <<file, mu, faults, made>>

CreateNew(a) == Create(a, "createNew", "priv", "writeNew")

WriteNew(a) ==
    \/ Write(a, "writeNew", "priv", "createOwnNew")
    \/ WriteFails(a, "writeNew", "priv", FALSE)

\* For a new pair a public file that cannot be made takes the private one
\* with it.
CreateOwn(a) ==
    \/ Create(a, "createOwn", "pub", "writeOwn")
    \/ /\ pc[a] = "createOwnNew"
       /\ IF Exists("pub") THEN pc' = [pc EXCEPT ![a] = "idle"] /\ Leave(a) /\ Set("priv", Absent)
          ELSE pc' = [pc EXCEPT ![a] = "writeOwnNew"] /\ Set("pub", Empty) /\ UNCHANGED mu
       /\ UNCHANGED <<raw, born, faults, made>>

\* The error of the last write is dropped.
WriteOwnMutant(a) ==
    \E new \in BOOLEAN :
      LET here == IF new THEN "writeOwnNew" ELSE "writeOwn" IN
      \/ /\ pc[a] = here /\ pc' = [pc EXCEPT ![a] = "idle"] /\ Leave(a)
         /\ Set("pub", raw[a]) /\ made' = made \cup {raw[a]}
         /\ UNCHANGED <<raw, born, faults>>
      \/ /\ Failures /\ faults < MaxKeys /\ pc[a] = here /\ faults' = faults + 1
         /\ file' = [file EXCEPT !.pub = Absent, !.priv = IF new THEN Absent ELSE @]
         /\ pc' = [pc EXCEPT ![a] = "idle"] /\ Leave(a)
         /\ made' = made \cup {raw[a]}
         /\ UNCHANGED <<raw, born>>

WriteOwn(a) ==
    \E new \in BOOLEAN :
      LET here == IF new THEN "writeOwnNew" ELSE "writeOwn" IN
      \/ /\ pc[a] = here /\ pc' = [pc EXCEPT ![a] = "idle"] /\ Leave(a)
         /\ Set("pub", raw[a]) /\ made' = made \cup {raw[a]}
         /\ UNCHANGED <<raw, born, faults>>
      \/ WriteFails(a, here, "pub", new)

Ensure(a) ==
    ReadPub(a) \/ CheckPriv(a) \/ Generate(a) \/ CreateNew(a) \/ WriteNew(a)
    \/ CreateOwn(a) \/ WriteOwn(a)

Crash ==
    /\ Crashes /\ faults < MaxKeys /\ faults' = faults + 1
    /\ mu' = "none" /\ pc' = [a \in Actors |-> "idle"]
    /\ UNCHANGED <<file, raw, born, made>>

Next == (\E a \in Actors : Migrate(a) \/ Ensure(a)) \/ Crash

Spec == Init /\ [][Next]_vars

-----------------------------------------------------------------------------
\* The key the account had is kept: a whole copy is on disk, or in the hands
\* of a caller about to write it.
KeyKept ==
    Legacy # "none" =>
      \/ \E f \in {"priv", "oldPriv"} : file[f] = 1
      \/ \E a \in Actors : pc[a] = "writePriv" /\ raw[a] = 1 /\ file.priv = Empty

\* The public file never names another key than the private file.
PairMatches == Whole("pub") /\ Whole("priv") => file.pub = file.priv

\* What a client was told to be the account's key stays it: later answers name
\* the same ("refusing to overwrite").
OneAccountKey == Cardinality(made) <= 1

\* The migration completes after a crash: while no one works, a whole legacy
\* key is not hidden behind a new file that is none.
LegacyReachable ==
    (\A a \in Actors : pc[a] = "idle") => ~(Whole("oldPriv") /\ file.priv = Empty)
==============================================================================
