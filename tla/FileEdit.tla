------------------------------ MODULE FileEdit ------------------------------
(***************************************************************************)
(* edit_file: an exact find-and-replace as stat, read, replace and write,  *)
(* on the host or through four docker exec calls.  Meanwhile a background  *)
(* process of an earlier shell command may append to the file.             *)
(*                                                                         *)
(* A file is the sequence of its pieces: pieces equal to Old are the       *)
(* matches, New is the replacement, and a piece is one byte of the limit.  *)
(***************************************************************************)
EXTENDS Naturals, Sequences, FiniteSets

CONSTANTS
    Old, New, Other,    \* the pieces of a file
    MaxEditFileBytes,   \* largest file that may be edited
    MaxLen,             \* bound on the length of the file
    Docker              \* is the file edited through docker exec

EditBounds ==
    /\ MaxEditFileBytes \in Nat /\ MaxLen \in Nat
    /\ Old # New /\ Old # Other /\ New # Other

VARIABLES
    file,       \* the file
    pc,         \* where edit_file is
    all,        \* replace_all
    body,       \* what was read
    base,       \* history: the file when it was read
    outcome     \* what the last call answered

vars == <<file, pc, all, body, base, outcome>>

Banner == "more bytes truncated"
Files(n) == UNION {[1..k -> {Old, Other}] : k \in 0..n}
Matches(s) == {i \in DOMAIN s : s[i] = Old}

StartEdit(replaceAll) ==
    /\ pc = "idle"
    /\ pc' = "stat" /\ all' = replaceAll /\ outcome' = "running"
    /\ UNCHANGED <<file, body, base>>

Fails(why) == pc' = "idle" /\ outcome' = why /\ UNCHANGED <<file, all, body, base>>

Stat ==
    /\ pc = "stat"
    /\ IF Len(file) > MaxEditFileBytes THEN Fails("too_large")
       ELSE pc' = "read" /\ UNCHANGED <<file, all, body, base, outcome>>

\* Mutant: the output of cat is used as it came, cut at the cap.
CaptureMutant(s) ==
    IF Docker /\ Len(s) > MaxEditFileBytes THEN SubSeq(s, 1, MaxEditFileBytes) ELSE s

\* The output of cat passes a capping writer, which marks what it cut; the
\* host reads whatever the file has grown to.
Capture(s) ==
    IF Docker /\ Len(s) > MaxEditFileBytes
    THEN SubSeq(s, 1, MaxEditFileBytes) \o <<Banner>> ELSE s

Read ==
    /\ pc = "read"
    /\ LET got == Capture(file)
       IN  IF \E i \in DOMAIN got : got[i] = Banner THEN Fails("too_large")
           ELSE pc' = "replace" /\ body' = got /\ base' = file /\ UNCHANGED <<file, all, outcome>>

Replaceable(s) == Matches(s) # {} /\ (Cardinality(Matches(s)) > 1 => all)

Replace ==
    /\ pc = "replace"
    /\ IF ~Replaceable(body)
       THEN Fails(IF Matches(body) = {} THEN "no_match" ELSE "ambiguous")
       ELSE /\ pc' = "write"
            /\ body' = [i \in DOMAIN body |->
                          IF body[i] = Old /\ (all \/ \A j \in Matches(body) : i <= j)
                          THEN New ELSE body[i]]
            /\ UNCHANGED <<file, all, base, outcome>>

\* os.WriteFile, or base64 -d > path: the whole file is overwritten.
Write ==
    /\ pc = "write"
    /\ file' = body
    /\ pc' = "idle" /\ outcome' = "replaced"
    /\ UNCHANGED <<all, body, base>>

WriteFails == pc = "write" /\ Fails("error")

\* A background process appends.
Append1(x) ==
    /\ Len(file) < MaxLen
    /\ file' = file \o <<x>>
    /\ UNCHANGED <<pc, all, body, base, outcome>>

Init ==
    /\ file \in Files(MaxLen)
    /\ pc = "idle" /\ all = FALSE /\ body = <<>> /\ base = <<>> /\ outcome = "none"

Next ==
    \/ \E a \in BOOLEAN : StartEdit(a)
    \/ Stat \/ Read \/ Replace \/ Write \/ WriteFails
    \/ \E x \in {Old, Other} : Append1(x)

Spec == Init /\ [][Next]_vars

-----------------------------------------------------------------------------
\* What an edit writes is the file it read, entire and piece by piece, with
\* replacements only where the old text was; also when the file grew past
\* the limit between the size check and the read.
EditIsExact ==
    pc = "write" /\ outcome' = "replaced" =>
        /\ Len(file') = Len(base)
        /\ \A i \in DOMAIN base : file'[i] = base[i] \/ (base[i] = Old /\ file'[i] = New)

\* Without replace_all an edit changes exactly one place, with it every one.
EditIsUnambiguous ==
    pc = "write" /\ outcome' = "replaced" =>
        /\ all \/ Cardinality(Matches(base)) = 1
        /\ Matches(file') = {}

\* An edit changes nothing but the text it replaces in the file: what another
\* process appended meanwhile is kept.
AppendedKept == [][pc = "write" /\ outcome' = "replaced" => Len(file') >= Len(file)]_vars
=============================================================================
