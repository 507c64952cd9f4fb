------------------------------- MODULE Skills --------------------------------
(***************************************************************************)
(* Runtime skills: documents that are installed under a directory all the  *)
(* sessions of the account share, kept by each open session in a registry, *)
(* and added to the prompt of a turn that mentions one of their triggers.  *)
(* The skill tool of a session and the HTTP API install and delete them,   *)
(* without a lock; a skill of remote origin is first proposed, and         *)
(* installed when the user's last message confirms the proposal.           *)
(*                                                                         *)
(* An install writes a staging directory and swaps it in with two renames; *)
(* each of its system calls is a step here, and the process may die        *)
(* between any two. The order in which skills are added to a prompt is     *)
(* left out, and so are the texts that only the model reads.               *)
(***************************************************************************)
EXTENDS Naturals, Sequences, FiniteSets

CONSTANTS
    Sessions, Workers,  \* the sessions, and the calls that can be under way
    Names,              \* the names of skills
    Requests,           \* the skills one may ask to install
    Remotes,            \* what can be found at an address
    UserTexts,          \* what a user may say
    Tools,              \* the tools of a session
    BuiltinSkills,      \* the embedded skills
    OwnSkills,          \* what a session finds in a directory of its own
    TooLong,            \* names, words and bodies over their limit
    MaxSkills,          \* a directory of more cannot be loaded
    Apart,              \* no two calls at a time ("calls"), or of a name ("names")
    MaxCalls,           \* bound: how many calls there are
    MaxTroubles         \* bound: how many crashes and failed system calls

VARIABLES
    final, stage, backup,   \* directories by name
    pending,                \* proposals by id
    reg, listed,            \* the registry of a session; whether the pool has it
    said,                   \* the user's last message, by session
    calls,                  \* by worker
    made, troubles,
    last,                   \* history: what was last installed or deleted
    agreed,                 \* history: the proposals a user agreed to
    brought                 \* history: what sessions installed

vars == <<final, stage, backup, pending, reg, listed, said, calls, made, troubles,
          last, agreed, brought>>

-----------------------------------------------------------------------------
\* Skills. Source is "local", "remote" or "embed"; fits says whether the
\* encoded manifest is within the limit of the reader.

NoSkill ==
    [name |-> "", body |-> "", source |-> "", any |-> <<>>, allAny |-> <<>>,
     required |-> <<>>, fits |-> TRUE]

Words(seq) == {seq[i] : i \in DOMAIN seq}
HasNonEmpty(seq) == Words(seq) \ {""} # {}
ContainsAny(text, seq) == text \cap (Words(seq) \ {""}) # {}

GroupsHaveRules(groups) ==
    groups # <<>> /\ \A i \in DOMAIN groups : HasNonEmpty(groups[i])
HasRules(s) == HasNonEmpty(s.any) \/ GroupsHaveRules(s.allAny)
Matches(s, text) ==
    \/ ContainsAny(text, s.any)
    \/ /\ GroupsHaveRules(s.allAny)
       /\ \A i \in DOMAIN s.allAny : ContainsAny(text, s.allAny[i])
Activates(s, text) == HasRules(s) /\ Matches(s, text)
RequiredToolsAvailable(s) == Words(s.required) \subseteq Tools

\* What is added to the prompt of a turn.
ProvideForTools(registry, text) ==
    {registry[n] : n \in {m \in DOMAIN registry :
        Activates(registry[m], text) /\ RequiredToolsAvailable(registry[m])}}

SkillActiveNow(s) == HasRules(s) /\ RequiredToolsAvailable(s)

ValidTrigger(w) == w # "" /\ w \notin TooLong
ValidateSkillAutoActivation(s) ==
    /\ \A w \in Words(s.any) : ValidTrigger(w)
    /\ \A i \in DOMAIN s.allAny :
        HasNonEmpty(s.allAny[i]) /\ \A w \in Words(s.allAny[i]) : ValidTrigger(w)
NormalizeSkillRequiredTools(s) == \A w \in Words(s.required) : ValidTrigger(w)

NormalizeRuntimeSkill(s) ==
    /\ s.name # "" /\ s.body # ""
    /\ {s.name, s.body} \cap TooLong = {}
    /\ ValidateSkillAutoActivation(s) /\ NormalizeSkillRequiredTools(s)

\* The digest runs the words together, whatever list they stand in.
Flat(groups) ==
    LET upTo[k \in 0..Len(groups)] ==
            IF k = 0 THEN <<>> ELSE upTo[k - 1] \o groups[k]
    IN  upTo[Len(groups)]
RuntimeSkillProposalID(s) ==
    <<s.name, s.source, s.body, s.any \o Flat(s.allAny) \o s.required>>

\* A skill at an address: what the caller gives wins over the manifest, the
\* front matter, the body and the path, in this order.
FirstNonEmpty(seq) ==
    LET given == {i \in DOMAIN seq : seq[i] # ""}
    IN  IF given = {} THEN "" ELSE seq[CHOOSE i \in given : \A j \in given : i <= j]
ParseRuntimeSkillGitHubURL(r) ==
    r.url = "tree" \/ (r.url \in {"raw", "blob"} /\ r.skillFile)
FromURL(r, name, any) ==
    LET manifest == r.manifest = "ok"
    IN  [name |-> FirstNonEmpty(<<name, IF manifest THEN r.manifestName ELSE "",
                                  r.name, r.path>>),
         body |-> r.body, source |-> "remote",
         any |-> IF any # <<>> THEN any ELSE IF manifest THEN r.any ELSE <<>>,
         allAny |-> IF any = <<>> /\ manifest THEN r.allAny ELSE <<>>,
         required |-> IF manifest THEN r.required ELSE <<>>, fits |-> TRUE]
Fetched(r) == ParseRuntimeSkillGitHubURL(r) /\ r.body # "" /\ r.manifest # "broken"

-----------------------------------------------------------------------------
\* Directories.

NoDir == [there |-> FALSE, body |-> NoSkill, manifest |-> NoSkill]
EmptyDir == [NoDir EXCEPT !.there = TRUE]
Complete(d) == d.body # NoSkill /\ d.manifest # NoSkill
Holding(s) == [there |-> TRUE, body |-> s, manifest |-> s]

\* What is read: the body from one file and the rest from the other.
LoadRuntimeSkill(d) == [d.manifest EXCEPT !.body = d.body.body]

\* One directory that cannot be read, or one too many, fails the load of all.
LoadSkillDirFails(dirs) ==
    LET complete == {n \in DOMAIN dirs : Complete(dirs[n])}
    IN  \/ Cardinality({n \in DOMAIN dirs : dirs[n].there}) > MaxSkills
        \/ \E n \in complete : ~dirs[n].manifest.fits
                                \/ ~NormalizeRuntimeSkill(LoadRuntimeSkill(dirs[n]))

NamedBuiltin(n) == {s \in BuiltinSkills : s.name = n}
DefaultSkillRegistry ==
    [n \in Names |-> IF NamedBuiltin(n) = {} THEN NoSkill
                     ELSE CHOOSE s \in NamedBuiltin(n) : TRUE]
RuntimeSkillRegistry(dirs) ==
    [n \in Names |-> IF Complete(dirs[n]) THEN LoadRuntimeSkill(dirs[n])
                     ELSE DefaultSkillRegistry[n]]

\* The account's skills, and over them the session's own.
SessionRuntimeSkillRegistry(dirs) ==
    [n \in Names |->
        IF \E s \in OwnSkills : s.name = n /\ s.source # "embed"
        THEN CHOOSE s \in OwnSkills : s.name = n
        ELSE RuntimeSkillRegistry(dirs)[n]]

Upsert(registry, s) == [registry EXCEPT ![s.name] = s]
Remove(registry, n) == [registry EXCEPT ![n] = NoSkill]

-----------------------------------------------------------------------------
\* Calls. A call is idle or at one of its system calls.

Idle == [at |-> "idle", by |-> "", skill |-> NoSkill, id |-> <<>>, had |-> FALSE]
AllIdle == \A w \in Workers : calls[w].at = "idle"
Free(w, by) ==
    /\ calls[w].at = "idle" /\ made < MaxCalls
    /\ \A v \in Workers : calls[v].by # by \/ by = "api"
    /\ by # "api" => by \in listed
\* The instances in which calls do not meet.
Clear(n) ==
    /\ Apart = "calls" => AllIdle
    /\ Apart = "names" => \A v \in Workers : calls[v].skill.name # n
Ask(w, at, by, s, id) ==
    /\ calls' = [calls EXCEPT ![w] = [Idle EXCEPT !.at = at, !.by = by, !.skill = s,
                                                  !.id = id]]
    /\ made' = made + 1
Go(w, at) == calls' = [calls EXCEPT ![w].at = at]
Trouble == troubles < MaxTroubles /\ troubles' = troubles + 1
Calm == UNCHANGED troubles
Dirs == <<final, stage, backup>>
Live == <<reg, listed, said>>
Past == <<last, agreed, brought>>

SourceRequiresSkillProposal(s) == s.source = "remote"

\* skill action=install, and POST /v1/skills, which takes any source.
AskInstall(w, by, s) ==
    /\ Free(w, by)
    /\ by # "api" => ~SourceRequiresSkillProposal(s)
    /\ NormalizeRuntimeSkill(s) /\ Clear(s.name)
    /\ Ask(w, "stage", by, s, <<>>)
    /\ UNCHANGED <<Dirs, pending, Live, troubles, Past>>

\* skill action=propose_install and propose_url.
ProposeRuntimeSkill(s) ==
    /\ NormalizeRuntimeSkill(s)
    /\ pending' = [id \in DOMAIN pending \cup {RuntimeSkillProposalID(s)} |->
                    IF id = RuntimeSkillProposalID(s) THEN s ELSE pending[id]]
Propose(w, by, s) ==
    /\ Free(w, by) /\ by # "api"
    /\ s.source # "" /\ ProposeRuntimeSkill(s)
    /\ made' = made + 1
    /\ UNCHANGED <<Dirs, Live, calls, troubles, Past>>
ProposeURL(w, by, r, name, any) ==
    Fetched(r) /\ Propose(w, by, FromURL(r, name, any))

\* A message confirms the proposals it names unless it also says no.
UserTextConfirms(text, id) == id \in text.ids /\ ~text.no /\ text.yes

\* skill action=confirm_install.
AskConfirm(w, by, id) ==
    /\ Free(w, by) /\ by # "api"
    /\ UserTextConfirms(said[by], id)
    /\ id \in DOMAIN pending /\ NormalizeRuntimeSkill(pending[id])
    /\ Clear(pending[id].name)
    /\ Ask(w, "stage", by, pending[id], id)
    /\ UNCHANGED <<Dirs, pending, Live, troubles, Past>>

\* DELETE /v1/skills/{name}.
AskDelete(w, n) ==
    /\ Free(w, "api") /\ Clear(n)
    /\ ~LoadSkillDirFails(final)
    /\ RuntimeSkillRegistry(final)[n] # NoSkill
    /\ RuntimeSkillRegistry(final)[n].source # "embed"
    /\ Ask(w, "delete", "api", [NoSkill EXCEPT !.name = n], <<>>)
    /\ UNCHANGED <<Dirs, pending, Live, troubles, Past>>

At(w, step) == calls[w].at = step
NameOf(w) == calls[w].skill.name

\* InstallRuntimeSkill: the staging directory, the body, the manifest. A
\* staging directory somebody else removed makes the write fail.
Stage(w) ==
    /\ At(w, "stage")
    /\ stage' = [stage EXCEPT ![NameOf(w)] = EmptyDir]
    /\ Go(w, "body")
    /\ UNCHANGED <<final, backup, pending, Live, made, troubles, Past>>
Write(w, step, after, dir) ==
    /\ At(w, step)
    /\ \/ /\ stage[NameOf(w)].there
          /\ stage' = [stage EXCEPT ![NameOf(w)] = dir]
          /\ Go(w, after) /\ Calm
       \/ /\ \/ ~stage[NameOf(w)].there /\ Calm
             \/ Trouble
          /\ Go(w, "fail") /\ UNCHANGED stage
    /\ UNCHANGED <<final, backup, pending, Live, made, Past>>
WriteBody(w) ==
    Write(w, "body", "manifest", [stage[NameOf(w)] EXCEPT !.body = calls[w].skill])
WriteManifest(w) ==
    Write(w, "manifest", "backup", [stage[NameOf(w)] EXCEPT !.manifest = calls[w].skill])

\* publishRuntimeSkillDir: the old directory is moved aside, the new one in.
ResetBackup(w) ==
    /\ At(w, "backup")
    /\ \/ backup' = [backup EXCEPT ![NameOf(w)] = NoDir] /\ Go(w, "old") /\ Calm
       \/ Trouble /\ Go(w, "fail") /\ UNCHANGED backup
    /\ UNCHANGED <<final, stage, pending, Live, made, Past>>

\* Plausible bug: the old directory is removed, not moved.
MoveOldMutant(w) ==
    /\ At(w, "old")
    /\ final' = [final EXCEPT ![NameOf(w)] = NoDir]
    /\ Go(w, "new")
    /\ UNCHANGED <<stage, backup, pending, Live, made, troubles, Past>>

MoveOld(w) ==
    LET n == NameOf(w)
    IN  /\ At(w, "old")
        /\ \/ /\ ~final[n].there
              /\ Go(w, "new") /\ Calm /\ UNCHANGED <<final, backup>>
           \/ /\ final[n].there /\ ~backup[n].there
              /\ backup' = [backup EXCEPT ![n] = final[n]]
              /\ final' = [final EXCEPT ![n] = NoDir]
              /\ calls' = [calls EXCEPT ![w].at = "new", ![w].had = TRUE]
              /\ Calm
           \/ /\ final[n].there
              /\ Trouble \/ (backup[n].there /\ Calm)
              /\ Go(w, "fail") /\ UNCHANGED <<final, backup>>
        /\ UNCHANGED <<stage, pending, Live, made, Past>>
MoveNew(w) ==
    LET n == NameOf(w)
    IN  /\ At(w, "new")
        /\ \/ /\ stage[n].there /\ ~final[n].there
              /\ final' = [final EXCEPT ![n] = stage[n]]
              /\ stage' = [stage EXCEPT ![n] = NoDir]
              /\ last' = [last EXCEPT ![n] = Holding(calls[w].skill)]
              /\ Go(w, "clean") /\ Calm
           \/ /\ Trouble \/ ((~stage[n].there \/ final[n].there) /\ Calm)
              /\ Go(w, IF calls[w].had THEN "restore" ELSE "fail")
              /\ UNCHANGED <<final, stage, last>>
        /\ UNCHANGED <<backup, pending, Live, made, agreed, brought>>
Restore(w) ==
    LET n == NameOf(w)
        can == backup[n].there /\ ~final[n].there
    IN  /\ At(w, "restore")
        /\ final' = IF can THEN [final EXCEPT ![n] = backup[n]] ELSE final
        /\ backup' = IF can THEN [backup EXCEPT ![n] = NoDir] ELSE backup
        /\ Go(w, "fail")
        /\ UNCHANGED <<stage, pending, Live, made, troubles, Past>>
CleanBackup(w) ==
    /\ At(w, "clean")
    /\ \/ backup' = [backup EXCEPT ![NameOf(w)] = NoDir] /\ Calm
       \/ Trouble /\ UNCHANGED backup
    /\ Go(w, "upsert")
    /\ UNCHANGED <<final, stage, pending, Live, made, Past>>

\* The staging directory is removed in any case; the API then tells every
\* session the pool has, the tool its own.
Fail(w) ==
    /\ At(w, "fail")
    /\ stage' = [stage EXCEPT ![NameOf(w)] = NoDir]
    /\ calls' = [calls EXCEPT ![w] = Idle]
    /\ UNCHANGED <<final, backup, pending, Live, made, troubles, Past>>
UpsertActive(w) ==
    LET c == calls[w]
        told == IF c.by = "api" THEN listed ELSE {c.by}
    IN  /\ At(w, "upsert")
        /\ stage' = [stage EXCEPT ![c.skill.name] = NoDir]
        /\ pending' = [id \in DOMAIN pending \ {c.id} |-> pending[id]]
        /\ reg' = [x \in Sessions |-> IF x \in told THEN Upsert(reg[x], c.skill) ELSE reg[x]]
        /\ brought' = IF c.by = "api" THEN brought ELSE brought \cup {<<c.by, c.skill>>}
        /\ calls' = [calls EXCEPT ![w] = Idle]
        /\ UNCHANGED <<final, backup, listed, said, made, troubles, last, agreed>>

DeleteRuntimeSkill(w) ==
    /\ At(w, "delete")
    /\ final' = [final EXCEPT ![NameOf(w)] = NoDir]
    /\ last' = [last EXCEPT ![NameOf(w)] = NoDir]
    /\ Go(w, "forget")
    /\ UNCHANGED <<stage, backup, pending, Live, made, troubles, agreed, brought>>
RemoveFromActiveSessions(w) ==
    /\ At(w, "forget")
    /\ reg' = [x \in Sessions |->
                IF x \in listed
                THEN [reg[x] EXCEPT ![NameOf(w)] = DefaultSkillRegistry[NameOf(w)]]
                ELSE reg[x]]
    /\ calls' = [calls EXCEPT ![w] = Idle]
    /\ UNCHANGED <<Dirs, pending, listed, said, made, troubles, Past>>

-----------------------------------------------------------------------------
\* Sessions: the registry is read when a session is made, which is listed
\* later; a session that is closed, or a process that dies, forgets it.

NoRegistry == [n \in Names |-> NoSkill]
Loaded(x) == reg[x] # NoRegistry
Load(x) ==
    /\ ~Loaded(x) /\ ~LoadSkillDirFails(final)
    /\ Apart = "calls" => AllIdle
    /\ reg' = [reg EXCEPT ![x] = SessionRuntimeSkillRegistry(final)]
    /\ listed' = IF Apart = "calls" THEN listed \cup {x} ELSE listed
    /\ UNCHANGED <<Dirs, pending, said, calls, made, troubles, Past>>
List(x) ==
    /\ Loaded(x) /\ x \notin listed
    /\ listed' = listed \cup {x}
    /\ UNCHANGED <<Dirs, pending, reg, said, calls, made, troubles, Past>>
Silence == [ids |-> {}, yes |-> FALSE, no |-> FALSE]
Say(x, text) ==
    /\ x \in listed /\ \A w \in Workers : calls[w].by # x
    /\ said[x] # text
    /\ said' = [said EXCEPT ![x] = text]
    /\ agreed' = agreed \cup (IF text.yes /\ ~text.no THEN {x} \X text.ids ELSE {})
    /\ UNCHANGED <<Dirs, pending, reg, listed, calls, made, troubles, last, brought>>
Crash ==
    /\ Trouble
    /\ reg' = [x \in Sessions |-> NoRegistry] /\ listed' = {}
    /\ calls' = [w \in Workers |-> Idle]
    /\ UNCHANGED <<Dirs, pending, said, made, Past>>

Init ==
    /\ final = [n \in Names |-> NoDir] /\ stage = final /\ backup = final
    /\ pending = <<>> /\ reg = [x \in Sessions |-> NoRegistry] /\ listed = {}
    /\ said = [x \in Sessions |-> Silence]
    /\ calls = [w \in Workers |-> Idle] /\ made = 0 /\ troubles = 0
    /\ last = final /\ agreed = {} /\ brought = {}

Installing(w) ==
    \/ Stage(w) \/ WriteBody(w) \/ WriteManifest(w) \/ ResetBackup(w) \/ MoveOld(w)
    \/ MoveNew(w) \/ Restore(w) \/ CleanBackup(w) \/ Fail(w) \/ UpsertActive(w)
    \/ DeleteRuntimeSkill(w) \/ RemoveFromActiveSessions(w)

Next ==
    \/ \E w \in Workers : Installing(w)
    \/ \E w \in Workers, by \in Sessions \cup {"api"}, s \in Requests : AskInstall(w, by, s)
    \/ \E w \in Workers, x \in Sessions, s \in Requests : Propose(w, x, s)
    \/ \E w \in Workers, x \in Sessions, r \in Remotes, n \in {"", "given"} :
            ProposeURL(w, x, r, n, <<>>)
    \/ \E w \in Workers, x \in Sessions, id \in DOMAIN pending : AskConfirm(w, x, id)
    \/ \E w \in Workers, n \in Names : AskDelete(w, n)
    \/ \E x \in Sessions : Load(x) \/ List(x) \/ \E t \in UserTexts : Say(x, t)
    \/ Crash

Spec == Init /\ [][Next]_vars

-----------------------------------------------------------------------------
SkillsAssumption ==
    /\ Apart \in {"calls", "names", "none"}
    /\ {s.name : s \in Requests \cup BuiltinSkills \cup OwnSkills} \subseteq Names \cup {""}
    /\ \A s \in BuiltinSkills : s.source = "embed"

TypeOK ==
    /\ \A n \in Names : {final[n].there, stage[n].there, backup[n].there} \subseteq BOOLEAN
    /\ listed \subseteq {x \in Sessions : Loaded(x)}
    /\ made \in 0..MaxCalls /\ troubles \in 0..MaxTroubles

\* A skill that can be loaded is one that was asked for: the body is not from
\* one install and the manifest from another.
Whole == \A n \in Names : Complete(final[n]) => final[n].body = final[n].manifest

\* An install that fails, or a process that dies, leaves the skill that was
\* there, at the worst under the name of the backup.
Kept ==
    AllIdle => \A n \in Names :
        \/ final[n] = last[n]
        \/ troubles > 0 /\ ~final[n].there /\ backup[n] = last[n]

\* What a session installs from elsewhere is what its user agreed to.
ConfirmedOnly ==
    \A b \in brought : SourceRequiresSkillProposal(b[2]) =>
        \E a \in agreed : /\ a[1] = b[1]
                          /\ SubSeq(a[2], 1, 3) = SubSeq(RuntimeSkillProposalID(b[2]), 1, 3)

\* Between calls a session has the skills it would have after a restart.
RegistryMatches ==
    AllIdle => \A x \in listed : reg[x] = SessionRuntimeSkillRegistry(final)

\* A skill is said to be active now just when a turn that mentions all its
\* words is given it.
Listens(s) == Words(s.any) \cup Words(Flat(s.allAny))
ActiveNowTruthful ==
    \A x \in listed : \A n \in Names : LET s == reg[x][n] IN s # NoSkill =>
        (SkillActiveNow(s) <=> s \in ProvideForTools(reg[x], Listens(s)))

\* What was accepted can be loaded: no install stops sessions from opening.
Loadable == AllIdle => ~LoadSkillDirFails(final)
=============================================================================
