------------------------------ MODULE ToolGuard ------------------------------
(***************************************************************************)
(* The loop guard of one turn (internal/agent/tool_loop_guard.go): what it *)
(* refuses before a tool runs (recordAttempt), what it adds to a result    *)
(* (recordToolResult), and when the loop takes the tools away.             *)
(*                                                                         *)
(* The tools are the kinds the guard tells apart: "read" is a snapshot of  *)
(* the workspace (read_file, a test run in shell...), "write" an edit,     *)
(* "shell" a command that changes files, "fetch" and "search" the web      *)
(* tools, "find" a browser search that may match nothing.  Edits, shell    *)
(* commands and browser searches differ from call to call; reads, URLs and *)
(* queries repeat.                                                         *)
(***************************************************************************)
EXTENDS Naturals, FiniteSets

CONSTANTS Code, Docs,     \* workspace files, by what an edit of them means
          UrlsA, UrlsB,   \* URLs of two hosts
          Apis,           \* the URLs with a text or API path
          Queries, Pages,
          Kinds,          \* failure kinds the fetches may meet
          Tools,          \* the tools this turn uses
          Cap,            \* perTurnCallCaps of the web and browser tools
          WarnThreshold, HaltThreshold,   \* 3 and 8 in the code
          MaxSteps        \* tool calls of the turn

Files == Code \union Docs

Urls == UrlsA \union UrlsB

Hosts == {"a", "b"}

Host(u) == IF u \in UrlsA THEN "a" ELSE "b"

Args == Files \union Urls \union Queries

HostKinds == {"blocked", "dynamic_shell"}     \* about the host

TransientKinds == {"timeout"}

\* The code keeps its counts under the name of the tool and its arguments:
\* two kinds of arguments never meet.
ToolGuardAssumption ==
    /\ Apis \subseteq Urls
    /\ Files \intersect Urls = {} /\ (Files \union Urls) \intersect Queries = {}
    /\ (Pages \union {"none"}) \intersect Args = {} /\ "none" \notin Pages
    /\ Kinds \subseteq HostKinds \union TransientKinds \union {"not_found"}
    /\ {Cap, WarnThreshold, HaltThreshold, MaxSteps} \subseteq Nat

VARIABLES counts,     \* callCounts, of the current epoch for workspace reads
          fails,      \* failureCounts
          halted,     \* haltedTools
          used,       \* perToolCounts
          failed,     \* failedCalls
          hosts,      \* failedHosts
          warned,     \* directReaderWarningURLs
          miss,       \* browserFindNoMatchURL and its count
          strikes,    \* guardInterventions of the loop
          forced,     \* forceNoToolsNext
          steps,      \* tool calls so far
          \* what really happened, for the properties:
          seen,       \* reads of a file that ran since its content changed
          urlFails,   \* failures of a URL since it last worked
          hostBad,    \* host-scoped failures since the host last worked
          misses,     \* empty searches of a page since it last matched
          hard,       \* refusals and flags that are not soft warnings
          last        \* the last call: its argument, the refusal, the flag

guard == <<counts, fails, halted, used, failed, hosts, warned, miss>>

history == <<seen, urlFails, hostBad, misses>>

vars == <<counts, fails, halted, used, failed, hosts, warned, miss, strikes, forced,
          steps, seen, urlFails, hostBad, misses, hard, last>>

identicalToolCallBlockThreshold == 3

browserFindNoMatchThreshold == 3

NoFailure == [count |-> 0, kind |-> "none"]

Init ==
    /\ counts = [a \in Args |-> 0]
    /\ fails = [t \in Tools |-> 0]
    /\ halted = {}
    /\ used = [t \in Tools |-> 0]
    /\ failed = [a \in Urls \union Queries |-> NoFailure]
    /\ hosts = [h \in Hosts |-> NoFailure]
    /\ warned = {}
    /\ miss = [page |-> "none", count |-> 0]
    /\ strikes = 0 /\ forced = FALSE /\ steps = 0 /\ hard = 0
    /\ seen = [f \in Files |-> 0]
    /\ urlFails = [u \in Urls |-> [transient |-> 0, other |-> 0]]
    /\ hostBad = [h \in Hosts |-> 0]
    /\ misses = [p \in Pages |-> 0]
    /\ last = [arg |-> "none", refusal |-> "none", flag |-> "none"]

Capped == {"fetch", "search", "find"} \intersect Tools

shouldBlockRepeatedFailedFetch(f) ==
    IF f.kind \in TransientKinds THEN f.count >= 2 ELSE TRUE

shouldBlockRepeatedFailedCall(t, a) ==
    /\ t \in {"fetch", "search"} /\ failed[a].count > 0
    /\ t = "fetch" => shouldBlockRepeatedFailedFetch(failed[a])

shouldBlockFailedFetchHost(u) ==
    LET f == hosts[Host(u)] IN
    CASE f.kind = "blocked" -> f.count >= 2
      [] f.kind = "dynamic_shell" -> f.count >= 2 /\ u \notin Apis
      [] OTHER -> FALSE

(***************************************************************************)
(* recordAttempt: the refusal, in the order of the code.  The cap counts   *)
(* an attempt that a later test refuses, the repetition counter does not.  *)
(***************************************************************************)
Refusal(t, a) ==
    IF t \in halted THEN "halted"
    ELSE IF t \in Capped /\ used[t] >= Cap THEN "cap"
    ELSE IF shouldBlockRepeatedFailedCall(t, a) THEN "failed_input"
    ELSE IF t = "fetch" /\ shouldBlockFailedFetchHost(a) THEN "host"
    ELSE IF t = "fetch" /\ a \in warned THEN "direct_reader"
    ELSE IF a \in Args /\ counts[a] + 1 >= identicalToolCallBlockThreshold THEN "repeated"
    ELSE "none"

Attempted(t, a) ==
    /\ used' = IF t \in Capped /\ Refusal(t, a) \notin {"halted", "cap"}
               THEN [used EXCEPT ![t] = @ + 1] ELSE used
    /\ IF a \in Args /\ Refusal(t, a) \in {"none", "repeated"}
         THEN counts' = [counts EXCEPT ![a] = @ + 1]
         ELSE counts' = counts

loopGuardResultForcesNoTools(k) == k \notin {"none", "repeated_failures"}

Intervene(k) ==
    /\ strikes' = IF loopGuardResultForcesNoTools(k) /\ strikes < 2 THEN strikes + 1 ELSE strikes
    /\ forced' = (forced \/ (loopGuardResultForcesNoTools(k) /\ strikes + 1 >= 2))
    /\ hard' = IF k \notin {"none", "repeated_failures"} /\ hard < 2 THEN hard + 1 ELSE hard

Refuse(t, a) ==
    /\ steps < MaxSteps /\ steps' = steps + 1
    /\ Refusal(t, a) # "none"
    /\ Attempted(t, a)
    /\ Intervene(Refusal(t, a))
    /\ last' = [arg |-> a, refusal |-> Refusal(t, a), flag |-> "none"]
    /\ UNCHANGED <<fails, halted, failed, hosts, warned, miss, history>>

(***************************************************************************)
(* recordOutcome.  flag is what the guard appends to the result.           *)
(***************************************************************************)
Outcome(t, ok) ==
    fails' = [fails EXCEPT ![t] = IF ok THEN 0 ELSE @ + 1]

OutcomeFlag(t, ok) ==
    CASE ~ok /\ fails[t] + 1 = HaltThreshold -> "halted"
      [] ~ok /\ fails[t] + 1 = WarnThreshold /\ WarnThreshold # HaltThreshold -> "repeated_failures"
      [] OTHER -> "none"

\* A call that runs: the part every tool shares.
Runs(t, a, ok, flag) ==
    /\ steps < MaxSteps /\ steps' = steps + 1
    /\ t \in Tools /\ Refusal(t, a) = "none"
    /\ Outcome(t, ok)
    /\ halted' = IF OutcomeFlag(t, ok) = "halted" THEN halted \union {t} ELSE halted
    /\ Intervene(flag)
    /\ last' = [arg |-> a, refusal |-> "none", flag |-> flag]

Read(f) ==
    /\ Runs("read", f, TRUE, "none")
    /\ Attempted("read", f)
    /\ seen' = [seen EXCEPT ![f] = IF @ < 3 THEN @ + 1 ELSE @]
    /\ UNCHANGED <<failed, hosts, warned, miss, urlFails, hostBad, misses>>

recordWorkspaceMutationMutant(f) == counts' = counts

\* The epoch advances, so what was read before may be read again; an edit
\* of a text file does not count (workspaceGuardPathRequiresVerification).
recordWorkspaceMutation(f) ==
    counts' = IF f \in Code THEN [a \in Args |-> IF a \in Files THEN 0 ELSE counts[a]]
                            ELSE counts

Write(f, ok) ==
    /\ Runs("write", "none", ok, OutcomeFlag("write", ok))
    /\ IF ok THEN /\ recordWorkspaceMutation(f)
                  /\ seen' = [seen EXCEPT ![f] = 0]
             ELSE UNCHANGED <<counts, seen>>
    /\ UNCHANGED <<used, failed, hosts, warned, miss, urlFails, hostBad, misses>>

\* A shell command that changes a file is not a mutation for the guard.
Shell(f) ==
    /\ Runs("shell", "none", TRUE, "none")
    /\ seen' = [seen EXCEPT ![f] = 0]
    /\ UNCHANGED <<counts, used, failed, hosts, warned, miss, urlFails, hostBad, misses>>

FailedOnce(f, kind) == [count |-> f.count + 1, kind |-> kind]

\* The kind of the latest failure replaces the one before, the count goes on.
recordArgumentOutcome(u, ok, kind) ==
    /\ failed' = [failed EXCEPT ![u] = IF ok THEN NoFailure ELSE FailedOnce(@, kind)]
    /\ hosts' = [hosts EXCEPT ![Host(u)] = IF ok THEN NoFailure ELSE FailedOnce(@, kind)]

Fetch(u, ok, kind) ==
    /\ Runs("fetch", u, ok, OutcomeFlag("fetch", ok))
    /\ Attempted("fetch", u)
    /\ recordArgumentOutcome(u, ok, kind)
    /\ urlFails' =
         IF ok THEN [urlFails EXCEPT ![u] = [transient |-> 0, other |-> 0]]
         ELSE IF kind \in TransientKinds THEN [urlFails EXCEPT ![u].transient = @ + 1]
         ELSE [urlFails EXCEPT ![u].other = @ + 1]
    /\ hostBad' = [hostBad EXCEPT ![Host(u)] =
         IF ok THEN 0 ELSE IF kind \in HostKinds THEN @ + 1 ELSE @]
    /\ UNCHANGED <<warned, miss, seen, misses>>

\* A search that works may warn about URLs (recordDirectReaderWarnings).
Search(q, ok, marked) ==
    /\ Runs("search", q, ok, OutcomeFlag("search", ok))
    /\ Attempted("search", q)
    /\ failed' = [failed EXCEPT ![q] = IF ok THEN NoFailure ELSE FailedOnce(@, "not_found")]
    /\ warned' = IF ok THEN warned \union marked ELSE warned
    /\ UNCHANGED <<hosts, miss, history>>

recordBrowserFindNoMatch(p, matched) ==
    IF matched THEN [miss EXCEPT !.count = IF miss.page = p THEN 0 ELSE @]
    ELSE [page |-> p, count |-> IF miss.page = p THEN miss.count + 1 ELSE 1]

Find(p, matched) ==
    LET m == recordBrowserFindNoMatch(p, matched)
        flag == IF ~matched /\ m.count >= browserFindNoMatchThreshold
                THEN "no_new_evidence" ELSE "none"
    IN /\ Runs("find", p, TRUE, flag)
       /\ Attempted("find", p)
       /\ miss' = m
       /\ misses' = [misses EXCEPT ![p] = IF matched THEN 0 ELSE @ + 1]
       /\ UNCHANGED <<failed, hosts, warned, seen, urlFails, hostBad>>

Call ==
    \/ \E f \in Files : Read(f)
    \/ \E f \in Files, ok \in BOOLEAN : Write(f, ok)
    \/ \E f \in Files : Shell(f)
    \/ \E u \in Urls : Fetch(u, TRUE, "none") \/ \E k \in Kinds : Fetch(u, FALSE, k)
    \/ \E q \in Queries, ok \in BOOLEAN, marked \in {{}, Urls} : Search(q, ok, marked)
    \/ \E p \in Pages, matched \in BOOLEAN : Find(p, matched)

RefusedCall ==
    \/ "read" \in Tools /\ \E f \in Files : Refuse("read", f)
    \/ "write" \in Tools /\ Refuse("write", "none")
    \/ "fetch" \in Tools /\ \E u \in Urls : Refuse("fetch", u)
    \/ "search" \in Tools /\ \E q \in Queries : Refuse("search", q)
    \/ "find" \in Tools /\ \E p \in Pages : Refuse("find", p)

\* The turn ends: its budget of tool calls is used up.
Done == steps = MaxSteps /\ UNCHANGED vars

Next == Call \/ RefusedCall \/ Done

Spec == Init /\ [][Next]_vars

-----------------------------------------------------------------------------
\* A workspace read is refused as repeated only when it already ran twice on
\* the content the file has now: after a change it is "a fresh evidence
\* context" (TestToolLoopGuard_AllowsRepeatedWorkspaceEvidenceAfterMutation).
FreshEvidence ==
    last.refusal = "repeated" /\ last.arg \in Files => seen[last.arg] >= 2

\* A URL that failed for good is not fetched again, one that failed for a
\* passing reason is retried once, until it works.
RetriedOnce ==
    \A u \in Urls : urlFails[u].other <= 1 /\ urlFails[u].transient + urlFails[u].other <= 2

\* Two refusals of the host itself are the last this turn runs into.
HostGivenUp == \A h \in Hosts : hostBad[h] <= 2

\* A host is refused for what the host did, twice: "not_found on same host
\* should not trigger host guard"
\* (TestToolLoopGuard_DoesNotHostBlockPageScopedFetchFailures).
HostBlockEarned ==
    last.refusal = "host" => hostBad[Host(last.arg)] >= 2

\* "returned no matches on PAGE N times" is true of that page: so many empty
\* searches of it and no match in between.
NoEvidenceTruthful ==
    last.flag = "no_new_evidence" => misses[last.arg] >= browserFindNoMatchThreshold

\* Soft warnings alone never take the tools away (event-trace-contract.md:
\* they "do not by themselves force tools off").
SoftNeverForces == forced => hard >= 2
==============================================================================
