--------------------------- MODULE NetworkEvidence ---------------------------
(***************************************************************************)
(* The network evidence of a browser session (extras/browser): Chrome's    *)
(* events reach the observer, which reads bodies in goroutines limited by  *)
(* a semaphore and adds them to a capped log under refs n1, n2, ...; a     *)
(* snapshot waits for the reads to settle and lists the log.               *)
(*                                                                         *)
(* Pages are numbered in the order of navigation; a page has a site, and a *)
(* response belongs to the page that asked for it.                         *)
(***************************************************************************)
EXTENDS Integers, Sequences, FiniteSets

CONSTANTS Responses,    \* XHR and fetch responses
          Sites,
          MaxPages,     \* navigations
          Slots,        \* observerBodyFetchConcurrency, 16 in the code
          Cap,          \* maxNetworkEvidenceEntries, 200 in the code
          Iframes,      \* BOOLEAN: pages load iframes of other sites
          Navigates     \* BOOLEAN: the agent navigates while reads run

NetworkEvidenceAssumption ==
    /\ IsFiniteSet(Responses)
    /\ MaxPages \in Nat /\ Slots \in Nat /\ Cap \in Nat \ {0}
    /\ {Iframes, Navigates} \subseteq BOOLEAN

VARIABLES pages,     \* the sites of the pages navigated to
          logPage,   \* pageURL: the page of the last document response; 0: none,
                     \* or a frame
          logSite,   \* pageHost's site
          resp,      \* each response: idle, open, pending, reading, added,
                     \* refused, failed, dropped
          of,        \* the page each response belongs to
          pendingReads,
          entries,   \* the log: [ref, resp, page]
          next,      \* the last ref given
          named,     \* the response each ref was given for
          waiting,   \* a snapshot waits for the reads
          listed     \* [settled, due, refs]: what the last snapshot said

vars == <<pages, logPage, logSite, resp, of, pendingReads, entries, next, named,
          waiting, listed>>

NoSite == "none"

Init ==
    /\ pages = <<>> /\ logPage = 0 /\ logSite = NoSite
    /\ resp = [r \in Responses |-> "idle"] /\ of = [r \in Responses |-> 0]
    /\ pendingReads = 0 /\ entries = <<>> /\ next = 0 /\ named = <<>>
    /\ waiting = FALSE /\ listed = [settled |-> FALSE, due |-> {}, have |-> {}]

log == <<pendingReads, entries, next, named>>

snapshot == <<waiting, listed>>

Site(r) == pages[of[r]]

Reading == {r \in Responses : resp[r] = "reading"}

(***************************************************************************)
(* Chrome's events.                                                        *)
(***************************************************************************)
\* browser_navigate; the document's response is observed.
NavigatePage(s) ==
    /\ Len(pages) < MaxPages /\ ~waiting
    /\ Navigates \/ pages = <<>>
    /\ pages' = Append(pages, s)
    /\ logPage' = Len(pages) + 1 /\ logSite' = s
    /\ UNCHANGED <<resp, of, log, snapshot>>

\* An iframe's document is a document response like any other.
FrameDocument(s) ==
    /\ Iframes /\ pages # <<>> /\ s # logSite
    /\ logSite' = s /\ logPage' = 0
    /\ UNCHANGED <<pages, resp, of, log, snapshot>>

Request(r) ==
    /\ resp[r] = "idle" /\ pages # <<>>
    /\ resp' = [resp EXCEPT ![r] = "open"] /\ of' = [of EXCEPT ![r] = Len(pages)]
    /\ UNCHANGED <<pages, logPage, logSite, log, snapshot>>

\* NetworkResponseReceived: a good status goes to the pending map.
Received(r, ok) ==
    /\ resp[r] = "open"
    /\ resp' = [resp EXCEPT ![r] = IF ok THEN "pending" ELSE "refused"]
    /\ UNCHANGED <<pages, logPage, logSite, of, log, snapshot>>

LoadingFailed(r) ==
    /\ resp[r] \in {"open", "pending"}
    /\ resp' = [resp EXCEPT ![r] = "failed"]
    /\ UNCHANGED <<pages, logPage, logSite, of, log, snapshot>>

\* NetworkLoadingFinished: a free slot or the body is not read at all.
LoadingFinished(r) ==
    /\ resp[r] = "pending"
    /\ IF Cardinality(Reading) < Slots
       THEN /\ resp' = [resp EXCEPT ![r] = "reading"]
            /\ pendingReads' = pendingReads + 1
       ELSE resp' = [resp EXCEPT ![r] = "dropped"] /\ UNCHANGED pendingReads
    /\ UNCHANGED <<pages, logPage, logSite, of, entries, next, named, snapshot>>

(***************************************************************************)
(* The goroutine of a response.  Chrome may never answer.                  *)
(***************************************************************************)
NextRef == next + 1

Keep(es) == IF Len(es) > Cap THEN SubSeq(es, Len(es) - Cap + 1, Len(es)) ELSE es

\* Add: responses of another site than the log's are refused.
BodyRead(r) ==
    /\ resp[r] = "reading"
    /\ pendingReads' = pendingReads - 1
    /\ IF Site(r) = logSite
       THEN /\ resp' = [resp EXCEPT ![r] = "added"]
            /\ next' = NextRef
            /\ entries' = Keep(Append(entries, [ref |-> next', resp |-> r, page |-> logPage]))
            /\ named' = [i \in DOMAIN named \cup {next'} |-> IF i = next' THEN r ELSE named[i]]
       ELSE resp' = [resp EXCEPT ![r] = "refused"] /\ UNCHANGED <<entries, next, named>>
    /\ UNCHANGED <<pages, logPage, logSite, of, snapshot>>

BodyFails(r) ==
    /\ resp[r] = "reading"
    /\ resp' = [resp EXCEPT ![r] = "failed"] /\ pendingReads' = pendingReads - 1
    /\ UNCHANGED <<pages, logPage, logSite, of, entries, next, named, snapshot>>

(***************************************************************************)
(* TakeSnapshot and the log's readers.                                     *)
(***************************************************************************)
Visible == {i \in DOMAIN entries : Site(entries[i].resp) = logSite}

SnapshotStart ==
    /\ ~waiting /\ waiting' = TRUE
    /\ UNCHANGED <<pages, logPage, logSite, resp, of, log, listed>>

\* The responses of the page whose loading had ended.
Due == {r \in Responses : of[r] # 0 /\ of[r] = Len(pages)
                          /\ resp[r] \in {"reading", "added", "dropped"}}

List(settled) ==
    /\ waiting' = FALSE
    /\ listed' = [settled |-> settled, due |-> Due,
                  have |-> {entries[i].resp : i \in Visible}]

\* isIdle; the quiet window only delays it.
Idle == pendingReads = 0

SnapshotIdle ==
    /\ waiting /\ Idle /\ List(TRUE)
    /\ UNCHANGED <<pages, logPage, logSite, resp, of, log>>

\* snapshotNetworkSettleMax has passed: the list comes with the diagnostic.
SnapshotDeadline ==
    /\ waiting /\ ~Idle /\ List(FALSE)
    /\ UNCHANGED <<pages, logPage, logSite, resp, of, log>>

Next ==
    \/ \E s \in Sites : NavigatePage(s) \/ FrameDocument(s)
    \/ \E r \in Responses : \/ Request(r) \/ LoadingFailed(r) \/ LoadingFinished(r)
                            \/ \E ok \in BOOLEAN : Received(r, ok)
                            \/ BodyRead(r) \/ BodyFails(r)
    \/ SnapshotStart \/ SnapshotIdle \/ SnapshotDeadline

Spec == Init /\ [][Next]_vars

\* The deadline of WaitIdle; nothing is assumed of the page or of Chrome.
SnapshotEnds == SnapshotIdle \/ SnapshotDeadline

FairSpec == Spec /\ WF_vars(SnapshotEnds)

-----------------------------------------------------------------------------
\* A ref stands for one response for good: no later Add gives it away again
\* after old entries were dropped.
RefsStable ==
    \A i \in DOMAIN named : i \in DOMAIN named' /\ named'[i] = named[i]

\* The count of reads is the number of goroutines that read: one missed
\* EndRead would keep every later snapshot waiting.
ReadsCounted == pendingReads = Cardinality(Reading)

\* A snapshot without the pending diagnostic lists every response of the page
\* that had finished loading, as far as the log keeps them.
SettledComplete ==
    listed.settled /\ Cardinality(Responses) <= Cap => listed.due \subseteq listed.have

\* An entry names the page that asked for the response ("PageURL ... want
\* document URL", network_evidence_test.go).
PageIsTheAskers == \A i \in DOMAIN entries : entries[i].page = of[entries[i].resp]

\* "Search captured same-site browser XHR/fetch JSON or text responses": what
\* was captured of the shown page's site can be found.
SameSiteFound ==
    \A i \in DOMAIN entries : Site(entries[i].resp) = pages[Len(pages)] => i \in Visible

\* A snapshot never waits for ever, though Chrome may never answer a read.
Waits == waiting

SnapshotReturns == Waits ~> ~Waits
==============================================================================
