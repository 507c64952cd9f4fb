----------------------------- MODULE BrowserRefs -----------------------------
(***************************************************************************)
(* The refs of the browser tools (extras/browser): a snapshot or a find    *)
(* numbers the page's interactive elements from 1 and stamps the numbers   *)
(* on them; click and type take a number and act on the element that       *)
(* carries it.  The model of the agent knows only the results it was given.*)
(*                                                                         *)
(* A page is the sequence of its elements in document order; the page      *)
(* changes on its own.  A click runs in a goroutine: when its timeout      *)
(* expires the tool returns, and the command that was already sent to the  *)
(* browser may still be carried out, before any later one: the browser     *)
(* takes the commands of a page in the order they were sent.               *)
(***************************************************************************)
EXTENDS Integers, Sequences, FiniteSets

CONSTANTS MaxElems,     \* elements that ever exist
          MaxSteps,     \* bound on the tool calls
          Timeouts,     \* BOOLEAN: clicks and finds may time out
          Fallback,     \* BOOLEAN: web_fetch renders pages in this browser
          UsesOlder     \* BOOLEAN: refs of the result before the last, too

BrowserRefsAssumption ==
    /\ {MaxElems, MaxSteps} \subseteq Nat /\ MaxElems >= 2
    /\ {Timeouts, Fallback, UsesOlder} \subseteq BOOLEAN

Elems == 1..MaxElems

VARIABLES dom,       \* the page's elements in document order
          born,      \* how many elements have existed
          stamp,     \* data-affent-ref of each element, 0 for none
          given,     \* the refs of the last result the agent received
          before,    \* and of the one before
          tool,      \* none, resolve, act, snap: the click or type that runs
          target,    \* [ref, want]: the ref it was called with, and the
                     \* element the agent means by it
          found,     \* the element it resolved, 0 for none
          late,      \* the tool has returned, the command is in flight
          acted,     \* <<want, got>> of the last element acted on
          steps

vars == <<dom, born, stamp, given, before, tool, target, found, late, acted, steps>>

Init ==
    /\ dom = <<1, 2>> /\ born = 2
    /\ stamp = [e \in Elems |-> 0]
    /\ given = <<>> /\ before = <<>>
    /\ tool = "none" /\ target = [ref |-> 0, want |-> 0] /\ found = 0 /\ late = FALSE
    /\ acted = <<0, 0>> /\ steps = 0

click == <<tool, target, found, late>>

OnPage(e) == \E i \in DOMAIN dom : dom[i] = e

(***************************************************************************)
(* The page (external): an element appears in front, one goes away.        *)
(***************************************************************************)
Appear ==
    /\ born < MaxElems
    /\ born' = born + 1 /\ dom' = <<born + 1>> \o dom
    /\ UNCHANGED <<stamp, given, before, click, acted, steps>>

Vanish(i) ==
    /\ i \in DOMAIN dom /\ Len(dom) > 1
    /\ dom' = SubSeq(dom, 1, i - 1) \o SubSeq(dom, i + 1, Len(dom))
    /\ UNCHANGED <<born, stamp, given, before, click, acted, steps>>

(***************************************************************************)
(* Stamping.                                                               *)
(***************************************************************************)
StampsMutant(es) ==
    [e \in Elems |-> IF \E i \in DOMAIN es : es[i] = e
                     THEN CHOOSE i \in DOMAIN es : es[i] = e ELSE stamp[e]]

\* The old numbers are cleared from the elements on the page, then the
\* chosen ones are numbered from 1 in document order.
Stamps(es) ==
    [e \in Elems |-> IF \E i \in DOMAIN es : es[i] = e
                     THEN CHOOSE i \in DOMAIN es : es[i] = e
                     ELSE IF OnPage(e) THEN 0 ELSE stamp[e]]

Give(es) == given' = es /\ before' = given

Idle == tool = "none" /\ ~late /\ steps < MaxSteps /\ steps' = steps + 1

\* browser_snapshot, browser_scroll, browser_wait.
Snapshot ==
    /\ Idle /\ stamp' = Stamps(dom) /\ Give(dom)
    /\ UNCHANGED <<dom, born, click, acted>>

\* browser_find stamps what it returns.
Find(i) ==
    /\ Idle /\ i \in DOMAIN dom
    /\ stamp' = Stamps(<<dom[i]>>) /\ Give(<<dom[i]>>)
    /\ UNCHANGED <<dom, born, click, acted>>

\* Its timeout expires after the script was sent: the page is stamped, the
\* agent gets an error.
FindTimesOut(i) ==
    /\ Timeouts /\ Idle /\ i \in DOMAIN dom
    /\ stamp' = Stamps(<<dom[i]>>)
    /\ UNCHANGED <<dom, born, given, before, click, acted>>

\* browser_navigate, browser_back: a new document, stamped and returned; or
\* an error after the page has changed, before the snapshot.
Navigate(ok) ==
    /\ Idle /\ born < MaxElems
    /\ born' = born + 1 /\ dom' = <<born + 1>>
    /\ IF ok THEN stamp' = [stamp EXCEPT ![born + 1] = 1] /\ Give(dom')
       ELSE UNCHANGED <<stamp, given, before>>
    /\ UNCHANGED <<click, acted>>

\* web_fetch's fallback navigates the same page.  When the snapshot shows a
\* block page the fetch returns its own text instead.
RenderedFallback ==
    /\ Fallback /\ Idle /\ born < MaxElems
    /\ born' = born + 1 /\ dom' = <<born + 1>>
    /\ stamp' = [stamp EXCEPT ![born + 1] = 1]
    /\ UNCHANGED <<given, before, click, acted>>

(***************************************************************************)
(* browser_click and browser_type.                                         *)
(***************************************************************************)
Call(es, ref) ==
    /\ Idle /\ ref \in DOMAIN es
    /\ tool' = "resolve" /\ target' = [ref |-> ref, want |-> es[ref]] /\ found' = 0
    /\ UNCHANGED <<dom, born, stamp, given, before, late, acted>>

\* After a timeout only the command in flight completes.
Then(step) == IF late THEN tool' = "none" /\ late' = FALSE
              ELSE tool' = step /\ UNCHANGED late

elementByRef(ref) ==
    LET at == {i \in DOMAIN dom : stamp[dom[i]] = ref}
    IN IF at = {} THEN 0 ELSE dom[CHOOSE i \in at : \A j \in at : i <= j]

Resolve ==
    /\ tool = "resolve"
    /\ found' = elementByRef(target.ref)
    /\ IF found' = 0 THEN tool' = "none" /\ late' = FALSE ELSE Then("act")
    /\ UNCHANGED <<dom, born, stamp, given, before, target, acted, steps>>

\* A vanished or covered element is an error.
Act ==
    /\ tool = "act"
    /\ IF OnPage(found) THEN acted' = <<target.want, found>> /\ Then("snap")
       ELSE tool' = "none" /\ late' = FALSE /\ UNCHANGED acted
    /\ UNCHANGED <<dom, born, stamp, given, before, target, found, steps>>

ActSnapshot ==
    /\ tool = "snap"
    /\ stamp' = Stamps(dom)
    /\ IF late THEN UNCHANGED <<given, before>> ELSE Give(dom)
    /\ tool' = "none" /\ late' = FALSE
    /\ UNCHANGED <<dom, born, target, found, acted, steps>>

\* The tool returns its timeout error and cancels the context.
ClickTimesOut ==
    /\ Timeouts /\ tool # "none" /\ ~late
    /\ late' = TRUE
    /\ UNCHANGED <<dom, born, stamp, given, before, tool, target, found, acted, steps>>

\* The cancelled command never reached the browser.
Dropped ==
    /\ late /\ tool' = "none" /\ late' = FALSE
    /\ UNCHANGED <<dom, born, stamp, given, before, target, found, acted, steps>>

Finished == steps = MaxSteps /\ tool = "none" /\ UNCHANGED vars

Next ==
    \/ Appear \/ \E i \in 1..MaxElems : Vanish(i)
    \/ Snapshot \/ \E ok \in BOOLEAN : Navigate(ok)
    \/ \E i \in 1..MaxElems : Find(i) \/ FindTimesOut(i)
    \/ RenderedFallback
    \/ \E ref \in 1..MaxElems : Call(given, ref) \/ (UsesOlder /\ Call(before, ref))
    \/ Resolve \/ Act \/ ActSnapshot \/ ClickTimesOut \/ Dropped \/ Finished

Spec == Init /\ [][Next]_vars

-----------------------------------------------------------------------------
\* A click or type acts on the element the agent saw under that number, or
\* fails ("Older snapshots' refs become stale and click/type against them fail
\* explicitly rather than silently targeting a different element").
RefHits == acted[1] = acted[2]

\* No two elements of the page carry one number: the number alone decides.
StampsUnique ==
    \A i, j \in DOMAIN dom :
      i # j /\ stamp[dom[i]] # 0 => stamp[dom[i]] # stamp[dom[j]]
==============================================================================
