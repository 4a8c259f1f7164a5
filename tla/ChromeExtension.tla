--------------------------- MODULE ChromeExtension ---------------------------
(***************************************************************************)
(* packages/chrome-extension: a page's request travels to the background   *)
(* script (FetchViaBackgroundScript), from there to a tab of the request's *)
(* host, found or created (tabs.ts, SendToTabHandler), where the content   *)
(* script fetches it (handleFetchMessages), and the answer travels back.   *)
(* Chrome is external: its callbacks come in any order, tabs load, get     *)
(* their content script, navigate and are closed at any time, and a        *)
(* message without a receiver, or whose receiver goes away, is answered    *)
(* with undefined.                                                         *)
(***************************************************************************)
CONSTANTS Request,  \* requests made by pages
          Host,     \* the hosts they are for, and that tabs show
          Tab,      \* bound on the tabs that ever exist
          None      \* no tab, or no host

ASSUME NoneAssumption == None \notin Host /\ None \notin Tab

VARIABLES target,  \* the host of each request
          pc,      \* where it is
          got,     \* what the page's handle() resolved to
          tabOf,   \* the tab the background script has chosen for it
          snap,    \* what chrome.tabs.get said of that tab
          seen,    \* whether the listener has seen the tab complete
          timer,   \* waitForTabState's timeout
          listening, \* requests whose listener is added to onUpdated
          at,      \* the host whose page is executing it
          tab,     \* the tabs: host, status, content script
          moved,   \* the open tabs that have navigated: each may once
          lost     \* history: requests whose tab navigated when it had been chosen

waitVars == <<snap, seen, timer, listening>>
tabVars == <<tab, moved, lost>>
vars == <<target, pc, got, tabOf, waitVars, at, tabVars>>

Waiting == {"get", "gotten", "await"}
Open(t) == tab[t].status \in {"loading", "complete"}

\* Tabs are open already, some of them without the content script.
Init ==
    /\ target \in [Request -> Host]
    /\ pc = [r \in Request |-> "idle"]
    /\ got = [r \in Request |-> "nothing"]
    /\ tabOf = [r \in Request |-> None]
    /\ snap = [r \in Request |-> "unknown"]
    /\ seen = [r \in Request |-> FALSE]
    /\ timer = [r \in Request |-> "off"]
    /\ listening = {}
    /\ at = [r \in Request |-> None]
    /\ tab \in [Tab -> [host : {None}, status : {"unborn"}, ready : {FALSE}]
                  \union [host : Host, status : {"complete"}, ready : BOOLEAN]]
    /\ moved = {}
    /\ lost = {}

-----------------------------------------------------------------------------
Go(r, where) == pc' = [pc EXCEPT ![r] = where]

\* handle() of the page resolves.
Resolve(r, x) ==
    /\ got' = [got EXCEPT ![r] = x]
    /\ Go(r, "answered")

\* A script rejects: sendResponse is given onError's promise, not its response,
\* and a promise travels as {}.
RejectIn(r) == Resolve(r, "shapeless")

\* chrome.runtime.sendMessage throws at once, or the background script gets it.
Send(r) ==
    /\ pc[r] = "idle"
    /\ \/ Resolve(r, "badGateway")
       \/ Go(r, "query") /\ UNCHANGED got
    /\ UNCHANGED <<target, tabOf, waitVars, at, tabVars>>

\* Mutation of Matching: any open tab will do.
AnyTab(r) == {t \in Tab : Open(t)}

\* The tabs that a query for the request's host may report.
Matching(r) == {t \in Tab : Open(t) /\ tab[t].host = target[r]}

\* findOrCreateTab: the first tab reported; none is reported when those there
\* are have not begun to show their page.
FindTab(r) ==
    /\ pc[r] = "query"
    /\ \/ \E t \in Matching(r) : tabOf' = [tabOf EXCEPT ![r] = t] /\ Go(r, "send")
       \/ /\ \A t \in Matching(r) : tab[t].status = "loading"
          /\ Go(r, "create") /\ UNCHANGED tabOf
    /\ UNCHANGED <<target, got, waitVars, at, tabVars>>

\* createTab, then waitForTabState: timeout and listener before anything else.
CreateTab(r) ==
    /\ pc[r] = "create"
    /\ \E t \in Tab :
          /\ tab[t].status = "unborn"
          /\ tab' = [tab EXCEPT ![t] = [host |-> target[r], status |-> "loading",
                                        ready |-> FALSE]]
          /\ tabOf' = [tabOf EXCEPT ![r] = t]
    /\ timer' = [timer EXCEPT ![r] = "armed"]
    /\ listening' = listening \union {r}
    /\ Go(r, "get")
    /\ UNCHANGED <<target, got, snap, seen, at, moved, lost>>

CreateFails(r) ==
    /\ pc[r] = "create"
    /\ RejectIn(r)
    /\ UNCHANGED <<target, tabOf, waitVars, at, tabVars>>

\* chrome.tabs.get looks at the tab ...
LookAtTab(r) ==
    /\ pc[r] = "get"
    /\ snap' = [snap EXCEPT ![r] = tab[tabOf[r]].status]
    /\ Go(r, "gotten")
    /\ UNCHANGED <<target, got, tabOf, seen, timer, listening, at, tabVars>>

\* Mutation of Cleanup: the listener stays.
ClearTimeoutOnly(r) ==
    /\ timer' = [timer EXCEPT ![r] = "off"]
    /\ snap' = [snap EXCEPT ![r] = "unknown"]
    /\ seen' = [seen EXCEPT ![r] = FALSE]
    /\ UNCHANGED listening

\* finally: clearTimeout and removeListener; what the wait knew is gone with it.
Cleanup(r) ==
    /\ timer' = [timer EXCEPT ![r] = "off"]
    /\ listening' = listening \ {r}
    /\ snap' = [snap EXCEPT ![r] = "unknown"]
    /\ seen' = [seen EXCEPT ![r] = FALSE]

\* ... and its callback: a closed tab is undefined, of which predicate reads
\* .status; the listener's promise is raced before the timeout's.
TabIsKnown(r) ==
    /\ pc[r] = "gotten"
    /\ \/ /\ snap[r] = "closed"
          /\ RejectIn(r) /\ Cleanup(r)
       \/ /\ snap[r] = "complete" \/ (snap[r] = "loading" /\ seen[r])
          /\ Go(r, "send") /\ Cleanup(r) /\ UNCHANGED got
       \/ /\ snap[r] = "loading" /\ ~seen[r] /\ timer[r] = "fired"
          /\ RejectIn(r) /\ Cleanup(r)
       \/ /\ snap[r] = "loading" /\ ~seen[r] /\ timer[r] = "armed"
          /\ Go(r, "await") /\ UNCHANGED <<got, waitVars>>
    /\ UNCHANGED <<target, tabOf, at, tabVars>>

TimedOut(r) ==
    /\ timer[r] = "armed"
    /\ \/ pc[r] = "await" /\ RejectIn(r) /\ Cleanup(r)
       \/ /\ pc[r] # "await"
          /\ timer' = [timer EXCEPT ![r] = "fired"]
          /\ UNCHANGED <<pc, got, snap, seen, listening>>
    /\ UNCHANGED <<target, tabOf, at, tabVars>>

\* SendToTabHandler: chrome.tabs.sendMessage.  Without a content script it is
\* answered with undefined, which the background script sends on; the page takes
\* it for no answer, makes an error response and drops it.
SendToTab(r) ==
    /\ pc[r] = "send"
    /\ \/ /\ tab[tabOf[r]].ready
          /\ at' = [at EXCEPT ![r] = tab[tabOf[r]].host]
          /\ Go(r, "fetching")
       \/ /\ ~tab[tabOf[r]].ready
          /\ Go(r, "dropped") /\ UNCHANGED at
    /\ UNCHANGED <<target, got, tabOf, waitVars, tabVars>>

\* Mutation of Fetched: a rejection of the content script's handler is not caught.
FetchedUncaught(r) ==
    /\ pc[r] = "fetching"
    /\ \/ Resolve(r, "response")
       \/ Go(r, "dropped") /\ UNCHANGED got
    /\ at' = [at EXCEPT ![r] = None]
    /\ UNCHANGED <<target, tabOf, waitVars, tabVars>>

\* The content script's handler: a response or a rejection.
Fetched(r) ==
    /\ pc[r] = "fetching"
    /\ Resolve(r, "response") \/ RejectIn(r)
    /\ at' = [at EXCEPT ![r] = None]
    /\ UNCHANGED <<target, tabOf, waitVars, tabVars>>

-----------------------------------------------------------------------------
(* Chrome's side of a tab.                                                 *)

\* The requests at t that are in one of the states.
AtTab(t, states) == {r \in Request : tabOf[r] = t /\ pc[r] \in states}

\* The requests in one of the states whose listener hears what happens to t.
Hearing(t, states) == AtTab(t, states) \intersect listening

\* The wait of the requests in R is over: matchingTab won, and finally cleans up.
Proceed(R) ==
    /\ pc' = [r \in Request |-> IF r \in R THEN "send" ELSE pc[r]]
    /\ timer' = [r \in Request |-> IF r \in R THEN "off" ELSE timer[r]]
    /\ snap' = [r \in Request |-> IF r \in R THEN "unknown" ELSE snap[r]]
    /\ listening' = listening \ R

\* Mutation of Loads: the listener is added when chrome.tabs.get has answered.
LoadsUnheard(t) ==
    /\ tab[t].status = "loading"
    /\ tab' = [tab EXCEPT ![t].status = "complete"]
    /\ Proceed(Hearing(t, {"await"}))
    /\ UNCHANGED <<target, got, tabOf, seen, at, moved, lost>>

\* onUpdated, status "complete": each listener of t resolves its matchingTab.
Loads(t) ==
    /\ tab[t].status = "loading"
    /\ tab' = [tab EXCEPT ![t].status = "complete"]
    /\ Proceed(Hearing(t, {"await"}))
    /\ seen' = [r \in Request |->
                    seen[r] \/ (r \in listening /\ tabOf[r] = t /\ pc[r] # "await")]
    /\ UNCHANGED <<target, got, tabOf, at, moved, lost>>

\* The content script starts to listen.
Injected(t) ==
    /\ Open(t) /\ ~tab[t].ready
    /\ tab' = [tab EXCEPT ![t].ready = TRUE]
    /\ UNCHANGED <<target, pc, got, tabOf, waitVars, at, moved, lost>>

\* What t's content script was doing is over, and answered with undefined.
Interrupt(t) ==
    /\ pc' = [r \in Request |-> IF r \in AtTab(t, {"fetching"}) THEN "dropped" ELSE pc[r]]
    /\ at' = [r \in Request |-> IF r \in AtTab(t, {"fetching"}) THEN None ELSE at[r]]

Navigates(t) ==
    /\ Open(t) /\ t \notin moved
    /\ \E h \in Host \ {tab[t].host} :
          tab' = [tab EXCEPT ![t] = [host |-> h, status |-> "loading", ready |-> FALSE]]
    /\ moved' = moved \union {t}
    /\ lost' = lost \union AtTab(t, Waiting \union {"send"})
    /\ Interrupt(t)
    /\ UNCHANGED <<target, got, tabOf, waitVars>>

Closes(t) ==
    /\ Open(t)
    /\ tab' = [tab EXCEPT ![t] = [host |-> None, status |-> "closed", ready |-> FALSE]]
    /\ moved' = moved \ {t}
    /\ Interrupt(t)
    /\ UNCHANGED <<target, got, tabOf, waitVars, lost>>

-----------------------------------------------------------------------------
Handle(r) ==
    \/ FindTab(r) \/ CreateTab(r) \/ CreateFails(r) \/ LookAtTab(r) \/ TabIsKnown(r)
    \/ TimedOut(r) \/ SendToTab(r) \/ Fetched(r)

Next ==
    \/ \E r \in Request : Send(r) \/ Handle(r)
    \/ \E t \in Tab : Loads(t) \/ Injected(t) \/ Navigates(t) \/ Closes(t)

Spec == Init /\ [][Next]_vars

\* Chrome calls back, timers fire, fetches end.  Tabs need not load.
FairSpec == Spec /\ \A r \in Request : WF_vars(Handle(r))

-----------------------------------------------------------------------------
\* Something of r's wait is left: its timeout, its listener, or what they found out.
Underway(r) ==
    timer[r] # "off" \/ r \in listening \/ seen[r] \/ snap[r] # "unknown"

\* Every variable has its type; the timeout and the listener of waitForTabState,
\* and what they and chrome.tabs.get have found out, exist only while it runs,
\* whichever way it ends (tabs.ts:45-48).
TypeOK ==
    /\ target \in [Request -> Host]
    /\ pc \in [Request -> Waiting \union {"idle", "query", "create", "send", "fetching",
                                          "answered", "dropped"}]
    /\ got \in [Request -> {"nothing", "response", "badGateway", "shapeless"}]
    /\ tabOf \in [Request -> Tab \union {None}]
    /\ snap \in [Request -> {"unknown", "loading", "complete", "closed"}]
    /\ seen \in [Request -> BOOLEAN]
    /\ timer \in [Request -> {"off", "armed", "fired"}]
    /\ at \in [Request -> Host \union {None}]
    /\ tab \in [Tab -> [host : Host \union {None}, ready : BOOLEAN,
                        status : {"unborn", "loading", "complete", "closed"}]]
    /\ moved \subseteq Tab
    /\ listening \subseteq Request
    /\ lost \subseteq Request
    /\ \A r \in Request : Underway(r) => pc[r] \in Waiting

\* The tab may complete before, while or after chrome.tabs.get is asked: nobody
\* waits for the timeout on account of a tab that has completed (tabs.ts:39-44).
NoMissedLoad ==
    \A r \in Request : pc[r] = "await" => tab[tabOf[r]].status # "complete"

\* A request is executed by a page of its own host, unless the tab went to
\* another one after it was found (tabs.ts:79, background.ts:25-29).
OwnHost ==
    \A r \in Request : at[r] \in {None, target[r]} \/ r \in lost

\* A request is answered in the end, even if a tab never loads; only if the tab
\* had no content script, or lost it, is the answer dropped and the page left
\* waiting (FetchViaBackgroundScript.ts:27-29).
AnsweredUnlessUnheard ==
    \A r \in Request :
        pc[r] = "query" ~>
            \/ pc[r] = "answered"
            \/ pc[r] = "dropped" /\ ~tab[tabOf[r]].ready
=============================================================================
