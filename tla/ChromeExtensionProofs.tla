------------------------ MODULE ChromeExtensionProofs ------------------------
(***************************************************************************)
(* For any number of requests, hosts and tabs: the timeout and the listener *)
(* go with the wait, nobody waits for a tab that has loaded, and a request  *)
(* is executed by a page of its own host unless the tab moved on meanwhile. *)
(***************************************************************************)
EXTENDS ChromeExtension, TLAPS

\* Where a request has its tab.
Placed == {"get", "gotten", "await", "send", "fetching"}

\* It has one, and a tab that was chosen for some request exists from then on.
HasTab ==
    /\ \A r \in Request : pc[r] \in Placed => tabOf[r] \in Tab
    /\ \A r \in Request : tabOf[r] \in Tab => tab[tabOf[r]].status # "unborn"

\* A load is either seen by the listener, or by chrome.tabs.get.
LoadKnown ==
    \A r \in Request :
        pc[r] \in {"gotten", "await"} /\ snap[r] = "loading" /\ ~seen[r] =>
            tab[tabOf[r]].status # "complete"

\* Who waits listens.
Hears == \A r \in Request : pc[r] \in Waiting => r \in listening

\* Who awaits was told so by chrome.tabs.get, and has not seen the load.
Awaits == \A r \in Request : pc[r] = "await" => snap[r] = "loading" /\ ~seen[r]

\* A tab shows the host it was found for, until it moves or closes.
TabKeepsHost ==
    \A r \in Request :
        pc[r] \in Placed => tab[tabOf[r]].host \in {target[r], None} \/ r \in lost

\* Only a tab that shows a host has a content script; only a fetch has a page.
Shows ==
    /\ \A t \in Tab : tab[t].host = None => ~tab[t].ready
    /\ \A t \in Tab : Open(t) => tab[t].host # None
    /\ \A r \in Request : at[r] # None => pc[r] = "fetching"

ChromeInv ==
    TypeOK /\ HasTab /\ LoadKnown /\ Hears /\ Awaits /\ TabKeepsHost /\ Shows /\ OwnHost

\* The tabs, requests and pages of the start.
THEOREM ChromeInitInv == Init => ChromeInv
<1> SUFFICES ASSUME Init PROVE ChromeInv
  OBVIOUS
<1>1. TypeOK
  BY NoneAssumption DEF Init, TypeOK, Underway, Waiting
<1>2. HasTab
  BY NoneAssumption DEF Init, HasTab, Placed
<1>3. LoadKnown
  BY NoneAssumption DEF Init, LoadKnown
<1>4. Awaits /\ Hears
  BY NoneAssumption DEF Init, Awaits, Hears, Waiting
<1>5. TabKeepsHost
  BY NoneAssumption DEF Init, TabKeepsHost, Placed
<1>6. Shows
  BY NoneAssumption DEF Init, Shows, Open
<1>7. OwnHost
  BY NoneAssumption DEF Init, OwnHost
<1> QED BY <1>1, <1>2, <1>3, <1>4, <1>5, <1>6, <1>7 DEF ChromeInv

\* A request that is sent has no tab yet.
LEMMA SendInv ==
    ASSUME NEW r \in Request, ChromeInv, Send(r)
    PROVE  ChromeInv'
<1>1. TypeOK'
  BY NoneAssumption DEF ChromeInv, TypeOK, Underway, HasTab, Placed, Waiting, Open, Send,
     Resolve, Go, waitVars, tabVars
<1>2. HasTab'
  BY NoneAssumption DEF ChromeInv, TypeOK, HasTab, Placed, Waiting, Open, Send,
     Resolve, Go, waitVars, tabVars
<1>3. LoadKnown'
  BY NoneAssumption DEF ChromeInv, TypeOK, HasTab, LoadKnown, Hears, Awaits, Placed,
     Waiting, Open, Send, Resolve, Go, waitVars, tabVars
<1>4. Awaits' /\ Hears'
  BY NoneAssumption DEF ChromeInv, TypeOK, LoadKnown, Hears, Awaits, Placed, Waiting,
     Open, Send, Resolve, Go, waitVars, tabVars
<1>5. TabKeepsHost'
  BY NoneAssumption DEF ChromeInv, TypeOK, HasTab, TabKeepsHost, Shows, Placed,
     Waiting, Open, Send, Resolve, Go, waitVars, tabVars
<1>6. Shows'
  BY NoneAssumption DEF ChromeInv, TypeOK, Shows, Placed, Waiting, Open, Send,
     Resolve, Go, waitVars, tabVars
<1>7. OwnHost'
  BY NoneAssumption DEF ChromeInv, TypeOK, HasTab, TabKeepsHost, Shows, OwnHost,
     Placed, Waiting, Open, Send, Resolve, Go, waitVars, tabVars
<1> QED BY <1>1, <1>2, <1>3, <1>4, <1>5, <1>6, <1>7 DEF ChromeInv

\* The tab found shows the request's host.
LEMMA FindTabInv ==
    ASSUME NEW r \in Request, ChromeInv, FindTab(r)
    PROVE  ChromeInv'
<1>1. TypeOK'
  BY NoneAssumption DEF ChromeInv, TypeOK, Underway, HasTab, Placed, Waiting, Open, FindTab,
     Matching, Go, waitVars, tabVars
<1>2. HasTab'
  BY NoneAssumption DEF ChromeInv, TypeOK, HasTab, Placed, Waiting, Open, FindTab,
     Matching, Go, waitVars, tabVars
<1>3. LoadKnown'
  BY NoneAssumption DEF ChromeInv, TypeOK, HasTab, LoadKnown, Hears, Awaits, Placed,
     Waiting, Open, FindTab, Matching, Go, waitVars, tabVars
<1>4. Awaits' /\ Hears'
  BY NoneAssumption DEF ChromeInv, TypeOK, LoadKnown, Hears, Awaits, Placed, Waiting,
     Open, FindTab, Matching, Go, waitVars, tabVars
<1>5. TabKeepsHost'
  BY NoneAssumption DEF ChromeInv, TypeOK, HasTab, TabKeepsHost, Shows, Placed,
     Waiting, Open, FindTab, Matching, Go, waitVars, tabVars
<1>6. Shows'
  BY NoneAssumption DEF ChromeInv, TypeOK, Shows, Placed, Waiting, Open, FindTab,
     Matching, Go, waitVars, tabVars
<1>7. OwnHost'
  BY NoneAssumption DEF ChromeInv, TypeOK, HasTab, TabKeepsHost, Shows, OwnHost,
     Placed, Waiting, Open, FindTab, Matching, Go, waitVars, tabVars
<1> QED BY <1>1, <1>2, <1>3, <1>4, <1>5, <1>6, <1>7 DEF ChromeInv

\* The tab created was chosen for no other request.
LEMMA CreateTabInv ==
    ASSUME NEW r \in Request, ChromeInv, CreateTab(r)
    PROVE  ChromeInv'
<1>1. TypeOK'
  BY NoneAssumption DEF ChromeInv, TypeOK, Underway, HasTab, Placed, Waiting, Open,
     CreateTab, Go
<1>2. HasTab'
  BY NoneAssumption DEF ChromeInv, TypeOK, HasTab, Placed, Waiting, Open,
     CreateTab, Go
<1>3. LoadKnown'
  BY NoneAssumption DEF ChromeInv, TypeOK, HasTab, LoadKnown, Hears, Awaits, Placed,
     Waiting, Open, CreateTab, Go
<1>4. Awaits' /\ Hears'
  BY NoneAssumption DEF ChromeInv, TypeOK, LoadKnown, Hears, Awaits, Placed, Waiting,
     Open, CreateTab, Go
<1>5. TabKeepsHost'
  BY NoneAssumption DEF ChromeInv, TypeOK, HasTab, TabKeepsHost, Shows, Placed,
     Waiting, Open, CreateTab, Go
<1>6. Shows'
  BY NoneAssumption DEF ChromeInv, TypeOK, Shows, Placed, Waiting, Open, CreateTab,
     Go
<1>7. OwnHost'
  BY NoneAssumption DEF ChromeInv, TypeOK, HasTab, TabKeepsHost, Shows, OwnHost,
     Placed, Waiting, Open, CreateTab, Go
<1> QED BY <1>1, <1>2, <1>3, <1>4, <1>5, <1>6, <1>7 DEF ChromeInv

\* A tab that cannot be created ends the request.
LEMMA CreateFailsInv ==
    ASSUME NEW r \in Request, ChromeInv, CreateFails(r)
    PROVE  ChromeInv'
<1>1. TypeOK'
  BY NoneAssumption DEF ChromeInv, TypeOK, Underway, HasTab, Placed, Waiting, Open,
     CreateFails, RejectIn, Resolve, Go, waitVars, tabVars
<1>2. HasTab'
  BY NoneAssumption DEF ChromeInv, TypeOK, HasTab, Placed, Waiting, Open,
     CreateFails, RejectIn, Resolve, Go, waitVars, tabVars
<1>3. LoadKnown'
  BY NoneAssumption DEF ChromeInv, TypeOK, HasTab, LoadKnown, Hears, Awaits, Placed,
     Waiting, Open, CreateFails, RejectIn, Resolve, Go, waitVars, tabVars
<1>4. Awaits' /\ Hears'
  BY NoneAssumption DEF ChromeInv, TypeOK, LoadKnown, Hears, Awaits, Placed, Waiting,
     Open, CreateFails, RejectIn, Resolve, Go, waitVars, tabVars
<1>5. TabKeepsHost'
  BY NoneAssumption DEF ChromeInv, TypeOK, HasTab, TabKeepsHost, Shows, Placed,
     Waiting, Open, CreateFails, RejectIn, Resolve, Go, waitVars, tabVars
<1>6. Shows'
  BY NoneAssumption DEF ChromeInv, TypeOK, Shows, Placed, Waiting, Open,
     CreateFails, RejectIn, Resolve, Go, waitVars, tabVars
<1>7. OwnHost'
  BY NoneAssumption DEF ChromeInv, TypeOK, HasTab, TabKeepsHost, Shows, OwnHost,
     Placed, Waiting, Open, CreateFails, RejectIn, Resolve, Go, waitVars, tabVars
<1> QED BY <1>1, <1>2, <1>3, <1>4, <1>5, <1>6, <1>7 DEF ChromeInv

\* What chrome.tabs.get says is true when it looks.
LEMMA LookAtTabInv ==
    ASSUME NEW r \in Request, ChromeInv, LookAtTab(r)
    PROVE  ChromeInv'
<1>1. TypeOK'
  BY NoneAssumption DEF ChromeInv, TypeOK, Underway, HasTab, Placed, Waiting, Open,
     LookAtTab, Go, tabVars
<1>2. HasTab'
  BY NoneAssumption DEF ChromeInv, TypeOK, HasTab, Placed, Waiting, Open,
     LookAtTab, Go, tabVars
<1>3. LoadKnown'
  BY NoneAssumption DEF ChromeInv, TypeOK, HasTab, LoadKnown, Hears, Awaits, Placed,
     Waiting, Open, LookAtTab, Go, tabVars
<1>4. Awaits' /\ Hears'
  BY NoneAssumption DEF ChromeInv, TypeOK, LoadKnown, Hears, Awaits, Placed, Waiting,
     Open, LookAtTab, Go, tabVars
<1>5. TabKeepsHost'
  BY NoneAssumption DEF ChromeInv, TypeOK, HasTab, TabKeepsHost, Shows, Placed,
     Waiting, Open, LookAtTab, Go, tabVars
<1>6. Shows'
  BY NoneAssumption DEF ChromeInv, TypeOK, Shows, Placed, Waiting, Open, LookAtTab,
     Go, tabVars
<1>7. OwnHost'
  BY NoneAssumption DEF ChromeInv, TypeOK, HasTab, TabKeepsHost, Shows, OwnHost,
     Placed, Waiting, Open, LookAtTab, Go, tabVars
<1> QED BY <1>1, <1>2, <1>3, <1>4, <1>5, <1>6, <1>7 DEF ChromeInv

\* Who awaits was told that the tab loads, and has not seen it complete.
LEMMA TabIsKnownInv ==
    ASSUME NEW r \in Request, ChromeInv, TabIsKnown(r)
    PROVE  ChromeInv'
<1>1. TypeOK'
  <2>1. pc' \in [Request -> Waiting \union {"idle", "query", "create", "send", "fetching",
                                            "answered", "dropped"}]
        /\ got' \in [Request -> {"nothing", "response", "badGateway", "shapeless"}]
    BY DEF ChromeInv, TypeOK, Waiting, TabIsKnown, RejectIn, Resolve,
       Cleanup, Go, waitVars, tabVars
  <2>2. snap' \in [Request -> {"unknown", "loading", "complete", "closed"}]
        /\ seen' \in [Request -> BOOLEAN]
    BY DEF ChromeInv, TypeOK, Waiting, TabIsKnown, RejectIn, Resolve,
       Cleanup, Go, waitVars, tabVars
  <2>3. timer' \in [Request -> {"off", "armed", "fired"}] /\ listening' \subseteq Request
    BY DEF ChromeInv, TypeOK, Waiting, TabIsKnown, RejectIn, Resolve,
       Cleanup, Go, waitVars, tabVars
  <2>4. ASSUME NEW q \in Request, Underway(q)' PROVE pc'[q] \in Waiting
    <3>1. CASE q = r
      <4>1. CASE Cleanup(r)
        BY <2>4, <3>1, <4>1 DEF ChromeInv, TypeOK, Cleanup, Underway
      <4>2. CASE pc'[r] = "await"
        BY <3>1, <4>2, <2>1 DEF Waiting
      <4> QED BY <4>1, <4>2 DEF TabIsKnown, Go, ChromeInv, TypeOK
    <3>2. CASE q # r
      <4>1. /\ timer'[q] = timer[q] /\ seen'[q] = seen[q] /\ snap'[q] = snap[q]
            /\ q \in listening' => q \in listening
        BY <3>2 DEF ChromeInv, TypeOK, TabIsKnown, Cleanup, waitVars
      <4>2. pc'[q] = pc[q]
        BY <3>2 DEF ChromeInv, TypeOK, TabIsKnown, RejectIn, Resolve, Go
      <4> QED BY <2>4, <4>1, <4>2 DEF ChromeInv, TypeOK, Underway
    <3> QED BY <3>1, <3>2
  <2> QED BY <2>1, <2>2, <2>3, <2>4 DEF ChromeInv, TypeOK, TabIsKnown, tabVars
<1>2. HasTab'
  BY NoneAssumption DEF ChromeInv, TypeOK, HasTab, Placed, Waiting, Open,
     TabIsKnown, RejectIn, Resolve, Cleanup, Go, waitVars, tabVars
<1>3. LoadKnown'
  BY NoneAssumption DEF ChromeInv, TypeOK, HasTab, LoadKnown, Hears, Awaits, Placed,
     Waiting, Open, TabIsKnown, RejectIn, Resolve, Cleanup, Go, waitVars, tabVars
<1>4. Awaits' /\ Hears'
  BY NoneAssumption DEF ChromeInv, TypeOK, LoadKnown, Hears, Awaits, Placed, Waiting,
     Open, TabIsKnown, RejectIn, Resolve, Cleanup, Go, waitVars, tabVars
<1>5. TabKeepsHost'
  BY NoneAssumption DEF ChromeInv, TypeOK, HasTab, TabKeepsHost, Shows, Placed,
     Waiting, Open, TabIsKnown, RejectIn, Resolve, Cleanup, Go, waitVars, tabVars
<1>6. Shows'
  BY NoneAssumption DEF ChromeInv, TypeOK, Shows, Placed, Waiting, Open,
     TabIsKnown, RejectIn, Resolve, Cleanup, Go, waitVars, tabVars
<1>7. OwnHost'
  BY NoneAssumption DEF ChromeInv, TypeOK, HasTab, TabKeepsHost, Shows, OwnHost,
     Placed, Waiting, Open, TabIsKnown, RejectIn, Resolve, Cleanup, Go, waitVars, tabVars
<1> QED BY <1>1, <1>2, <1>3, <1>4, <1>5, <1>6, <1>7 DEF ChromeInv

\* The timeout ends the wait, or is remembered until it begins.
LEMMA TimedOutInv ==
    ASSUME NEW r \in Request, ChromeInv, TimedOut(r)
    PROVE  ChromeInv'
<1>1. TypeOK'
  <2>1. pc' \in [Request -> Waiting \union {"idle", "query", "create", "send", "fetching",
                                            "answered", "dropped"}]
        /\ got' \in [Request -> {"nothing", "response", "badGateway", "shapeless"}]
    BY DEF ChromeInv, TypeOK, Waiting, TimedOut, RejectIn, Resolve,
       Cleanup, Go, waitVars, tabVars
  <2>2. snap' \in [Request -> {"unknown", "loading", "complete", "closed"}]
        /\ seen' \in [Request -> BOOLEAN]
    BY ZenonT(40) DEF ChromeInv, TypeOK, Waiting, TimedOut, RejectIn, Resolve,
       Cleanup, Go, waitVars, tabVars
  <2>3. timer' \in [Request -> {"off", "armed", "fired"}] /\ listening' \subseteq Request
    BY DEF ChromeInv, TypeOK, Waiting, TimedOut, RejectIn, Resolve,
       Cleanup, Go, waitVars, tabVars
  <2>4. ASSUME NEW q \in Request, Underway(q)' PROVE pc'[q] \in Waiting
    <3>1. CASE q = r
      <4>1. CASE Cleanup(r)
        BY <2>4, <3>1, <4>1 DEF ChromeInv, TypeOK, Cleanup, Underway
      <4>2. CASE pc'[r] = pc[r] /\ timer[r] = "armed"
        BY <3>1, <4>2, <2>1 DEF Waiting, ChromeInv, TypeOK, Underway
      <4> QED BY <4>1, <4>2 DEF TimedOut
    <3>2. CASE q # r
      <4>1. /\ timer'[q] = timer[q] /\ seen'[q] = seen[q] /\ snap'[q] = snap[q]
            /\ q \in listening' => q \in listening
        BY <3>2 DEF ChromeInv, TypeOK, TimedOut, Cleanup, waitVars
      <4>2. pc'[q] = pc[q]
        BY <3>2 DEF ChromeInv, TypeOK, TimedOut, RejectIn, Resolve, Go
      <4> QED BY <2>4, <4>1, <4>2 DEF ChromeInv, TypeOK, Underway
    <3> QED BY <3>1, <3>2
  <2> QED BY <2>1, <2>2, <2>3, <2>4 DEF ChromeInv, TypeOK, TimedOut, tabVars
<1>2. HasTab'
  BY NoneAssumption DEF ChromeInv, TypeOK, HasTab, Placed, Waiting, Open, TimedOut,
     RejectIn, Resolve, Cleanup, Go, waitVars, tabVars
<1>3. LoadKnown'
  BY NoneAssumption DEF ChromeInv, TypeOK, HasTab, LoadKnown, Hears, Awaits, Placed,
     Waiting, Open, TimedOut, RejectIn, Resolve, Cleanup, Go, waitVars, tabVars
<1>4. Awaits' /\ Hears'
  BY NoneAssumption DEF ChromeInv, TypeOK, LoadKnown, Hears, Awaits, Placed, Waiting,
     Open, TimedOut, RejectIn, Resolve, Cleanup, Go, waitVars, tabVars
<1>5. TabKeepsHost'
  BY NoneAssumption DEF ChromeInv, TypeOK, HasTab, TabKeepsHost, Shows, Placed,
     Waiting, Open, TimedOut, RejectIn, Resolve, Cleanup, Go, waitVars, tabVars
<1>6. Shows'
  BY NoneAssumption DEF ChromeInv, TypeOK, Shows, Placed, Waiting, Open, TimedOut,
     RejectIn, Resolve, Cleanup, Go, waitVars, tabVars
<1>7. OwnHost'
  BY NoneAssumption DEF ChromeInv, TypeOK, HasTab, TabKeepsHost, Shows, OwnHost,
     Placed, Waiting, Open, TimedOut, RejectIn, Resolve, Cleanup, Go, waitVars, tabVars
<1> QED BY <1>1, <1>2, <1>3, <1>4, <1>5, <1>6, <1>7 DEF ChromeInv

\* The content script is of the host the tab shows.
LEMMA SendToTabInv ==
    ASSUME NEW r \in Request, ChromeInv, SendToTab(r)
    PROVE  ChromeInv'
<1>1. TypeOK'
  BY NoneAssumption, SMTT(30) DEF ChromeInv, TypeOK, Underway, HasTab, Placed, Waiting, Open,
     SendToTab, Go, waitVars, tabVars
<1>2. HasTab'
  BY NoneAssumption DEF ChromeInv, TypeOK, HasTab, Placed, Waiting, Open,
     SendToTab, Go, waitVars, tabVars
<1>3. LoadKnown'
  BY NoneAssumption DEF ChromeInv, TypeOK, HasTab, LoadKnown, Hears, Awaits, Placed,
     Waiting, Open, SendToTab, Go, waitVars, tabVars
<1>4. Awaits' /\ Hears'
  BY NoneAssumption DEF ChromeInv, TypeOK, LoadKnown, Hears, Awaits, Placed, Waiting,
     Open, SendToTab, Go, waitVars, tabVars
<1>5. TabKeepsHost'
  BY NoneAssumption DEF ChromeInv, TypeOK, HasTab, TabKeepsHost, Shows, Placed,
     Waiting, Open, SendToTab, Go, waitVars, tabVars
<1>6. Shows'
  BY NoneAssumption DEF ChromeInv, TypeOK, Shows, Placed, Waiting, Open, SendToTab,
     Go, waitVars, tabVars
<1>7. OwnHost'
  BY NoneAssumption DEF ChromeInv, TypeOK, HasTab, TabKeepsHost, Shows, OwnHost,
     Placed, Waiting, Open, SendToTab, Go, waitVars, tabVars
<1> QED BY <1>1, <1>2, <1>3, <1>4, <1>5, <1>6, <1>7 DEF ChromeInv

\* A fetch that has ended runs nowhere.
LEMMA FetchedInv ==
    ASSUME NEW r \in Request, ChromeInv, Fetched(r)
    PROVE  ChromeInv'
<1>1. TypeOK'
  <2>1. /\ pc' \in [Request -> Waiting \union {"idle", "query", "create", "send", "fetching",
                                               "answered", "dropped"}]
        /\ got' \in [Request -> {"nothing", "response", "badGateway", "shapeless"}]
    BY DEF ChromeInv, TypeOK, Fetched, RejectIn, Resolve, Go
  <2>2. at' \in [Request -> Host \union {None}]
    BY DEF ChromeInv, TypeOK, Fetched
  <2>3. ASSUME NEW q \in Request, Underway(q)' PROVE pc'[q] \in Waiting
    BY <2>3 DEF ChromeInv, TypeOK, Underway, Waiting, Fetched, RejectIn, Resolve, Go, waitVars
  <2> QED BY <2>1, <2>2, <2>3 DEF ChromeInv, TypeOK, Fetched, waitVars, tabVars
<1>2. HasTab'
  BY NoneAssumption DEF ChromeInv, TypeOK, HasTab, Placed, Waiting, Open, Fetched,
     RejectIn, Resolve, Go, waitVars, tabVars
<1>3. LoadKnown'
  BY NoneAssumption DEF ChromeInv, TypeOK, HasTab, LoadKnown, Hears, Awaits, Placed,
     Waiting, Open, Fetched, RejectIn, Resolve, Go, waitVars, tabVars
<1>4. Awaits' /\ Hears'
  BY NoneAssumption DEF ChromeInv, TypeOK, LoadKnown, Hears, Awaits, Placed, Waiting,
     Open, Fetched, RejectIn, Resolve, Go, waitVars, tabVars
<1>5. TabKeepsHost'
  BY NoneAssumption DEF ChromeInv, TypeOK, HasTab, TabKeepsHost, Shows, Placed,
     Waiting, Open, Fetched, RejectIn, Resolve, Go, waitVars, tabVars
<1>6. Shows'
  BY NoneAssumption DEF ChromeInv, TypeOK, Shows, Placed, Waiting, Open, Fetched,
     RejectIn, Resolve, Go, waitVars, tabVars
<1>7. OwnHost'
  BY NoneAssumption DEF ChromeInv, TypeOK, HasTab, TabKeepsHost, Shows, OwnHost,
     Placed, Waiting, Open, Fetched, RejectIn, Resolve, Go, waitVars, tabVars
<1> QED BY <1>1, <1>2, <1>3, <1>4, <1>5, <1>6, <1>7 DEF ChromeInv

\* Whoever waits for the tab hears that it has loaded.
LEMMA LoadsInv ==
    ASSUME NEW t \in Tab, ChromeInv, Loads(t)
    PROVE  ChromeInv'
<1>1. TypeOK'
  <2>1. /\ tab' \in [Tab -> [host : Host \union {None}, ready : BOOLEAN,
                            status : {"unborn", "loading", "complete", "closed"}]]
        /\ seen' \in [Request -> BOOLEAN]
    BY DEF ChromeInv, TypeOK, Loads
  <2>2. /\ pc' \in [Request -> Waiting \union {"idle", "query", "create", "send", "fetching",
                                               "answered", "dropped"}]
        /\ timer' \in [Request -> {"off", "armed", "fired"}]
        /\ snap' \in [Request -> {"unknown", "loading", "complete", "closed"}]
        /\ listening' \subseteq Request
    BY DEF ChromeInv, TypeOK, Loads, Proceed
  <2>3. ASSUME NEW q \in Request, Underway(q)' PROVE pc'[q] \in Waiting
    <3>1. CASE q \in Hearing(t, {"await"})
      BY <2>3, <3>1 DEF ChromeInv, TypeOK, Awaits, Loads, Proceed, Hearing, AtTab, Underway
    <3>2. CASE q \notin Hearing(t, {"await"})
      <4>1. /\ pc'[q] = pc[q] /\ timer'[q] = timer[q] /\ snap'[q] = snap[q]
            /\ q \in listening' => q \in listening
            /\ seen'[q] => seen[q] \/ q \in listening
        BY <3>2 DEF Loads, Proceed
      <4> QED BY <2>3, <4>1 DEF ChromeInv, TypeOK, Underway
    <3> QED BY <3>1, <3>2
  <2> QED BY <2>1, <2>2, <2>3 DEF ChromeInv, TypeOK, Loads
<1>2. HasTab'
  <2>1. \A q \in Request : pc'[q] \in Placed => pc[q] \in Placed
    BY DEF Loads, Proceed, Hearing, AtTab, Placed, ChromeInv, TypeOK
  <2>2. \A u \in Tab : tab[u].status # "unborn" => tab'[u].status # "unborn"
    BY DEF Loads, ChromeInv, TypeOK
  <2> QED BY <2>1, <2>2 DEF ChromeInv, HasTab, Loads
<1>3. LoadKnown'
  <2>1. ASSUME NEW q \in Request, pc'[q] \in {"gotten", "await"}, snap'[q] = "loading", ~seen'[q]
        PROVE  pc[q] \in {"gotten", "await"} /\ snap[q] = "loading" /\ ~seen[q] /\ tabOf[q] # t
    BY <2>1 DEF ChromeInv, TypeOK, Hears, Waiting, Loads, Proceed, Hearing, AtTab
  <2>2. \A u \in Tab \ {t} : tab'[u] = tab[u]
    BY DEF Loads, ChromeInv, TypeOK
  <2>3. \A q \in Request : pc[q] \in {"gotten", "await"} => tabOf[q] \in Tab
    BY DEF ChromeInv, HasTab, Placed
  <2> QED BY <2>1, <2>2, <2>3 DEF ChromeInv, LoadKnown, Loads
<1>4. Awaits' /\ Hears'
  BY NoneAssumption DEF ChromeInv, TypeOK, LoadKnown, Hears, Awaits, Placed, Waiting,
     Open, Loads, Proceed, Hearing, AtTab
<1>5. TabKeepsHost'
  BY NoneAssumption DEF ChromeInv, TypeOK, HasTab, TabKeepsHost, Shows, Placed,
     Waiting, Open, Loads, Proceed, Hearing, AtTab
<1>6. Shows'
  BY NoneAssumption DEF ChromeInv, TypeOK, Shows, Placed, Waiting, Open, Loads,
     Proceed, Hearing, AtTab
<1>7. OwnHost'
  BY NoneAssumption DEF ChromeInv, TypeOK, HasTab, TabKeepsHost, Shows, OwnHost,
     Placed, Waiting, Open, Loads, Proceed, Hearing, AtTab
<1> QED BY <1>1, <1>2, <1>3, <1>4, <1>5, <1>6, <1>7 DEF ChromeInv

\* A content script changes neither host nor status of its tab.
LEMMA InjectedInv ==
    ASSUME NEW t \in Tab, ChromeInv, Injected(t)
    PROVE  ChromeInv'
<1>1. TypeOK'
  <2>1. tab' \in [Tab -> [host : Host \union {None}, ready : BOOLEAN,
                         status : {"unborn", "loading", "complete", "closed"}]]
    BY ZenonT(40) DEF ChromeInv, TypeOK, Injected
  <2> QED BY <2>1 DEF ChromeInv, TypeOK, Underway, Injected, waitVars, tabVars
<1>2. HasTab'
  BY NoneAssumption DEF ChromeInv, TypeOK, HasTab, Placed, Waiting, Open, Injected,
     waitVars, tabVars
<1>3. LoadKnown'
  BY NoneAssumption DEF ChromeInv, TypeOK, HasTab, LoadKnown, Hears, Awaits, Placed,
     Waiting, Open, Injected, waitVars, tabVars
<1>4. Awaits' /\ Hears'
  BY NoneAssumption DEF ChromeInv, TypeOK, LoadKnown, Hears, Awaits, Placed, Waiting,
     Open, Injected, waitVars, tabVars
<1>5. TabKeepsHost'
  BY NoneAssumption DEF ChromeInv, TypeOK, HasTab, TabKeepsHost, Shows, Placed,
     Waiting, Open, Injected, waitVars, tabVars
<1>6. Shows'
  BY NoneAssumption DEF ChromeInv, TypeOK, Shows, Placed, Waiting, Open, Injected,
     waitVars, tabVars
<1>7. OwnHost'
  BY NoneAssumption DEF ChromeInv, TypeOK, HasTab, TabKeepsHost, Shows, OwnHost,
     Placed, Waiting, Open, Injected, waitVars, tabVars
<1> QED BY <1>1, <1>2, <1>3, <1>4, <1>5, <1>6, <1>7 DEF ChromeInv

\* A tab that navigates has moved, and interrupts what its page did.
LEMMA NavigatesInv ==
    ASSUME NEW t \in Tab, ChromeInv, Navigates(t)
    PROVE  ChromeInv'
<1>1. TypeOK'
  BY NoneAssumption DEF ChromeInv, TypeOK, Underway, HasTab, Placed, Waiting, Open,
     Navigates, Interrupt, AtTab, waitVars, tabVars
<1>2. HasTab'
  BY NoneAssumption DEF ChromeInv, TypeOK, HasTab, Placed, Waiting, Open,
     Navigates, Interrupt, AtTab, waitVars, tabVars
<1>3. LoadKnown'
  BY NoneAssumption DEF ChromeInv, TypeOK, HasTab, LoadKnown, Hears, Awaits, Placed,
     Waiting, Open, Navigates, Interrupt, AtTab, waitVars, tabVars
<1>4. Awaits' /\ Hears'
  BY NoneAssumption DEF ChromeInv, TypeOK, LoadKnown, Hears, Awaits, Placed, Waiting,
     Open, Navigates, Interrupt, AtTab, waitVars, tabVars
<1>5. TabKeepsHost'
  BY NoneAssumption DEF ChromeInv, TypeOK, HasTab, TabKeepsHost, Shows, Placed,
     Waiting, Open, Navigates, Interrupt, AtTab, waitVars, tabVars
<1>6. Shows'
  BY NoneAssumption DEF ChromeInv, TypeOK, Shows, Placed, Waiting, Open, Navigates,
     Interrupt, AtTab, waitVars, tabVars
<1>7. OwnHost'
  BY NoneAssumption DEF ChromeInv, TypeOK, HasTab, TabKeepsHost, Shows, OwnHost,
     Placed, Waiting, Open, Navigates, Interrupt, AtTab, waitVars, tabVars
<1> QED BY <1>1, <1>2, <1>3, <1>4, <1>5, <1>6, <1>7 DEF ChromeInv

\* A tab that closes shows no host.
LEMMA ClosesInv ==
    ASSUME NEW t \in Tab, ChromeInv, Closes(t)
    PROVE  ChromeInv'
<1>1. TypeOK'
  BY NoneAssumption DEF ChromeInv, TypeOK, Underway, HasTab, Placed, Waiting, Open, Closes,
     Interrupt, AtTab, waitVars, tabVars
<1>2. HasTab'
  BY NoneAssumption DEF ChromeInv, TypeOK, HasTab, Placed, Waiting, Open, Closes,
     Interrupt, AtTab, waitVars, tabVars
<1>3. LoadKnown'
  BY NoneAssumption DEF ChromeInv, TypeOK, HasTab, LoadKnown, Hears, Awaits, Placed,
     Waiting, Open, Closes, Interrupt, AtTab, waitVars, tabVars
<1>4. Awaits' /\ Hears'
  BY NoneAssumption DEF ChromeInv, TypeOK, LoadKnown, Hears, Awaits, Placed, Waiting,
     Open, Closes, Interrupt, AtTab, waitVars, tabVars
<1>5. TabKeepsHost'
  BY NoneAssumption DEF ChromeInv, TypeOK, HasTab, TabKeepsHost, Shows, Placed,
     Waiting, Open, Closes, Interrupt, AtTab, waitVars, tabVars
<1>6. Shows'
  BY NoneAssumption DEF ChromeInv, TypeOK, Shows, Placed, Waiting, Open, Closes,
     Interrupt, AtTab, waitVars, tabVars
<1>7. OwnHost'
  BY NoneAssumption DEF ChromeInv, TypeOK, HasTab, TabKeepsHost, Shows, OwnHost,
     Placed, Waiting, Open, Closes, Interrupt, AtTab, waitVars, tabVars
<1> QED BY <1>1, <1>2, <1>3, <1>4, <1>5, <1>6, <1>7 DEF ChromeInv

\* Nor does a stuttering step disturb it.
LEMMA ChromeStutterInv == ChromeInv /\ UNCHANGED vars => ChromeInv'
BY DEF ChromeInv, TypeOK, Underway, HasTab, LoadKnown, Hears, Awaits, TabKeepsHost, Shows, OwnHost,
   Placed, Waiting, Open, vars, waitVars, tabVars

\* The invariant holds of every behaviour of the specification.
THEOREM ChromeInductive == Spec => []ChromeInv
<1>1. ChromeInv /\ [Next]_vars => ChromeInv'
  BY ChromeStutterInv, SendInv, FindTabInv, CreateTabInv, CreateFailsInv, LookAtTabInv,
     TabIsKnownInv, TimedOutInv, SendToTabInv, FetchedInv, LoadsInv, InjectedInv,
     NavigatesInv, ClosesInv DEF Next, Handle
<1> QED BY ChromeInitInv, <1>1, PTL DEF Spec

\* Whichever way waitForTabState ends, its timeout and its listener are gone, and
\* what they found out with them (tabs.ts:45-48).
THEOREM ChromeTypeCorrect == Spec => []TypeOK
<1>1. ChromeInv => TypeOK
  BY DEF ChromeInv
<1> QED BY ChromeInductive, <1>1, PTL

\* However load, listener and chrome.tabs.get interleave, nobody waits for a tab
\* that has loaded (tabs.ts:39-44).
THEOREM NoLoadIsMissed == Spec => []NoMissedLoad
<1>1. ChromeInv => NoMissedLoad
  BY DEF ChromeInv, LoadKnown, Awaits, NoMissedLoad
<1> QED BY ChromeInductive, <1>1, PTL

\* However many requests share tabs that navigate and close, each runs in a page of
\* its own host unless its tab moved on after it was chosen (tabs.ts:79, background.ts:25-29).
THEOREM EachOnItsHost == Spec => []OwnHost
<1>1. ChromeInv => OwnHost
  BY DEF ChromeInv
<1> QED BY ChromeInductive, <1>1, PTL
=============================================================================
