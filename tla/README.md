# http4t in TLA+

A verification development for [http4t](../src): the router of `bidi`, its client and its request lifecycles,
the path templates they share, the headers, queries and bodies of messages and the transports that carry them, the
node server with its body streams, the hand-over iterator of `core`, the Chrome extension and the document store example with its pool of database clients. Every definition is
translated from the source; `PROJECT.json` maps each to the lines it stands for. Paths below are relative to
`src/`, and `P` is `src/packages`.

## 1. The system

http4t is a set of TypeScript packages around one interface, `HttpHandler.handle(request): Promise<response>`
(`P/core/src/contract.ts`). All code runs on one thread: what interleaves are promise continuations, callbacks
of node, Chrome and Postgres, and processes at the two ends of a connection. One action of a model is the code
between two awaits.

| Component | State it keeps | Operations | Hard behaviour |
|---|---|---|---|
| core `AsyncIteratorHandler` | two queues, the methods it has replaced by others | `next`, `push`, `end`, `error` | producer and consumer in any order; endings |
| bidi `Router` | the ordered routes; per request the position in the loop | `handle` | nested catches; promises returned without `await` |
| bidi lifecycles | debug: one map shared by all requests in flight | `begin`, `mismatch`, `match`, `clientError`, `serverError`, `noMatchFound` | requests interleave; a call may fail half-way |
| bidi lenses, auth, `bidi-jwt` | none | `get`, `set` | which failure of several is reported |
| bidi paths | none | `expand`, `consume` | what one side writes and the other reads |
| bidi client | none | one function per route | telling an api result from a routing failure |
| node server, streams | sockets, listeners on the body | adapter, `close`, body iteration | a body read twice, broken off, partly written |
| node client, browser, lambda | none | `handle` | lost connections; what a transport makes of headers and bodies |
| chrome-extension | tabs (Chrome's), a timer and a listener per wait | background and content script handlers | tabs load, navigate and close meanwhile; a timeout |
| example document store | rows in Postgres, pool of clients, credentials in memory | `get`, `post`, `storeDocThenFail`, `test`, `register`, `login`, probes | transactions race, statements are refused, the process dies |
| core messages: headers, queries, bodies | the body, where it can be read once only | header and query operations, `bufferText`, `bodyJson`, `parseJson`, … | casing, encodings, chunks that cut characters, bodies read twice |
| core uris and filters | none | pure functions | edges of strings and lists |
| result | none | problems along JSON paths, `JsonPathError` | several problems at or inside of one place |

How they interact. A **client function** (`bidi/src/client.ts`) writes a request with the route's lens, hands it
to a handler (in memory, node's `ClientHandler`, or `FetchHandler`) and reads the response with the route's
other lens. On the other side **`NodeServer`** turns node's callbacks into a call of **`Router.handle`**, which
asks the request lens of one route after the other (a lens reads the path, the headers and maybe the streamed
body), builds the api, calls its function and tells the **lifecycle** what happened; the lifecycle makes the
response and marks it with the `Http4t-RouteResult` header, which the client looks at. In the example each api is
built over a **transaction**: every function is decorated with BEGIN, COMMIT or ROLLBACK and the release of its
pool client.

What makes each correct:

* the iterator: no chunk lost, doubled or reordered; nobody waits after an ending;
* the router: one function, the first that matches by name, runs at most once; the answer says what happened; every
  request settles;
* the debug lifecycle: a request is reported with its own mismatches; the map does not grow;
* the node server: no lens accepts a part of a body; every request is answered; `close()` completes;
* the client: a call returns what its function returned, or throws; tokens decide about secured routes only;
* paths: the server reads what the client wrote, and nothing else;
* messages: an operation changes what its name says and nothing else; what a program wrote, the program on the other
  side of a transport reads;
* reports: what no lens could read is told, all of it, at its place;
* the document store: acknowledged means stored, failed means rolled back, clients come back to the pool;
* the extension: the request is executed by a page of its own host, and answered.

Where each of these could go wrong, line by line, is the list `hazards` in `PROJECT.json`.

## 2. Modules

| Module | Models | Composes |
|---|---|---|
| `IteratorContract` | *abstract*: a log of pushes, a count of `next()` calls and an ending | |
| `AsyncIterator` | `P/core/src/util/AsyncIteratorHandler.ts` | implements `IteratorContract` |
| `Router` | `P/bidi/src/router.ts`, any lifecycle | |
| `DebugLifecycle` | `DebugRequestLifecycle.ts` | extends `Router` |
| `Lifecycles` | `new Router(routes, lifecycle)`: either one of which nothing is known, or the debugging one | extends `DebugLifecycle` |
| `NodeBody` | `readableStreamToBody` over node's flowing streams | |
| `ProductionServer` | `NodeServer`, its adapter, `ProductionRequestLifecycle`, body-reading lenses | extends `Router`, instantiates `NodeBody` |
| `CallContract` | *abstract*: to its caller, a client function is the api function or an exception | |
| `BidiCall` | `bidi/src/client.ts`, lenses, auth, jwt, the transports | extends `Router`, implements `CallContract` |
| `Paths` | `bidi/src/paths`, `PathLens`, the uri functions they use | |
| `Picks` | what `filter` leaves of an array, by the places of what it keeps | |
| `MessageHeaders` | `core/src/headers.ts`, what the seven ways of the transports make of headers, and the headers they write themselves | |
| `MessageQuery` | `core/src/queries.ts`, `urlEncoding.ts` | |
| `MessageBody` | `core/src/bodies.ts`, `json.ts`, `buffered.ts` and the ways of the transports with a body | |
| `MessageContract` | *abstract*: headers and queries as lists of values by name, one action per operation | |
| `Problems` | `result/src/JsonPathResult.ts`, `JsonPathError.ts`, the failing of lenses inside each other, `client.ts`'s errors | |
| `Messages` | a message with all four parts, and a response that is read | extends the five above, implements `MessageContract` |
| `DocStoreContract` | *abstract*: documents that are written once, read and refused atomically | |
| `DocStore` | the example's api functions, `decorate`, transactions, the pool, Postgres | implements `DocStoreContract` |
| `ChromeExtension` | `FetchViaBackgroundScript`, `background`, `contentscript`, `util/tabs` | |
| `MC…` | instances for TLC | each extends its module |
| `AsyncIteratorProofs`, `RouterProofs`, `LifecycleProofs`, `BidiCallProofs`, `MessagesProofs`, `WholeMessageProofs`, `DocStoreProofs`, `ChromeExtensionProofs` | theorems | each extends its module; `LifecycleProofs` (for `DebugLifecycle` and `ProductionServer`) and `BidiCallProofs` extend `RouterProofs`, too; `WholeMessageProofs` (contract, reports) extends `MessagesProofs` (paths, bodies, headers, queries) |

Definitions named "Mutation of X" are not part of any specification. Each is X with a plausible bug; TLC finds
the property that `mutants` pairs with it violated when it stands in X's place.

### AsyncIterator

`pullQueue` holds the resolvers of waiting `next()` calls, `pushQueue` the buffered values, `status` which
methods have been replaced. `answers[k]` is the promise of the k-th `next()`. `PullBuffered`, `PullWaits` and
`PullFinal` are the three things `pull` can be; `EndAgain` and `Closed` are what `end`, `push` and `error` become.
The source asks in two TODOs (lines 3 and 50) whether the queues can be trusted: the theorems answer that.

### Router

`order` is the list the constructor sorts out of whatever `Object.entries` gives; `pc[r]` and `pos[r]` are where
`handle()` is. Each lens, api function and lifecycle call is an action with its possible ends: it returns, its
promise rejects, or it throws at once. The two kinds of failure differ because `router.ts` returns the promises
of `match`, `clientError`, `serverError` and `noMatchFound` without awaiting them: a throw is caught, a rejection
becomes that of `handle()`. `ReturnedCall` is that rule. `verdict`, `ran` and `failed` remember what lenses said,
what ran and what failed. The actions take their result as a parameter, so that the modules that extend `Router`
say when which result is possible.

### DebugLifecycle and Lifecycles

Adds the map `mismatches` from ids to the routes that did not match. A request carries no id header, the id of
another request, or a foreign one; `begin` makes an entry under its own id and `IdOf` is the first id header
found later. Printing can fail where it reads a body, and the order of printing and consuming the entry differs
between `match` and the others. `Lifecycles` is the router as it is constructed, with one lifecycle or the other, so
that one instance asks every question about the loop over the routes.

### NodeBody and ProductionServer

`NodeBody` is node's stream as `readableStreamToBody` uses it: iterating attaches listeners, the first makes the
stream flow, and what has been emitted is gone for a later iteration, the `end` event included. The sender may go
away at any time, before the first iteration too (`Broken`); who iterates after that hears nothing. In
`ProductionServer` a request has a body of at most `MaxChunks` chunks, the lenses of `JsonRoute` and `TextRoute`
read it (they treat a failure differently), the second lens of a `UnionRoute` reads it again after the first has
refused it, so does a route behind a union that answered `wrong-route`, and so does the error report of the
production lifecycle; the adapter answers 500 to what rejects, and `close()` waits for the connections of the clients
that are still there (`Gone` are the others). A reader that waits for what will never come is `Deaf`: it `Rereads` a body
that was read to its end, or `AsksTooLate` for the body of a client that has left.

### BidiCall and CallContract

A call has a place (method and path), a token, a body that is json or not, and a transport. `Send` is the client
up to `handle`; the server's actions are the router's with the lenses spelled out: `Unsecured` (method and path,
then body), `BearerGet`, `Verify`, `ClaimsGet`, each asked only where the one before succeeded (`Both`). `Results`
is what api functions return, among them an `AuthError` and a value that `JSON.stringify` refuses; a `boolean` or
`undefined` has no `JsonBody`. `Mark`, `Answered`, `Written` and `Received` are the way back; `ReadResult` and
`Validated` the client's reading of it. Connections break (`BreakOff`, `Disconnect`) and tokens expire (`Expire`).

`CallContract` knows functions, results and outcomes only. Its one exception, `FailUnseen`, is for routes whose
response lens is a bare `json()`, which takes an empty 500 for `undefined` when no header tells: after a
`serverError` that rejected, or a body that could not be written behind a header that already says `Success`.

### Paths

A text is a sequence of characters. A template is expanded one `Joined` level per step, received (unchanged in
memory; parsed out of the request line over node's http) and consumed one matcher per step. A consumer of
`consume.ts` is the relation `Takes` between where it starts and where it stops; `spans` are the captures.

### MessageHeaders, MessageQuery, MessageBody, Problems, Messages and MessageContract

A message is immutable: each operation makes a new one with one part changed, and no code reads one part to change
another. `Messages` therefore works on one `part` per behaviour and leaves the others alone.

* **Headers** are a sequence of pairs, as in the source. A program edits them (`Becomes`: append, set, update, remove,
  select, singly and in lists), then `Carry` takes them over one of seven ways. Each way has a map or an object in its
  middle; `Groups` is that object, keyed by the spelling of a name or by its lower case, and `Over…` is what each way
  keeps of a group. Values are sequences of tokens, because some ways join values or add a token of their own. The ways
  write headers, too, and those have the value `Itself`: node's client and server put `host`, `connection`, `date`,
  `keep-alive` and the length of the body (`Framing`) where the program wrote none (`Supply`), API Gateway its own into every
  event (`Gateway`), and a browser neither sends nor shows what is its own affair (`Forbidden`, `Hidden`). Left out are the
  headers of CloudFront, a browser's `accept` and `user-agent`, and which answers CORS lets a page see.
* **Queries** are kept encoded, as `uri.query` is, a sequence of pairs of units: characters, escapes, `+`, `=`, `%`.
  `Encode` and `Decode` are `urlEncoding.ts` with its replacement of the first occurrence only; `OthersDecode` is
  how everybody else reads a form, nothing between two `&`s being nothing; no code here contains that reader, and
  `OthersReadTheSame` is about it.
* **Bodies** have a `Kind` (data, a promise, an iterable, a generator, node's or fetch's stream, a `JsonBody`) and chunks of
  bytes; a character takes one byte, or a lead and a trail. Hops read, replace or convey the body; `Outcome` says
  which of them hang or throw on a body that was used.
* **Problems**: a response is the set of checks it `fails`; a lens is a tree of alternatives (`OnUnion`, `OnResult`) over
  readers, which fail with their first failing check (`Read`: intersections, named, static and mapped lenses). `Validate`
  and `RoutingError` are the client's two ways to throw; `Intertwingle` is `expected` in a `JsonPathError`, a tree whose
  parts are replaced by problems. `actual` is the exchange as the client makes it, with the one body for both
  messages (`Exchange`; section 6); a uri stands as one value, since no problem lies in it. `ReportTellsAll` compares
  that recursion with what is said of each place by itself, and
  what the lenses' recursion gives with the flat list of their readers (`ReadersOf`). What one lens or place makes of the others
  is an operator (`GetOf`, `ReadersIn`, `ShownAt`) and the recursion goes through it.

`MessageContract` knows no spelling and no encoding: `values` by lower-case name, `pairs` of decoded text. Its actions are
the operations, one for each, with the names and values they are given. `HeaderOperations` and `QueryOperations` tie each
operation of `Messages` to the action of the same name (`AddHeader` for *n* to `AppendHeader` for *n* in lower case, and so on),
so that `ContractSpec` fails if an operation does what another should, or nothing, or touches a name it was not given.
`Stray` is in the contract because the code does it (section 6) and no text denies it.
`Messages` implements it under the mapping `ValuesOf`, which is `getHeaderValues` of each name in lower case, and `PairsOf`,
the decoded pairs without those that are written as nothing: a pair of an empty name and no value leaves nothing between
two `&`s, and others read nothing there. `filter`, which most of these operations are, is `Pick` of the places of what it
keeps, so that the same definition can be checked and reasoned about.

### DocStore and DocStoreContract

One request passes `connect`, BEGIN, its statements, COMMIT or ROLLBACK, and the release; each is a round trip to
Postgres and so an action. `queue` and `holders` are the pool, `rows` what is committed, `written` what is
inserted in open transactions: an INSERT of an id that another transaction has inserted waits for its end
(`Writers`). `call`, `outcome` and `answer` are what was asked, what the function decided and what the user was
told; `unbegun` are the requests whose BEGIN was refused (it is awaited outside the `try`, so their client never
comes back) and `doubtful` those whose COMMIT was refused.

### ChromeExtension

`pc[r]` is where a request is between the page, the background script and the tab of its host. `snap`, `seen` and
`timer` are the three things `waitForTabState` races: `chrome.tabs.get`, the `onUpdated` listener and the timeout;
`listening` are the requests whose listener Chrome has. `lost` is history: the requests whose tab navigated after it had been
chosen for them, the only ones that `OwnHost` says nothing of.
Tabs load, get their content script, navigate and close at any time.

## 3. What is checked

| Run | Instance | States | Shows |
|---|---|---|---|
| `AsyncIterator` | 4 pushes, 5 `next()`, 2 values | 708 | order, endings, refinement of `IteratorContract` |
| `Lifecycles` | 2 requests, 3 routes listed in any order, either lifecycle | 26 802 | `FirstMatchRuns`, `AnswerTellsTruth`, `EveryRequestSettles`; for the debugging lifecycle `OwnMismatchesReported`, `LeftoversExplained` |
| `ProductionServer` | 2 requests, bodies of 0 or 1 chunk, 3 routes (no body, a union of two that parse it, text) | 346 742 | `AcceptedBodyIsWhole`, `AnsweredUnlessDeaf`, `CloseCompletes` |
| `BidiCall` | 2 calls, 3 routes and a place without, 5 kinds of token, 2 transports | 160 208 | `TokensDecide`, `RoutingFailureThrows`, refinement of `CallContract`, `EveryCallReturns` |
| `Messages` | *path*: 37 templates, all texts of up to 3 characters, foreign paths of up to 5; *headers*: 3 names, one in two spellings, 3 edits, 7 ways; *query*: 6 queries, 2 changes; *body*: 4 contents in all kinds and cuts, 3 hops; *lenses*: 57 trees of up to 3 readers, 64 sets of failed checks | 297 432 | `OnlySlashesAreSkipped`, `ServerUnderstandsClient`, `MatchedMeansWhatWasWritten`; `HeadersArrive`; `OthersReadTheSame`; `BodyKept`; `ReportTellsAll`; `ContractSpec`: each operation does what `MessageContract` says of it |
| `DocStore` | 3 requests, 2 ids, 2 users, 2 clients, 1 crash | 436 453 | `PostedIsStored`, `RollsBackOnError`, `ClientsComeBack`, refinement of `DocStoreContract` |
| `DocStoreProgress` | 3 requests, 1 id, 2 clients, 5 functions | 255 801 | `AnsweredUnlessDrained` |
| `ChromeExtension` | 2 requests, 2 hosts, 2 tabs | 424 576 | `NoMissedLoad`, `OwnHost`, `AnsweredUnlessUnheard` |
| `RejectedServerError`, `ServerErrorReport`, `FetchLosesRouteResult`, `ParsedBodyLost` | | | violations, section 6 |

Why the bounds are enough. *AsyncIterator*: either side runs ahead of the other by more than one, on both sides
of each ending. *Lifecycles*: three routes give one before and one behind the one that answers; two requests are
enough for one to take the other's entry; the second's header may be the first's id. *ProductionServer*: one chunk
is enough for a body to be read in part, in full, twice or broken; two requests make `close()` wait; the route
behind the union is the one that finds its body read. *BidiCall*: each lens of the example occurs on one of the
routes, and a second secured route stands before the one called; a kind of token reaches one place one way, since the
lenses that refuse it look at neither. *DocStore*: two transactions race for an id while a third waits for a client,
or all three wait for each other; an idle pool, an exhausted one and one that has lost its clients all occur. Users,
ids and requests are symmetric there, and the run has no liveness property. *ChromeExtension*: two requests
compete for one tab or create one each. *Messages*: each kind of matcher stands alone, behind a literal, before one
and behind a segment; three characters give a text a slash at each place. One name in two spellings and three
edits give every pattern of equal and unequal spellings with empty and other values; of the other names `Host` is one that
node's client, API Gateway and a browser write, and `Connection` one that both ends of node do.
The queries from elsewhere have every kind of escape, two pluses, two `=`, a stray `%` and no value; two
changes set a parameter another has just written. Content with a character of two bytes is cut at each place; three
hops are a middleware, a transport and a reader, or three of either. The readers' problems lie at one place, inside of
each other, at a key that is missing and inside of a text.

Bounds that exist only for checking are constants: `MaxPushes`, `MaxNexts` (AsyncIterator), `MaxChunks`
(NodeBody, ProductionServer), `MaxCrashes` (DocStore), `MaxEdits` (MessageHeaders), `MaxChanges` (MessageQuery), `MaxHops`
(MessageBody); `RemoveAll` is given at most two names; an open tab navigates to another host at most once (`moved`).
The theorems hold for all values of these constants. `CHECK_DEADLOCK FALSE` stands wherever all requests end or a
bound stops the program.

### Fairness

* `Router` and `Lifecycles`: weak fairness of each request's step: lenses, api functions and lifecycle calls come back, one way or
  another. Nothing in `handle` waits otherwise.
* `ProductionServer`: weak fairness of each request's handling, of its sender (which may break off instead, or before anyone
  listens) and of node's `close` callback. Who reads a stream that has already ended or been destroyed is not helped by it, and
  waits.
* `DocStore`: weak fairness of each request's statements and of the pool (`pg-pool` serves waiting requests in
  order). The api function's own failure is left out: an INSERT that waits for another transaction does not fail by itself.
* `ChromeExtension`: Chrome calls back, timers fire and fetches end; tabs need not load.
* `BidiCall`: promises that can be resolved are. Connections need neither hold nor break, tokens need not expire.

## 4. What is proved

For every value of the constants, by TLAPS (`tlapm M.tla` re-checks all of it):

| Theorem | Statement |
|---|---|
| `AsyncIteratorProofs!TypeCorrect`, `DeliversInOrder`, `ClosingAnswersAll` | `Spec => []TypeOK`, `[]InOrderOnce`, `[]NoneWaitsAfterClose` |
| `AsyncIteratorProofs!ImplementsContract` | `Spec => ContractSpec`: initial states map to initial states, every step to a step or a stutter |
| `RouterProofs!RouterTypeCorrect`, `FirstMatchAlways`, `AnswerAlwaysTrue` | any number of routes, listed in any order, and of requests |
| `LifecycleProofs!DebugTypeCorrect`, `OwnMismatchesAlways`, `LeftoversAlwaysExplained` | any routes, requests and ids they carry |
| `LifecycleProofs!DebugIsARouter`, `ProductionIsARouter` | `Spec => RouterSpec`, `ServerSpec => RouterSpec`: what is proved of the router with any lifecycle holds with this one |
| `LifecycleProofs!ProductionTypeCorrect`, `AcceptedBodiesAreWhole` | any routes, requests and sizes of bodies |
| `BidiCallProofs!CallTypeCorrect`, `TokensAlwaysDecide` | any routes, calls, tokens and transports |
| `BidiCallProofs!RoutingFailuresAlwaysThrow`, `CallsImplementContract` | the same, over transports that keep headers |
| `ChromeExtensionProofs!ChromeTypeCorrect`, `NoLoadIsMissed`, `EachOnItsHost` | any numbers of requests, hosts and tabs |
| `DocStoreProofs!TypeCorrect`, `AcknowledgedIsStored`, `FailureRollsBack`, `NoOtherLeak` | any numbers of requests, users, ids, clients and crashes |
| `DocStoreProofs!ImplementsContract` | `Spec => ContractSpec`, for the same |
| `MessagesProofs!PathsTypeCorrect`, `PathsReadWhole`, `Understood` | any alphabet, templates, texts and foreign paths |
| `MessagesProofs!MatchedAsWritten` | any alphabet; for paths that stay in memory, templates of literals, single segments and numbers, texts that are not blank |
| `MessagesProofs!BodiesAreKept` | any bytes, contents, kinds and cuts of bodies, chains of hops of any length |
| `MessagesProofs!HeadersTypeCorrect`, `HeadersCross` | any names with any lower case, values, batches, edits and number of operations; all seven ways, with the headers they write themselves |
| `MessagesProofs!QueryTypeCorrect`, `OthersUnchanged` | any letters, names, lists of values, foreign queries and number of operations |
| `WholeMessageProofs!MessagesImplementContract` | `MessagesSpec => ContractSpec`: each operation is the contract's of its name, for any of all those |
| `WholeMessageProofs!MessagesAreContract` | `MessagesSpec => Contract!Spec`, the abstract specification itself |
| `WholeMessageProofs!AlternativesAlwaysAsked`, `ReportsTellAll` | any lenses nested in any finite way, any checks and route name, any response |
| `WholeMessageProofs!MessageTypeCorrect` | `MessagesSpec => []MessageTypeOK` |
| `MessagesProofs!PathsOfMessages`, `BodiesOfMessages` | what holds of a part by itself holds in a message with all the others |

Assumptions are the named `ASSUME`s of the modules: bounds are numbers, routes are `1..n` in the order of their
names, sets of requests and ids are finite where they are counted, model values differ from real ones. Of messages:
there is a slash among the characters, and a template of one bare matcher has one piece (`PathsAssumption`); the lead
and the trail of a character, its replacement and zero are bytes (`BodyAssumption`); a lower case is its own lower case
and what browsers and API Gateway write is spelled so
(`HeadersAssumption`); the four characters that are escaped are characters and no escape is one, and a value is
undefined or one text (`QueryAssumption`); lenses are readers of the checks there are or ask other lenses, which were made before
them, so that a number says how far down the last reader is (`ProblemsAssumption`; TLC finds those numbers for the lenses of the run);
there is something to stand for the parts left alone (`MessagesAssumption`). Two theorems of
`BidiCallProofs` have the hypothesis `HeadersKept`, that `FetchHandler` is not among the transports; without it they are
false, as the run `FetchLosesRouteResult` shows.

Arguments:

* **Iterator.** `InOrderOnce` is not inductive: it says nothing of the queues. `IInv` determines both queues by two
  counts, the pushes and the `next()` calls: while open, the answered promises are the first `min` of both, the
  buffer is the pushes beyond, the waiting resolvers are the calls beyond. Each action is then arithmetic on those
  two counts, and the abstract log is read off the same facts.
* **Router.** `RInv` says that every route before `pos` was refused, that the verdict on the current one is what led
  to the current call, and that a function has run only for it and only after its lens accepted. `AlphaOrdered` lists every
  route once in ascending order, so "before in the list" is "smaller name".
* **Debugging lifecycle.** `DebugIsARouter` gives `RInv`. `DebugInv` adds `KeepsList`: while a request whose id nobody
  copied (`Isolated`) is in the loop, its entry lists the routes before `pos`; and `TellsList`: with its answer that list
  has been printed. A step of a request does one of four things to the map, `Opens`, `Extends`, `LeavesAlone` or
  `Closes`, and each lemma is about one of these instead of nine actions. The heart is non-interference: the
  id another request looks up is never that of an isolated one.
* **Production server.** `AcceptedBodyIsWhole` needs to know who was there when the stream began. `FlowsOnce` says that
  while it is open at most one reader exists, who attached before the first chunk; that a reader gets to `whole` only
  when the stream has ended; and that nobody else reads between two readings. `AcceptsEnded` then speaks of the verdicts.
* **Calls.** `CallInv` is `RInv` with three facts on each call: `Asked`, a lens accepts or fails only at the call's place,
  and claims are those of its token; `Computed`, what was built is the encoding of what the function returned; `Told`,
  a call that has an outcome of its own has been settled on the server. `TokensDecide` follows from `Asked` and the
  router's `FirstMatchRuns`. For `CallContract`, one lemma per action maps it to `Run`, to an outcome, or to a stutter.
* **Extension.** `ChromeInv` says that whose request waits has its listener with Chrome (`Hears`), that a load is known
  either to that listener or to the answer of `chrome.tabs.get` that is under way (`LoadKnown`), that who awaits has been told
  of neither (`Awaits`), and that the tab chosen for a request shows its host unless it has navigated since, which is what puts
  a request into `lost` (`TabKeepsHost`).
* **Document store.** `DInv` adds to the properties where a post's row is while its request moves: not in `rows`
  before COMMIT (`Uncommitted`), in `written` while it is decided (`Posted`), in `rows` afterwards (`Stored`); and that the
  pool's queue holds each waiting request once (`QueueInv`) and clients belong to requests past `connect` (`HasClient`). One lemma per
  action and part. For `DocStoreContract`, `Fresh` says that nothing is told before the function has returned; a post takes
  place at its COMMIT, a get at its SELECT, and one lemma for each group of actions maps it to such a decision, to an
  answer, to an error or to a stutter.
* **Paths.** `PInv` says that nothing is captured before a path is received, and that captures are ordered and
  end before `at`. `Smallest` and `Greatest` (from well-foundedness) give the ends that `StripSlashes` and `FirstOf` choose.
  For what is read to be what was written, `LayInv` says where each stripped text lies (`Laid`) in what has been joined so
  far, and in the path that was received; node may only add a slash in front, or take an authority off (`Received` and `TwoLeads`).
  `UndInv` adds that the matchers so far have captured just those places. `MatchInv` goes the other way: where each matcher takes
  one segment, none has come further than the end of its text, and as far only where it captured it (`NoFurther`), so that a
  path that ends with the last matcher has been captured as it lies.
* **Bodies.** `BodyInv` ties the kind of a body to its chunks (`Fits`: data is one chunk, a promise is of one, and so
  on); what the chunks say together, whatever one hop after the other turns them into, is a concatenation (`Joins`,
  `Merges`), and each hop that is not one of the six lossy ones leaves what the body `Says` as it was, however it is cut.
* **Headers.** `HeadersInv` is short: until they are carried, headers are pairs of names and values; after that they are
  what the way makes of `sent`. The work is in what the ways compute. `Ordered` enumerates a set of places, `PickIs` says that `Pick`
  goes along it, `Grouped` that `Groups` are a partition of the list that keeps its order, one for each key (`Telling`: equal keys
  have equal lower cases), and `HasAll` that the headers of a name lie in one group. Whatever names a way
  adds headers of, it leaves what was written under them (`LeavesWritten`, `LeavesBut`) and under all others (`LeavesOthers`).
  Then each way of `Over…` is one lemma.
* **Queries.** `Encodes` says character by character what `encode` makes of a text, and `Decodes` what `decode` makes of
  that; so what http4t has written reads alike to others (`Shows`), and so does what it has read and written again, where it
  did not misread (`Rewritten`, `ReadSame`). `ReadFiltered` goes along a filtered query; each operation is `Untouched` for the
  names it is not about, batches by induction over their prefixes, of which a recursive function keeps count (`AppendSoFar`,
  `RemoveSoFar`). `Does` is what the seven actions have in common.
* **Contract of messages.** `Keep` is what is left of a list if only some members stay, and commutes with joining and with
  keeping others (`KeepBoth`, `KeepKept`); the headers of a name are `Keep(s, Called(k))` and the pairs of a query
  `Keep(DecodePairs(q), Something)`. So each operation is one lemma about the values of one name (`AddsOne`, `SetsAll`,
  `Updates`, `Leaves`) or about the pairs (`Adds`, `OthersOf`, `Removes`), where a pair that http4t writes is read as it was
  meant (`WritesPairs`). `Edits` and `Changes` say of one operation what list it leaves and that it leaves the other part alone, and
  `HeadersDo` and `QueryDo` go through the operations, one step each, to the contract's action of the same name; `ContractNext` gathers
  them into its next-state relation.
* **Reports.** A function that is defined by itself is what its definition says only if there is one: `GetsTo`, `ReadersTo` and
  `ShowsTo` build it up to any depth, where it depends on what lies deeper alone (`GetOfAsked`, `ShownAtAsked`), and
  `GetIs`, `ReadersOfIs` and `IntertwinglesAre` put those together. Then `LensesAnswer`, by induction over the depth: a lens gives
  what the first of its readers gives that accepts, or what each of them has to say (`Answers`); a result is a union whose
  alternatives tag what they give (`ResultIsUnion`). For what is shown, `Spread` says which places a value has; `ShapeIs`, that the exchange ends
  four keys down; `LiesAsShown`, that what lies at a place of the expected value is what the recursion shows there; and `Reached`, that
  each place is there which has no problem at it or above. None of this depends on what the body says: `Exchanged` is that
  the actual value is the exchange with some text. `ReportInv` is the types, `AlternativesAreAsked` and how `expected` is made.
* **Messages.** `MessagesNext` is a step of one part and leaves the variables of the others alone, so that
  `MessagesSpec` implements the specification of each part; where a part is not worked on it keeps the state that
  `MessagesAssumption` gives it.

**Only model-checked:**

* everything about liveness: `EveryRequestSettles`, `AnsweredUnlessDeaf`, `CloseCompletes`, `EveryCallReturns`,
  `AnsweredUnlessDrained`, `AnsweredUnlessUnheard` (fairness and `ENABLED` are beyond TLAPS 1.4.5).

All other invariants and action properties that the passing runs check, and all refinements, are theorems.

## 5. What is assumed of the world

* Node: a `Readable` with a `data` listener flows and emits `end` or `error` once; `server.close` calls back when
  every connection's response has ended or its client has left; a socket may break at any time, and before the body is first
  iterated too, when the `error` is emitted with nobody listening; a `ClientRequest` without an `error` listener ends the process.
* Headers that are nobody's but a transport's: `ClientRequest` adds `host`, `connection` and a length, `ServerResponse` `date`,
  `connection`, `keep-alive` and a length, where the program has set none; API Gateway writes `host`, `x-forwarded-*` and
  `x-amzn-trace-id` over what the client sent; browsers write the forbidden request headers themselves and hide `set-cookie`.
* `pg-pool`: `connect()` is first come, first served and has no timeout; a client that loses its connection while
  checked out is an unhandled `error`, which is the model's `Crash`; a ROLLBACK that is refused means that the
  connection, and with it the transaction, is gone.
* Postgres: READ COMMITTED, a unique index on `store.id`, no lock timeout; COMMIT refused may or may not have
  committed. The in-memory credentials are not part of any transaction.
* Chrome: `sendMessage` to a tab without a receiver answers `undefined`; a promise given to `sendResponse` arrives as
  `{}`; the background script runs.
* `jose`: `jwtVerify` accepts what was signed with the key and has not expired.

Definitions that stand for this code are `external` in the map.

## 6. Where code and text disagree

* **`ServerErrorReport`** — `router.ts:56` says that a `serverError` "would usually be a 500". With the production
  lifecycle, a request whose body was streamed and read by its lens, and whose function then fails, is never
  answered: the report iterates the ended stream again and waits for an `end` that has been. `close()` then waits too.
  `AnsweredUnlessDeaf` and `CloseCompletes` show when this can happen: while the client stays, reading a body again is the only
  way (the report, the second lens of a union, a route behind one). The other way to wait forever is to ask for the body of a client
  that has already left; `handle()` hangs there, too, but its client is gone and `close()` does not wait for it.
* **`RejectedServerError`** — `router.ts:59` promises an empty 500 if `serverError` throws. Its promise is returned
  without `await`, so that a rejection is `handle()`'s own.
* **`FetchLosesRouteResult`** — `client.ts:50-51` wants routing failures to throw at once. `toHttp4tResponse`
  (`P/browser/src/conversions.ts:56`) takes the arguments of `Headers.forEach` in the wrong order, so no header keeps
  its name and every response looks like a result.
* **`ParsedBodyLost`** — `json.ts:31` says that a `JsonBody` yields `JSON.stringify(data)` when it is streamed. `parseJson`
  (`json.ts:73`) does not await `bodyJson` and makes a `JsonBody` of the promise, so that whoever streams, buffers or sends
  the message gets `{}`. `bodyJson` alone still finds the data. `BodyKept` lists this with the five other ways to lose a body.

Three more texts are contradicted by what the models do, without a run of their own. The comment at `JsonPathError.ts:54` gives
`{right: 'right', wrong: {value: 'wrong', errors: ['error message']}}` as what `intertwingle` makes of a value that is wrong; it puts
the message, or the list of messages, in the value's place and drops the value (lines 74-78), as the package's `README.md:67-76` and
its test have it, and so does `ShownAt`. `JsonPathResult.ts:46` wants problems of two
schemas to be told apart by `producedBy`; `ResultLens` sees to it, but `prefix` (line 71), through which the client sends them,
makes problems without it (`Prefix`). `JsonPathError.ts:95` makes `actual` and `expected` depend on
`leakActualValuesInError`; the constructor sets them, and `showDiff`, always (`Thrown`).

Observed while modelling, and part of the models, but contradicting no text: the errors of the client show one body for
both messages, the request's where the server did not answer with a result (`client.ts:18` and `22`) and the response's where no lens
can read it (`client.ts:74` and `79`), so that one of the two bodies in `actual` is the other message's (`Exchange`); BEGIN is outside of the `try`, so a
refused BEGIN loses its client for good; `auth/logic.ts:14` signs `{payload: {userName}}` while `jwtToOurClaims`
reads `userName`, so tokens signed with `ed25519` at login are among the `Nameless` ones; an undefined answer
from a tab leaves the page's promise pending; `sendResponse` is given a promise where a failure is reported; a
template of one joined matcher expands to a path behind two slashes, which a wire turns into an authority;
base 16 numbers are written with letters and not read; a url whose authority cannot be parsed (`//a:b`) ends in an
empty 200 in the adapter's outer catch; `authErrorOr` over a bare `json()` would read every `AuthError` as a success
(an assumption of `BidiCall` excludes it; no route of the repository does it).

Of messages, in the same sense: over node a response keeps the last header of a name (`conversions.ts:43`); a lambda's
result has the value `true` for the first of several (`apiGateway.ts:22`); `XmlHttpHandler` leaves `\r` on values and adds
a header without a name (`xhr.ts:9`); only the first `+` of a query's value is read as a space (`urlEncoding.ts:4`);
adding no value to a query appends a parameter called `undefined` (`queries.ts:24`); a chunk that is a view on
a larger buffer is written with zeros behind it (`streams.ts:11`); a character cut in two by a chunk becomes two replacement
characters (`bodies.ts:107`); an iterable without chunks cannot be buffered as binary (`bodies.ts:48`); the second
lens of a union waits forever for a streamed body that the first has read (`UnionLens.ts:17`); what a mapped lens says of a field of
a body is in a client's error but never in its `expected`, where bodies are texts (`client.ts:79`).

## 7. Not modelled

* `result`: the helpers of `index.ts` (`map`, `recover`, `peek`, ...) but as branches of their callers; `merge` and `failure` of
  `JsonPathResult.ts`, which only tests call; texts. On the server lenses stand as their three outcomes, without problems.
* `UriTemplate`, filters, `host`, `LoggingHttpHandler`, `bin`, and all loggers and texts.
* What `NamedLenses`, `StaticValueLens` and `MapLens` set, and get when they succeed, which is another lens's; `BooleanPath`, `FloatPath`, radix 2; the
  check for missing keys of a path.
* Start-up of the example: `migrations.ts`, `DockerPgTransactionPool` with its retries, `main.ts`, closing the pool;
  `db.ts` has `decorate`'s shape with BEGIN inside the `try`.
* The node client's half-written requests; the events and urls of `XMLHttpRequest`, which stands in `MessageHeaders` and
  `MessageBody` by what it makes of a response.
* Numbers and dates as header values (`messages.ts:14-20`), the rejection of `parseJson`'s promise for a text that is no
  JSON and for a body that was used: these end in an unhandled rejection whose effect depends on the process's settings.
* Cryptography and signing (`jose`); Postgres, Chrome and node themselves, but for section 5. Build scripts.

## 8. Plan

Done, by importance to a request's way through the system: iterator, router, lifecycles, node server, document
store, extension, paths, client, messages; then the invariants of each of them proved, and six refinements; then what
crosses between two programs: paths, bodies, headers and queries.

Left:

1. *Modules.* The node client's
   request streaming, joined to `NodeBody` on both sides of a connection. `UriTemplate` with `Paths`' characters.
2. *Runs.* `DocStoreProgress` may be joined with `DocStore` when its state count allows it.
