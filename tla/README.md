# A verification project for sunnified

sunnified is a web framework for Go: applications that share one process, a
router, middlewares, controllers and views, and the libraries they use. This
directory holds TLA+ models of its core, the TLC configurations that check them
on small instances, and proofs that TLAPS checks for every instance.

Paths are relative to the repository; `sunny.go:287` is line 287 of that file.

## The system

| part | state | operations | what makes it correct |
|---|---|---|---|
| application lifecycle, `sunny.go` | `servers`, and per app `runners`, `closed`, `_callback` | NewSunnyApp, ServeRequestedEndPoint, Close, removeSunnyApp | the count is exact; nothing is cleared under a request; a closed app goes away and its callback runs once |
| graceful shutdown, `sunny_graceterm.go`, `sunny_graceshut.go` | `graceshut`, a copy of `servers`, a WaitGroup | GracefulShutDown | the process exits, and only when idle |
| request pipeline, `sunny.go:309-445` | deferred calls, response writer, context | the stages of one request | hooks are paired and ordered, panics are answered, every request ends |
| context and body parsing, `web/context.go`, `web/misc.go` | error, redirect, `parseState` | ParseRequestData, WaitRequestData, Close | a handler sees a parsed body; uploads are removed |
| controller manager, `mvc/controller/controller.go` | `prepared`, `executed`, `state`, view | Prepare, Execute, PublishView, Cleanup | Construct_ and Destruct_ are paired |
| route tree, `router/route.go` | nodes, end points, variable names | Handle, Switch, FindRequestedEndPoint | a request gets the handler and variables it was registered with |
| router tree, `router/router.go` | parents, named sub routers, matchers | AddRouter, DelRouter, FindRequestedEndPoint | parents and children agree; a refusal has no effect |
| controller registry, `mvc/controller/init.go` | modules, controllers, actions | Add, lookups | built once from Go types |
| WebSocket chat, `mvc/controller/websocket.go` | channels of users of connections, a RWMutex | AddClient, RemoveClient, Broadcast | a broadcast reaches each connection once and ends |
| template cache, `mvc/view.go` | two maps with timers | GetHTMLTmpl, GetTextTmpl | every entry is on its way out; no timer outlives its entry |
| static files, `handler/static.go` | `.gz` and `.gz.tmp` files | ServeHTTP | a compressed copy is whole and current |
| events, `util/event` | listeners, base router | Listen, Fire | listeners run; nobody waits for himself |
| middlewares, `mware` | registry of constructors | AddMiddleWare, GetMiddleWare | GetMiddleWare ends the process, `mware/base.go:34-35` |
| collections, `util/collection` | arrays and links | queue, stack, list, set, dictionaries, iterators | they behave as sequences, sets and functions |
| CSRF tokens and one-time passwords, `sec/sec.go`, `auth/otp` | counter, time windows | CSRFToken, Verify | a token is accepted in its window, an HOTP password once |
| migration, `store/sql.go` | schema version | Migrate | a retry finishes what a failure left |
| configuration, `config/config.go` | a tree of branches | Parse, Set, MakeBranch, Update, typed readers | it reads as the document is written, whatever the order of its maps |
| mail, virus scanner, utilities | | | sequential I/O and conversions |

The parts meet as follows. `net/http` runs each request on a goroutine of its
own, which calls ServeHTTP: the router tree finds the route tree that answers,
the route tree finds the end point, and ServeRequestedEndPoint runs the pipeline,
which calls middlewares, the controller manager, views and event listeners, and
starts one more goroutine that parses the body. Close, the last request of a
closed app, and the shutdown goroutine meet in `runners`, `closed` and `servers`.

What is hard: the count and the flag are two separate atomics
(`sunny.go:287, 454-455`); code of the program runs at a dozen places and may
panic at each of them, with deferred calls as the only cleanup; the body is
parsed concurrently with a request that may be over first; routes are registered
in any order into shared nodes. `PROJECT.json` lists each of these hazards at
its line with the properties that would catch it.

## The modules

| module | models | run by |
|---|---|---|
| `SunnyApp` | the lifecycle | `MCSunnyApp` |
| `AppLife` | what the lifecycle promises: open, draining, gone | `MCSunnyApp` |
| `SunnyAppProofs` | theorems about it and `GracefulShutdown` | tlapm |
| `GracefulShutdown` | the shutdown goroutine composed with `SunnyApp` | `MCGracefulShutdown` |
| `RequestPipeline` | one request, with its parse goroutine | `RequestPipeline*.cfg` |
| `RequestPipelineProofs` | theorems about it | tlapm |
| `Routing` | the route tree | `MCRouting*.cfg` |
| `RoutingProofs` | theorems about it | tlapm |
| `RouterTree` | building the tree of routers around route trees | `MCRouterTree` |
| `RouterSearch` | extends it with the search of a request's router | `MCRouterTree` |
| `RouterTreeProofs` | theorems about `RouterTree` and `RouterSearch` | tlapm |
| `Deque` | a first-in first-out and a last-in first-out sequence | through `Chains` |
| `Chains` | Queue, Stack and the queue's iterator; implements `Deque` | `MCCollections` |
| `ArrayList` | List and Set | `MCCollections` |
| `Dictionaries` | OrderedDict | `MCCollections` |
| `PlainDict` | Dict and its iterator with a goroutine | `MCCollections` |
| `CollectionLocks` | the locks methods take of each other's collections | `MCCollections` |
| `OrderedDictProofs` | theorem about `Dictionaries` | tlapm |
| `CollectionsProofs` | theorems about the other collections and `CollectionLocks` | tlapm |
| `ConfigValues` | typed readers of Configuration and ValueGetter | `MCConfig` |
| `ConfigTree` | branches, includes and switches | `MCConfig` |
| `ConfigValuesProofs` | theorem about `ConfigValues` | tlapm |
| `WebsocketChat` | a channel with its broadcasts | `MCServices` |
| `GzipCache` | compressed copies of static files | `MCServices` |
| `TemplateCache` | cached templates and their timers | `MCServices` |
| `Migrate` | schema migration | `MCServices` |
| `Tokens` | CSRF tokens, HOTP and TOTP | `MCServices` |
| `ServicesProofs` | theorems about copies, the chat, templates, migration and tokens, side by side | tlapm |

Only `SunnyApp` has a type invariant that a run checks; the other proofs state
the types they need themselves. `MCCollections`,
`MCConfig` and `MCServices` hold parts that share no state; a behaviour is about
one of them, so nothing is multiplied.

Every module has operators whose comment begins "A mutant": each is a wrong
version of the definition that follows it, and shows that some property notices.

### SunnyApp

A thread is a request or a Close call. `pc[t]` says where it stands, `app[t]` on
which app. One action is one atomic operation or one critical section:

| action | code |
|---|---|
| NewSunnyApp | 487-505 |
| EnterRequest, CheckClosed, FinishRequest | 310, 313-315, the body of ServeRequestedEndPoint |
| DecRunners, DecCheckClosed | the two halves of line 287 |
| CloseRegister, CloseCAS, CloseDec | 448-452, 454, 455 |
| RemoveSunnyApp, RunCallback | 516-524, 258-265, by the thread that was last |

A request is allowed to start on any app at any time, removed ones included: a
server keeps its pointer to the app. `fired[c]` counts how often the function
given by Close call `c` was run. Callbacks do not call into the app again.

Close stores its function before it knows whether it wins (`sunny.go:448-452`), so
a call that loses can put its own in the winner's place. `WinnerIsCalledBack` says
no more than that this is all that can happen to it: when a call wins while a
function is stored, one function of a call on that app is run in the end, however
many other calls come, those without a function included.

`AppLife` is the abstract specification: an app is open, draining or gone, with
a set of requests being served and no counters. `SunnyApp` implements it
(`ImplementsAppLife`) under the mapping that reads the phase off `servers` and
`closed` and the set off the threads at "serving"; CheckClosed is the point where
a request is admitted, CloseCAS where the app starts to drain.

### GracefulShutdown

Extends `SunnyApp`: the goroutine's own Close calls are `ShutdownCall[a]`, every
other one is the program's. The callback of a shutdown call is `w.Done()`, so
RunCallback splits into a callback of the program, a Done, and a Done that panics
because the counter is 0 already. A panic in a request is recovered by
`net/http` (external), one in a Close call ends the process, as does Close on a
nil entry of the snapshot.

The properties are conditional on `NoUserClose`: when the program closes an app
itself as well, the code can count down twice for that app, or never, and the
process exits early, crashes or hangs. The model contains those behaviours.

### RequestPipeline

`pc` is the stage of ServeRequestedEndPoint, `defers` the stack of deferred
calls, `log` who was called in which order and whether the call returned. Code of
the program is one operator, `Call`, with seven outcomes: return, write a
response, set an error, set a redirect, raise an error, redirect, panic. A panic
goes to stage "unwind", where RunDefer pops one deferred call at a time; Recover
is the function deferred at line 330, CloseContext its second half, DecRunners
the call deferred at line 311. WriteHeader runs the Response hooks, of which any
may panic, which ends that loop and nothing else; a Response hook that sets an
error or a redirect on a response that is being written is left out.

`panicking` tells a panic on its way from none, whoever raised it: the program, or
the framework itself (the `Expect` header, `web/context.go:168`; the OPTIONS answer
of an end point without methods; `results[1]`, `controller.go:286`).
`PanicIsAnswered` is about all of them.

The parse goroutine is ParserStart and ParserEnd; it reads `c.Request`, which is
nil once the context is closed. Data is reduced to what the pipeline tells apart:
a status is "0", "200", "-1" or "error", a body is parsed or not, with or without
temporary files. Reflection (filling arguments and fields) succeeds or fails.
Constructor controllers go through Prepare as struct controllers do, without
Construct_ and Destruct_, and are not a case of their own.

### Routing

A node of the tree is the sequence of edges that leads to it, so the tree is a
prefix-closed set and pointers are not needed; optional variables and switches
name nodes of the same tree. Strings are pairs of a base and an extension, and
which of them parse as a number or match an expression is a constant. The lookup
returns a set of answers because Go walks the map of regular expressions in any
order; `Walks` is where it may be after each element of the path. `reg` records
the registrations, and the properties compare what the tree answers with what the
registrations say (`Accepts`, `LatestFor`).

`PatternsAssumption` says what the parser of a pattern gives: an element is hard
or has a variable ("_" when it is written without a name), and a path, once split,
has no empty element at its end unless it ended in a slash.

`OneAnswer` has a premise on the expressions, because without it the code answers
differently from one request to the next: expressions written without `^` and `$`
are added again by each registration, and of two expressions that match one
element, either may be asked first. "Match one element" includes the element with
and without its extension: FindEndPoint tries both (`route.go:329-342`), so x.y
that one expression matches and x that another one does are enough.

### RouterTree

A router has a parent, a map of named sub routers, a host and a path prefix.
`RouterTree` is how they are built and has no recursion, so that it can be proved
about. `displaced` are the routers whose name was given to another one: they keep
their parent. `nameless` are those under the empty name: DelRouter looks for a name
and takes "" for none (`router.go:519-536`), so ResetParent leaves such a router in
its former parent's map, and so it does an app, since it passes the inner router,
which is not what the map has.

`RouterSearch` adds the search; there a router's
route tree is reduced to the set of paths it answers. `Search` gives every answer
that some order of Go's maps leads to, with the value map as it is then. It is a
function of how deep the code's recursion may go, at most the number of routers:
AddRouter's bound keeps a router from being put below itself, and a search that
were cut short would have no answer, which `PlainRequestsServed` excludes. A router
that has fewer labels than another left over slices out of bounds
(`router.go:268`); that request has no answer in the model.
CanRouteRequest refuses a request as soon as one matcher matches
(`router.go:141-145`), so a router with a host serves every host but this one,
and what a matcher has cut from the path stays cut for its siblings
(`router.go:390`). `PlainRequestsServed` is stated for the requests in which the
second does not happen: each router of the tree accepts the request or refuses it
(`Accepts`, `Refuses`), for its host or for anything else, and leaves the path as
it is. Then who answers has the path and is `Open`, that is, neither it nor one
above it refuses; nobody answers only if no open router has the path; and the
search ends. What a request finds once a prefix was cut, or that a router is not
asked under its own prefix, is in the model but is no promise of the code, and no
property states it.

### Collections

Every method of a collection holds its mutex from beginning to end, so a call is
an action; calls are made in any order until the bound on nodes or capacity.
Queue and Stack refine `Deque` under the mapping that reads ToSlice. List, Set and
OrderedDict carry what they should hold (`pairs`, the set of values) or are
compared with ToSlice. Some methods leave a structure in a condition the others
do not expect; the model goes on from there, and the properties name where they
stop to hold:

- List: Pop reads behind the last element (`list.go:245`), Insert in the middle
  stores a slice as an element (`list.go:232`), Transaction may leave slack;
  Set.Extend bypasses the set's map. Clone, Map and Filter return a list without a
  ValueGetter (`list.go:364-370, 445-451, 505-511`), and so has a set that Clone or
  Filter returned: First, Last, Get and MapValue panic on it. `getter` tells whether
  there is one, and the properties say what First and Get answer where there is.
  Swap is called with places of the contents; Go lets a program swap with the slack
  behind them as well, which is not modelled.
- OrderedDict: RemoveAt of the last key and Reverse leave a wrong link that the
  next new key is lost behind; Pop on an empty clone panics; a clone has no
  ValueGetter (`ordereddictionary.go:386-392`), so Get panics on it (`getter`).
- Queue.Clone holds its first item in every place, Stack.Clone panics on every
  stack (`stack.go:116-127`), List.Last reads behind the contents and returns nil
  (`list.go:58-60`).
- Dict: the Next after a Reset in the middle of a pass says "the end"; Dict.Len
  unlocks what it did not lock (`dictionary.go:32-36`), which ends the process.
- Two collections that extend or update each other, or one that is read inside
  its own lock against a waiting writer, wait for ever.

`PlainDict` has two processes: the iterator's user and the goroutine that ranges
over the map and sends. `CollectionLocks` runs two methods, each a sequence of
lock operations, on two collections, with Go's RWMutex, whose waiting writers keep
new readers out. `Waits` says which goroutines the mutex makes wait, so that "all
of them wait" is a state predicate; `Orderly` says that collections have ranks and
are locked upwards only, which for two of them is that no two methods nest them
both ways.

### ConfigValues and ConfigTree

`ConfigValues` stores one value of any kind with Set and reads it with all 60
readers. Numbers are counted in halves and each width has few integers (`Span`: 8
for 16 bits and so on); each float type has every number up to `Exact`, and above
it multiples of ever longer `Steps` only, to which a conversion rounds, half to
even. So wrapping, truncation, signs, fractions and rounding all occur in 17
numbers: float32 has all integers of 16 bits and not all of 32, float64 all of 32
and not all of 64, as in Go. A text that does not parse reads as 0 instead of the default, one above
int64 reads as 0 when unsigned, and Configuration never reads a list of numbers
from JSON as a slice of numbers; the model does the same and the properties state
what is left.

`ConfigTree` keeps tables in a heap, since a Configuration is a reference. Parse
takes the keys of a map in any order, one action each; parseInclude and
parseSwitch change the map while ranging over it. An `__include__` names one file or
a list of files (`config.go:1043-1062`), which are merged one after the other; one
that cannot be decoded is passed over and has no place in the model. `Meaning` is the
reference: what the document says, its includes over it, the last over the first, the case its switch selects over that.
Left out of it, since the order of the map decides there: a dotted key beside its
own branch and a switch whose key another one sets. After loading, calls change
two configurations; Update stores the other's branch itself where MakeBranch
fails (`config.go:150`).

### WebsocketChat

Callers add, remove, message and broadcast; a broadcast spawns writers up to its
queue, each removes a failed connection on one more goroutine. The RWMutex is in
`MayRead` and `MayWrite`: `asking` holds the writers that wait, which keep readers
out. The WaitGroup is counted by users and down by connections
(`websocket.go:132, 141`): a user with two connections makes it negative, which
the model follows to the end of the process; `doubled` records that, and the
properties are about the other broadcasts: `BroadcastWaits` says that they wait for
their writers, `ChatNeverSticks` that every call returns. Connections may fail or stall at any
time, and a connection may be written to by a message and a broadcast at once,
which the WebSocket library forbids and the model does not look at.

### GzipCache

Files have versions; a request stats the file, looks for a copy, opens the file,
creates the `.tmp` with O_EXCL and writes blocks to the client and the copy. The
order at the end is that of the deferred calls: footer, then the decision to keep
or give up, then remove and rename. In any step the client or the disk may end
the answer; between any two the file may be replaced or the process die. What the
code gets wrong is in the model and excepted by name: a file of the same size
that replaces the one being compressed leaves an old copy that counts as fresh;
a file that changes size between stat and open may leave part of it; a footer that
could not be written is not looked at (`static.go:168-175`), and the copy that
lacks it is kept and served: `footer` tells "failed" from "written" and from "due",
and `CopyIsWhole` excepts the first and excludes the last; after a crash the `.tmp` stays and no copy
is ever made again; a request that found the copy just before it is replaced gets
a 404.

### TemplateCache

Entries are named after the request that stored them. A timer may fire at any
time after it is armed, and what it started waits for the lock: meanwhile another
request may reset the timer or store another entry, which the deletion then takes.

### Migrate

Migrate's recursion is the pair of Compare, on the way to the oldest scheme that
is needed, and Return, on the way back. A statement, a begin or a commit may fail,
a commit that fails may have been done, and the process may die; then Migrate is
called again with the version the database records. The statement for the
administrator is always there. A scheme that records no version is repeated by
the next call. `SchemesAssumption`: versions rise along the chain, from above the
0 of an empty database.

### Tokens

The clock ticks; a CSRF token is its time, the browser's random token and the
rolling token of its period. HOTP's counter wraps; the device shows passwords in
advance, and they are sent in any order. Hashes and encryption are external: what
was encrypted reads back, and the passwords of different counters differ. A CSRF
token in a header, which is compared with the cookie, and the URIs of otp are
left out. An interval of 0 divides by zero (`otp.go:276`) and is not configured.
`TokensAssumption` keeps the passwords shown in advance, and the periods of the
clock, with the window, below the width of the counter: one turn of a uint64.

## The runs

| run | instance | distinct states | shows |
|---|---|---|---|
| app_lifecycle | 2 apps, 2 requests, 2 Close calls | 61,380 | exact count, no teardown under a request, callback at most once, removal and callback do happen, `AppLife` is implemented |
| graceful_shutdown | 2 apps, 2 requests (one with a nil writer), 2 shutdown calls, 1 of the program | 143,840 | exit only when idle, counter equals the apps still open, exit does happen |
| request_pipeline | 2 middlewares, all end points and methods | 425,385 | the eight properties of the pipeline |
| destruct_for_every_action | same | violated | an action that panics gets no Destruct_ |
| cleanup_at_the_end | same | violated | Response hooks after Cleanup hooks |
| routing | 10 patterns, 2 prefixes, 10 paths, 3 methods, 2 registrations, switches up to 2 elements | 14,017 | soundness of the lookup, precedence, names, one answer, no index out of range |
| collections | 2 values, 4 nodes, capacity 4; 3 keys and 2 values in dictionaries; 2 goroutines and 2 collections for locks | 157,333 | queue and stack are sequences, searches agree with contents, passes are complete, orderly use never sticks |
| router_tree | a root, a router, an app; 2 names, 3 hosts, 1 prefix, 4 paths | 96,832 | parents and maps agree; who answers a request that is accepted or refused, in any order of the maps |
| config | 17 numbers in 8 kinds of value, lists of 2; 768 documents and 4 calls after loading | 35,490 | values read back; documents read as written; calls stay in place |
| services | chat: 2 callers, 2 connections, 3 calls, queue of 1; copies: 2 requests, 3 versions, 1 crash; templates: 3 requests; 3 schemes, 3 failures; two periods of a token, a counter of 8 | 357,370 | no call of the chat sticks and broadcasts wait for their writers, copies are whole, templates expire, schemes are whole, tokens are accepted as long as they should be |
| path_variables_by_name | same | violated | names shared by the handlers of a path |
| extension_ignored | same | violated | fixed paths do not ignore extensions |

Why the bounds are enough. Lifecycle: two apps because app 0 is special, two
requests so that one is served while another drops its reference, two Close
calls for a winner and a loser. Pipeline: two middlewares are the least number
for which order, partial execution and a panic between hooks differ; nothing
passes between requests. Routing: every conflict in the tree (shared node, shared
names, precedence, duplicate expression) is between two registrations.

Collections: four nodes give a chain an inner node on both sides of an iterator,
and a list that starts with a slack of one expands within a capacity of four. Router tree:
three routers give siblings and two levels. Configuration: an include, a switch
at the root and one in each branch is every pair that meets, and two included
files in either order show which has the last word; every border of a type has a
number on each side of it. Services: a queue of one makes a broadcast wait for its
writers; two requests are a writer and a reader of a copy; three requests store,
replace and look up; three schemes have an inner one, and three failures are one
for each of begin, statement and commit; a window of two in a counter of eight
wraps.

Fairness. `SunnyApp` and `GracefulShutdown` assume weak fairness of each
thread's steps, which is what the Go scheduler gives, and that a request being
served ends; `RequestPipeline` shows the latter, under weak fairness of the
request's goroutine and of the parser, whose reads end because `Run` sets
timeouts. `PlainDict` assumes that the
iterator's goroutine and a call that has begun go on; `WebsocketChat` that
goroutines run and that a free lock is given to one who waits, but no write to a
connection is obliged to end once it stalls. Nobody is obliged to arrive, to close an app or to send the signal.
Requests are finitely many: a stream of requests that are turned away could keep
`runners` above 0 for ever, and the removal properties do not claim otherwise.

Deadlock is checked in `router_tree`, whose calls never run out, and not elsewhere
(`CHECK_DEADLOCK FALSE`) since each of the other models may come to
its end: all threads done, the process gone, the request answered, the bound on
registrations, calls or failures reached. That nobody waits for ever is stated
where it matters: `ChatNeverSticks`, `OrderedUseNeverSticks`, `RequestEnds`.

Where the code and its documentation disagree:

- README.md:193-194, Destruct_ "is called for every action": not after a panic.
- README.md:241-242, Cleanup "is called at the end": after a panic the Response
  hooks run later than Cleanup.
- README.md:111 and 67-75, variables are read from PData by name: two handlers of
  one path with different names share one list.
- README.md:120-121, "Extensions are ignored when matching path": not on a path
  without variables at its end.

Met on the way, and part of the models: the end point of a router never finds
OPTIONS (`router/route.go:524`), so README.md:238 applies only to end points that
are supplied from elsewhere; a function controller that returns a status panics
when its context has an error (`controller.go:286`); uploads stay behind when a
request ends before its body is parsed (`sunny.go:349`).

## The proofs

`SunnyAppProofs` proves, for any finite set of requests, any set of Close calls
and any number of apps, from `MaxAppsAssumption` and `ThreadsAssumption`:

- `TypeCorrect`: `Spec => []TypeOK`
- `RunnersExact`: `Spec => []RunnersCountsHolders`
- `TeardownSafe`: `Spec => []NoServingAfterTeardown`
- `CallbackSafe`: `Spec => []CallbackOnceWhenIdle`
- `ImplementsLife`: `Spec => Life!Spec`, the safety part of `ImplementsAppLife`

The three invariants after the first are not inductive. The invariant `IInv` adds what the code
relies on without saying so: a thread that has started works on an app that
exists; an app that does not exist yet has count 0 and no callback; at most one
Close call is the winner of an app, and only of a closed one; a thread that saw
0, or is removing, or is calling back, does so on an app whose own reference is
gone, so no request of it is being served; a stored callback belongs to a call
for that app and has not been run. The central step is DecRunners: the count
falls to 0 exactly when the leaving request was the last holder and the app's own
reference had been dropped, by `RunnersCountsHolders` and the cardinality lemmas
`AddRequest` and `RemoveRequest`. `LifeStep` maps each action to a step of `AppLife`
or a stutter from `IInv`, whose `DrainInv` says that an app being removed is closed
and serves no one. `IInv` was checked with TLC as well.

Its second part proves, from `ShutdownCallAssumption` as well, of the
composition with the shutdown goroutine:

- `WaitGroupExact`: `GSpec => []WaitGroupCountsApps`
- `ExitSafe`: `GSpec => []ExitsOnlyWhenIdle`

Both say what holds as long as the program closes no app itself, so the invariant
`GInv` is `AloneInv` under that condition, which a step can only end
(`NoUserCloseBefore`). Every step of the composition is one of `SunnyApp`, except a
w.Done() that panics (`StepKinds`); so `IInv` is kept if none panics, and none does:
a stored callback is that of an app which has closed but whose w.Done() is to come,
so the counter is above 0 (`StoredIsPending`, `NoDonePanics`). That each app is closed
by its own call only (`OnlyCloserInv`) makes every Close of the goroutine win, and
that nothing was closed before the signal makes its copy of `servers` free of nil.

`RequestPipelineProofs` proves for any number of middlewares, from `NAssumption`:

- `HandlersWait`: `Spec => []HandlerSeesParsedBody`
- `UploadsGone`: `Spec => []UploadsRemoved`
- `OptionsEndsChain`: `Spec => []OptionsChainEnds`
- `CleanupUndone`: `Spec => []CleanupUndoesRequest`
- `ResponseOnce`: `Spec => []ResponseRunsOnce`
- `PanicsAnswered`: `Spec => PanicIsAnswered`
- `DestructPaired`: `Spec => []DestructFollowsConstruct`

For the first three, the invariant `IInv` names the stages behind the wait for the
body and those an OPTIONS request can be in. The lemmas `CallAdds` and `AnswerAdds` bound what a call or an
answer adds to the log (the hook itself, and Response hooks only once they are
armed), and `Common`, `BeforeOptions` and `Behind` carry the invariant over any step
with such a log, so that one short lemma per action is left.

The other four compare whole logs, and rest on a second invariant, `LogInv`:
the stack of deferred calls has middleware k's Cleanup at place k and Destruct_ on
top, and what the Request hooks began is either cleaned up or on that stack
(`UndoInv`); Response hooks ran only if a response was written, and a failure that
is not answered yet is a panic on its way through the deferred calls
(`AnswerInv`); Destruct_ is deferred from the end of the action until it is called
(`DestructInv`). `CallExtends` and `AnswerExtends` say which calls a step adds to the
log, and the frames (`UndoFrame`, `UndoPush`, `DestructFrame`) what that does to each
part. For a panic of the framework there is no call in the log; `FlightInv` follows
it from where it starts, and says that once one was on its way, and the context is closed
at the end, something was written (`FlightStep`).

`RoutingProofs` proves, for any patterns, switches, paths, expressions and
bounds, from `RoutingAssumption` and `PatternsAssumption`, all the properties that
the run checks:

- `NamesAlwaysCover`: `Spec => []NamesCoverCaptures`
- `AlwaysServedAsRegistered`: `Spec => []ServedAsRegistered`
- `HardPathAlwaysServed`: `Spec => []HardPathServed`
- `VariablesAlwaysKeepTheirNames`: `Spec => []VariablesKeepTheirNames`
- `AlwaysOneAnswer`: `Spec => []OneAnswer`

None of them is inductive: they are about answers, and a tree is built by other
calls than the ones that read it. The invariant (`TreeFollowsRegistrations`) says
what registrations leave behind: each went down a way for its pattern, which is
still there; the end points are those of the registrations, with the latest
handler for each method; and the names of an end point begin with the variables of
its latest registration, however many others were prepended before (`VarInv`).
`OnceInv` adds, for the last theorem, that an anchored expression is below a node
only once. The lookup is the other half: `WalksAreGood` says of each step
of FindEndPoint that every element used fits the edge taken, and is captured
unless that edge is a hard one; `EndReached` brings the two together: an end point
reached by a walk is one whose registrations accept the path.

`Count`, `VarNames` and `Walks` are recursions over data. The library's induction
theorems cannot be instantiated, but a set {n \in Nat : ...} can be given to a
lemma: `LeastNumber` derives the least element of a set of numbers from the well-founded
order of finite sets, `Induction` the usual rule for such a set, and
`WalksUnfold` that the recursive function exists and unfolds.

`RouterTreeProofs` proves, for any routers, names, hosts, path prefixes, routes and
requests, from `TreeAssumption` and, for the search, `SearchAssumption` (the routers
are finitely many; paths and hosts are sequences):

- `TreesAgree`: `Spec => []TreeAgrees`
- `PlainRequestsAlwaysServed`: `Spec => []PlainRequestsServed`

For the first: a router that is reset is looked for in its parent's
map and one name of it is deleted, so what has to be added is that it has no other
name there (`OneName`), but for the exceptions `TreeAgrees` names.

The other rests on `Acyclic`: no router is below itself (`Ringless`). Each call
keeps that: adding a router under one that is not below it makes no ring
(`AddStaysRingless`), and the others only take names away (`LessStaysRingless`). Then
there are fewer routers below a sub router than below the router (`FewerBelow`), so
a search to the depth of what is below reaches all of it. `Search`, `Asked` and
`FullHost` are recursive functions; `Recursion` derives from the well-founded order
of finite sets that such functions exist, and `UpTo` is induction up to a number.
`SearchServes` carries the promise from a depth to the next, over every order of
the sub routers (`AskServes`): a router that refuses hides those below it and leaves
the value map to its siblings as it was, and who is open below a router is the router
itself and who is open below the sub routers that accept (`OpenIs`).

`ConfigValuesProofs` proves `ValuesAlwaysReadBack`: `Spec => []ValuesReadBack` for
integers of any widths and floats of any precision, from `SpanAssumption` (a wider
type has at least as many integers, the narrowest at least four), `FloatAssumption`
(float64 has what float32 has, 0 and 1 among it) and `NumbersAssumption`. The
invariant is only what a value looks like (`ValueInv`); the proof is about the
readers: a number a narrow type holds is held by the wide type it is read through,
and toBigType changes nothing but the type.

`CollectionsProofs` proves, for any values, keys, goroutines, bounds and any finite
set of collections, from `CollectionsAssumption` (collections are finitely many,
nil is none of the keys and values, the slack of a new list is a number):

- `ChainsRefineDeques`: `CollectionsSpec => ChainsAreDeques`
- `PassesComplete`: `CollectionsSpec => PassIsComplete`
- `NeverSticks`: `CollectionsSpec => []OrderedUseNeverSticks`
- `SearchesAlwaysAgree`: `CollectionsSpec => []ElementsAreFound`
- `PassesShowAll`: `CollectionsSpec => Plain!PassShowsAll`, the safety part of
  `IteratorInStep`

The first two rest on `ChainInv`. The nodes of a queue are the last ones
allocated, each linked to the next (`QueueShape`), because Push always writes behind
the node it allocated last and Pull leaves the link of the node it takes: so ToSlice is
the data of an interval (`QueueWalk`), and an iterator whose node has been
pulled still finds its way (`PassShape`: what it has seen is an interval as
well, and the links ahead of it are as they were). In a stack every link leads to
an older node (`StackShape`), so a walk ends and a Push does not change the walks from
the nodes below (`WalksStay`). The steps are compared by `QueueSteps` and `StackSteps`.

For `NeverSticks`, `LocksInv` reads off the script of each method, from its place in
it, which locks it holds (`LastOp`), and says that the mutexes agree. Suppose all wait. Of
the collections somebody waits for take the one of the highest rank: who holds it
waits for one of a higher rank, since it locks upwards (`Ranked`), and nobody waits
for that. A finite set of ranks has a highest (`GreatestNumber`).

`SearchesAlwaysAgree` rests on `ArrayInv`: index and Indexes search the whole slice,
so they tell the truth only while the slack behind the contents is nil (`Clean`), and
that holds until Pop, an Insert in the middle or a Transaction that shortens the list.
One lemma for each method (`AppendIs`, `SetIs`, `RemoveIs`, `CommitIs`, ...) says what
it leaves of a clean list, and another that a set stays without duplicates
(`OneEach`): removing the first place of a value removes the value from the list as well
as from the map only because it was there once. Filter and MapSet are recursive
functions, whose unfolding `FilteredIs` and `MappedIs` derive from `Induction`.

`OrderedDictProofs` proves `OrderedDictAlwaysReads`:
`CollectionsSpec => []OrderedDictReads`, for any keys and values and chains of any
length, from the same assumption. `DictInv` says where the pairs are: in a row of distinct nodes behind
the sentinel, each linked to the next, with prevchain leading to the node before a
key's and nowhere else (`Row`). On a sound chain (`Sound`) the row ends in nil and
the tail is its last node; after RemoveAt of the last key or Reverse the row is still
there with another end (`Held`), and the readers that count read it. Each method
is shown to relink one row into another: adding at the end, cutting out a node,
reversing, sorting, cloning.

`PassInv` says of a Dict's iterator where each key of the map is: shown, in the hands
of the goroutine that sends, or ahead of it.

`ServicesProofs` proves, each from an inductive invariant of its own:

- `CopiesAlwaysSound`: `Spec => []CopiesAreSound` of `GzipCache`, for any set of
  requests, any versions of the file and any number of crashes, from `CacheAssumption`
  (there is a version, sizes and crashes are numbers, Nobody is no request).
  CopiesAreSound is not inductive: that O_EXCL leaves one request at a time with the
  temporary file (`OwnerInv`), that the bytes counted are those written, and that one
  copy is finished before the next begins, so that what a request found new enough
  is only ever replaced by what is new enough (`TimeInv`), have to be added.
- `BroadcastsAlwaysWait`: `Chat!Spec => []Chat!BroadcastWaits`, the safety part of
  `ChatNeverSticks`, for any callers, users and size of the queue and finitely many
  connections (`ChatAssumption`). The invariant
  (`Counts`) is that a broadcast's WaitGroup is the number of connections it has yet to
  come to and of those being written to; a channel has at most as many users as
  connections (`FewerUsers`), so that with no user doubled the two numbers are equal.
- `TemplatesAlwaysExpire`: `Templates!Spec => []TemplatesExpire` for any set of
  requests; inductive together with the types, because each action that takes an
  entry out of the map stops its timer in the same critical section.
- `TokensAlwaysAccepted`: `Token!Spec => []TokensAccepted` for any life of a token,
  interval, window and width of the counter, from `TokensAssumption`. `CountersInv`
  has the passwords shown as an unbroken row of counters, and those accepted
  before the next one; `PlusIs` and `PlusDiffers` are the arithmetic of a counter that
  wraps, `PeriodsAhead` that of the clock's periods.
- `SchemesAlwaysWhole`: `Schemes!Spec => []SchemesAreWhole` for any chain, from
  `SchemesAssumption`. A scheme is committed whole because a transaction holds all of its
  statements when nothing failed (`TransactionInv`), and in its turn because the
  recursion started from the version recorded (`VersionInv`, `TurnInv`).
- `ServicesKeepTheirPromises`: a behaviour of `MCServices` is one of each service
  (`EachServiceRuns`), so that all of these hold of what the run checks.

Only model-checked: the liveness properties, those of `AppLife` and the chat included,
and what is stated with ENABLED (TLAPS does neither); `LoadedAsWritten` and
`CallsStayInPlace` of `ConfigTree`, whose documents and tables are trees walked by
RECURSIVE operators, out of the prover's reach, and whose reference `Meaning` knows
switches at the root and in its branches only, as the run's documents have them.

## The plan

Done: the lifecycle with its proofs, graceful shutdown, the pipeline, the route
tree, the router tree, the collections, the configuration, the chat, the two
caches, migration and tokens; theorems about every safety invariant the runs check
but those of `ConfigTree`. Next, in this order:

1. The iterators of List, Set and OrderedDict, and the header path of
   VerifyCSRFToken.
2. Custom matchers of the router tree.
3. `ConfigTree` with the depth of its documents as a number, as in `RouterSearch`,
   and a `Meaning` for switches at any depth, so that it can be proved about.

## Not modelled

The controller registry (reflection over Go types, before serving), the rendering
of views, mail (formatting and SMTP; Server starts a goroutine per message and
forgets it), the virus scanner client, cryptography, and the utilities other than
casts: formatting, I/O, reflection or calls into libraries, with no state of
their own that outlives a call. The event router is a map of lists under one lock:
a listener that calls Listen on its own router waits for itself, and a sub router
has no map, so that Listen on it panics (`eventrouter.go:43, 61, 67`). The registry of
middlewares has no behaviour to check: GetMiddleWare ends the process. The
callback of the file watcher of a configuration is the program's.
