# gon in TLA+

gon is a web framework for Go: a server that restarts without losing
connections, a dispatcher that matches requests to controllers, templates,
sessions kept in cookies, static files and a logger. This directory holds TLA+
models of the parts in which goroutines, processes or requests share state, the
TLC runs that check them on small instances, and TLAPS proofs of what holds for
every size. `PROJECT.json` maps every definition to the lines it models and
lists runs, mutants, hazards, findings and theorems.

    tlc -workers 2 -config MCDispatch.cfg MCDispatch.tla     # model-check
    tlapm Dispatch_proofs.tla                                # check the proofs

## The system

| Part | Code | State | Operations | Interacts with |
|---|---|---|---|---|
| Graceful server | `servers/`, `gonapp.go` | `srv.state`, `ln`, `sigChan`, `terminalChan`, `runningServersForked` | ListenAndServe, Serve, getListener, handleSignals, shutdown, fork | kernel (socket, signals), parent and child process, net/http |
| Dispatcher | `mux.go`, `context/`, `ctrl/controller.go`, `error.go` | pool of contexts, one controller per route, `Response.Started/Status`, `Output.Status` | ServeHTTP, Reset, Init, actions, exception, Abort, Render | router, sessions, static files, templates, logger |
| Exchange of requests | `context/`, `ctrl/controller.go` | what a context and a controller keep from one request to the next (`EnableGzip`, `_xsrfToken`), headers, cookies at the client | SetStatus, Body, WriteString, Redirect, flash messages, XSRFToken, CheckXSRFCookie | dispatcher, accept-encoding, clients |
| Binding | `context/input.go`, getters of `ctrl/controller.go` | the form of a request | Query, Bind, GetInt and the like | actions |
| Static file cache | `static_file.go` | LRU cache, `lruLock` | lookupFile, openFile, isOk | file system, compressors |
| Logger | `logs/gon_logger.go` | `outputs`, `asynchronous`, `msgChan`, `signalChan`, `wg` | SetLogger, DelLogger, Async, Reset, writeMsg, Flush, startLogger | adapters, every goroutine that logs |
| File log adapter | `logs/file.go`, `multifile.go` | file, line and size counters, open dates | WriteMsg, doRotate, daily/hourlyRotate, deleteOldLog | file system, timers |
| Sessions | `session/` | cookies at the client, keys in the provider | SessionStart, Save, RegenerateID, Destroy | dispatcher, controllers |
| Router | `route.go`, `mux_route.go`, `regexp.go` | routes, matchers, templates (fixed after start) | Match, NewRoute, Subrouter, setMatch | dispatcher |
| Templates | `ctrl/template.go` | compiled templates, `templatesLock` | buildTemplate, getTplDeep, executeViewPathTemplate | controllers' Render |
| Accept-encoding | `context/accept_encoder.go` | pools of compressors, the configured level | InitGzip, ParseEncoding, WriteBody, WriteFile | output, static files |
| Configuration | `config.go`, `env_config.go`, `hook.go` | `GConfig`, written at start | load, hooks | everybody, as constants |

What is hard in this code: a controller instance and pooled contexts shared
between concurrent requests; a `WaitGroup` used as a two-way handshake; signals
handled in a goroutine beside the one that serves, across a chain of processes;
an unbuffered signal channel that drops what comes while it is busy; a cache
filled under a lock from a file that was stat'ed before; objects used again for
the next client, with fields that no one resets. The hazards, each at
its line, are in `PROJECT.json`.

What makes each part correct:

- server: a restart costs no connection; the parent is told once the child
  listens and then goes; a stop drains its requests or times out, and ends;
- dispatcher: a context serves one request; a handler works on its own request,
  response and session; a request is answered once; an action never runs after
  the response. The code gives this only as long as no other request of the route
  is initialised while the handler is at work, and the session not even then (see
  What was found);
- exchange: a flash message is shown once, by the next request of its client;
  a POST that both XSRF switches want checked runs only with its own client's
  token; length, encoding and status of a
  response are true of its body, whatever earlier requests left behind; what is
  bound does not depend on the order in which a map is walked;
- static files: a read of the file at some moment of the request (`FreshRead`);
  bounded cache; the lock is released on every path;
- logger: no panic; each adapter gets what was logged, in program order and
  once, and Flush returns when what it found under way has arrived
  (`LogService`); a queued message is written;
- file log adapter: no line is lost or written to a file already rotated, a file
  of an earlier period does not stay open, old rotated files and only they go;
  that a file is rotated before it is opened in the next period, and so holds one
  day only, is not kept by the code (see What was found);
- sessions: what a handler saved is what SessionStart gives the next request,
  unless one of seven named reasons excuses it; nothing outlives its lifetime; a
  session call panics only in a request that ended its session, or whose
  controller kept the session of one that had;
- router: the match is the first route whose matchers all hold, with its own
  variables only;
- templates: Render never waits for ever, and what it parsed is not older than
  the files it found, whatever other renders leave behind.

## Modules

| Module | Models | Checked by | Proved in |
|---|---|---|---|
| `GraceServer` | the server and its processes | `MCGraceServer` | `GraceServer_proofs` |
| `Dispatch` | the dispatcher, requests that overlap | `MCDispatch` | `Dispatch_proofs` |
| `Exchange` | the dispatcher, one request after the other | `MCExchange` | `Exchange_proofs` |
| `Encoding` | accept-encoding, used by `Exchange` | `MCExchange` | `Exchange_proofs` |
| `Binding` | binding of form values, used by `Exchange` | `MCExchange` | `Exchange_proofs` |
| `Session` | sessions in cookies | `MCSession` | `Session_proofs` |
| `Router` | building and matching of routes | `MCRouter` | `Dispatch_proofs` |
| `Templates` | rendering and the template cache | `MCTemplates` | `Templates_proofs` |
| `FreshRead` | a server of files that change | `MCStaticCache` | |
| `StaticCache` | the static file cache, implements `FreshRead` | `MCStaticCache` | `StaticCache_proofs` |
| `LogService` | a logger | `MCAsyncLog` | |
| `AsyncLog` | the logger, implements `LogService` | `MCAsyncLog` | `AsyncLog_proofs` |
| `FileLog` | the file log adapter | `MCFileLog` | `FileLog_proofs` |

**AsyncLog.** Each goroutine has a `pc`; every read or write of a field that
others change (`init`, `asynchronous`, `outputs`, `msgChan`, `wg`) is a step of
its own, since only SetLogger, DelLogger and Async lock. `writeToLoggers` keeps
in `todo` the rest of the slice it ranges over. The WaitGroup is its counter
and the goroutines asleep in `Wait` or woken and not yet out of it; the two
panics of sync.WaitGroup are modelled. `owed` is history: what a Flush found
undelivered when it was called.

**LogService** is what callers may expect of a logger: adapters that get
messages in the order of each writer, none twice, and a Flush that ends when
what it owes has arrived. AsyncLog implements it (`LogsInOrder`): writing at
once and queueing are both Write, channels and signals are hidden, SetLogger,
DelLogger and Reset are Configure.

**GraceServer.** A process has two goroutines, `serve` (ListenAndServe) and
`hand` (handleSignals). As `runningServersForked` lets a process fork once, the
processes form a chain. The kernel is explicit: descriptors of the listening
socket (`lnOpen`, `dup`), the backlog that is reset with the last descriptor,
signals that are pending, dropped, or deadly before `signal.Notify`; between that
call and the first receive, and while a signal is handled, they are dropped.
The files that fork and getListener take of the socket are closed by nobody, but
the garbage collector may do it at any time (`Collect`).

**Dispatch.** A request walks through ServeHTTP; a context is the request its
ResponseWriter wraps and the flags the code branches on, a controller is its
context and its session. What the handler writes goes through the context the
controller holds at that moment, and `resp` records on whose connection it
arrived and from whose handler. User code (BeforeAction, the action,
AfterAction) is any one operation of the framework; AfterAction is taken not to
write another body, which no code of the framework prevents. Requests of one route
overlap like any others: `Init` takes the controller from the handler that is at
work, and `overtaken` is history, the requests this happened to. Their handlers
go on through a context that is another request's, or back in the pool, or
already a third one's, of any route.

**FileLog.** `w` is the struct fileLogWriter, `file` the inodes with the
messages in them, `timers` the goroutines that sleep to the end of a period.
WriteMsg is two steps, one for each section of its lock. A rotation holds the
lock over three, in which time may pass and deleteOldLog, which takes no lock,
may act: the test, closing and renaming, opening again. Opening, renaming and
writing may fail up to `MaxFaults` times; a crash stops every goroutine and the
new process names its file after the day. A file keeps its inode: `gone` says
whether it was removed by a sweep, so that a path that was removed and used
again is told from the file before.

**Exchange.** What Dispatch says of overlapping requests, Exchange says of
successive ones: one request at a time passes through one context and one
controller, which keep what `Reset` and `Init` do not clear. Clients keep
cookies; a response may be lost, a handler may panic, the program may restart.
The application's code is any sequence of operations of the controller, and
answers once. Content-Length is the content it was computed from, so that a
header can be compared with the body it goes out with. `hope`, `due` and `gone`
are history: the messages the next request of a client must and must not show.
Success and Notice stand for the flash keys, as they differ in whether they
replace a message there is; 404 for the statuses an application sets, 303 for
the statuses a reply brings itself. Two switches govern XSRF: `EnableXSRF` of the
configuration is a constant; the controller's own, which is off until the
application sets it, is the variable `checks`, free in every request.

**Encoding.** The choice of an encoding out of an Accept-Encoding header, and
the pools of compressors as the levels that one taken from them may have. The
pools of gzip and deflate are filled alike and are one here.

**Binding.** A form is the values of the keys of one name; slices and fields
are bound by walking a Go map in an order nobody chose, which is a parameter.
Integers have a width, given by half of their range (`Half`, `WideHalf`): Bind
parses wide and stores narrow, the getters parse at the width they return.

**Router.** The actions are the calls that build routes; matching is an operator
of what is registered (`Table`) and a request. A route that is tried may fill
the match although a later matcher fails, and nobody empties it; as no matcher
looks at the match, `Answers` finds for every route whether it accepts and which
routes have filled the match by then, in order, and `Filled` what they leave in
it. Both are recursive functions: a route rests on the routes of its subrouter,
which come after it. `Chain` says, without a match, what the answer should be:
the routes from the innermost to the one asked. A path is a sequence of
segments, so what stands for regular expressions is one comparison per segment.

`SubrouterLast` restricts applications to adding no matcher to a route after
its subrouter. Without it `RoutedRight` and `VarsOwn` fail: the inner route
fills the match before the late matcher is tested, and no later route replaces
what it filled.

**Session.** A request carries the cookie its client had when it was sent, the
values of its session object, whether `Input.Cookie` and the controller's
`Cookie` point to it, and the last Set-Cookie of its response. A controller
serves the requests of its route one after the other and keeps `Cookie` between
them (`kept`), the object of whichever client's request first called
StartSession, until one regenerates the id; the handler of a later request
reads, changes and saves that object instead of its own. A process that was
restarted has new controllers, while requests of the old one go on with theirs.
`mem` is history: what the session should hold according to the calls made,
`doubt` that one of the `Excused` reasons may have parted the cookie from it. Both
begin anew with a client's request that overlaps no other. Tokens are unforgeable
and a session is the set of items in it. Handlers of different routes overlap;
those of one route do not (`Free`), as what they then do to each other is the
subject of Dispatch. `Carried` and `PanicsOnlyAfterEnd` are statements under this
condition.

**StaticCache.** A file is a growing version number, `Stat` what `os.Stat` tells
of a version; a holder carries the version its data was read from and the one
it was stat'ed at. Eviction may take any other entry, a superset of LRU.

**FreshRead** is what a client may expect of a server of files that change: a
request looks at its file once and is answered with a content the file has had
since, or goes without an answer, at a moment when the file is missing or because
a call of the file system failed. `faults` counts these calls, so that each costs
one request its answer and no other: what a failed refill leaves behind keeps
nobody else from the file. StaticCache implements it (`ReadsFresh`): Lookup is
Find, every answer, from the cache, the file or http.ServeFile, is Answer, and
lock, holders and eviction are hidden.

**Templates.** A render walks the view directory, parses each file it needs under
`templatesLock` (one step per file it reads, so files change in between), and
executes template, sections and layout under the read lock. `load` is what
getTemplate has in hand: files still to be read (`want`), blocks to be looked
for (`names`) and the files of the directory in which the search goes on. The
search passes over a file that is gone, and so may end without the block: the
template is stored all the same and fails when it is executed, by whichever
render gets to it. It opens a file that defines the block a second time, in
getTplDeep, which panics if the file went in between (`root`), as it does for an
include that is missing; a search that goes on after one that failed and left a
nil template panics, too. The lock is held then, and nothing unlocks it:
`LeftLocked`.

## Runs

| Run | Result | Shows |
|---|---|---|
| `MCAsyncLog.cfg` | passes | `NoPanic`, the handshake (`FlushProtocol`), refinement of LogService (`LogsInOrder`); `QueuedIsWritten`, `FlushReturns` under fairness |
| `MCGraceServer.cfg` | passes | `AlwaysListening`, `ParentIsTold`, `CutOnlyByTimeout`; `HandoverCompletes`, `StopCompletes` under fairness |
| `MCDispatch.cfg` | passes | exclusive contexts whatever overlaps; isolated and single answers, no action after the response, except where a handler lost its controller to another request of its route |
| `MCDispatchSession.cfg` | violates `SessionIsOwn` | the controller hands on the session of an earlier request |
| `MCDispatchShared.cfg` | violates `NoActionAfterResponse` | what the shared controller does when requests overlap |
| `MCExchange.cfg` | passes | `FlashRight`, `PostHasOwnToken`, `ResponseSound` (length, encoding, level, status), `BoundRight` |
| `MCFileLog.cfg` | passes | `LinesKept`, `WritesToCurrent`, `CountersExact`, `DeletesOnlyOld`; `RotationHappens` under fairness: a file of an earlier period is rotated, or opened again by a write |
| `MCRouter.cfg` | passes | `RoutedRight`, `VarsOwn`, `EarlierFirst`, no matcher added behind a subrouter |
| `MCSession.cfg` | passes | `Carried`, `Expires`, `PanicsOnlyAfterEnd` |
| `MCSessionRegenerate.cfg` | violates `Carried` | a regenerated id is no excuse: the session is lost with it |
| `MCStaticCache.cfg` | passes | `CacheSound`, refinement of FreshRead (`ReadsFresh`); `Answered` under fairness |
| `MCTemplates.cfg` | passes | `RenderedFresh`; `RendersEnd` under fairness |

The largest are MCDispatch with 5.7 and MCExchange with 4.8 million states, which
take about two and a half minutes each; MCSession has 1.5 million, and
MCGraceServer takes two minutes for 0.2 million, as it checks liveness. Types and `ControllerIsMine` of
Dispatch, types of Session and StaticCache, `ServedFresh` and `LockHeld` are
proved for every instance and have no run.

Bounds, and why they are enough for these questions:

- AsyncLog: one goroutine logs twice, another logs once and flushes any number
  of times, a channel of one, two adapters. Three messages fill the channel with
  one in hand, so blocking, queueing during a flush, a flush during a write and
  an order of two writers all occur. With writers that never pause `flush` need
  not find the channel empty, so `FlushReturns` relies on the bound `MaxMsgs`.
  The configuration that makes a panic possible (Async or Reset beside writers)
  is excluded by `Quiet`. `initializeLogs` of `config.go` calls Reset and SetLogger
  at start; the call of Async in it is commented out (line 130), so that an
  application which wants the logger asynchronous calls Async itself, and is taken
  to do so before it logs. `Flushers` is one goroutine: two in Flush share the
  WaitGroup, and one may return early.
- GraceServer: two processes, one connection, two signals by the operator
  (besides those of the children). One handover with a stop or a second SIGHUP at
  any moment is covered; for longer chains there are the proofs.
- Dispatch: three requests, two contexts, two controllers: contexts and
  controllers are used again after any ending, requests overlap on one route or
  two, and a handler that lost its controller still writes when the context has
  gone to a third request, of its own route or another. Requests, contexts and
  controllers are symmetric; no liveness is checked there.
- Exchange: two clients, which are symmetric; two tokens, two flash messages,
  two operations of an action besides one of BeforeAction. So a message meets
  another key, another client, a lost response or a restart before the next
  request, a token is held by the controller while another client posts, and a
  status or an encoding is set before each way of answering. Two Accept-Encoding
  headers (by weight; without weight beside one of weight 0), a level for
  InitGzip that differs from that of static files, so that the pools could mix.
  Three forms, with an index, gaps, an open key twice, two spellings of a
  field, text, blanks and numbers too large; integers of two bits out of three,
  so that every wrap and every cut-off occurs.
- FileLog: two messages, three periods, one crash, one failing call, one number
  for rotated files, one deleteOldLog at a time; a daily configuration with a
  limit of one line and an hourly one without limit. So a rotation meets a
  write, a full directory, a late goroutine and a restart on the same and on
  another day. Days have one hour here: the two configurations differ in names,
  limits and numbers.
- Router: three routes, four calls on them (a matcher, a controller, a
  subrouter), three path templates, a host and a query template, a malformed
  one; five requests, which tell a prefix, a variable and a trailing slash
  apart. So an inner route falls through to the next route, controllers and
  variables come from two levels, and a subrouter may hold two routes.
- Session: one client, two requests at a time, one controller, one item, two keys
  drawn, a clock with two values and a lifetime that ends with the tick of the
  save. One item is enough to be saved, deleted, lost or revived. A controller
  carries an object from one session of the client to another as it does from one
  client to the next: after a lost cookie, say, the kept object and the new
  session differ. With one controller two handlers overlap only across a restart;
  two requests of a client overlap in any case, from sending to the response.
- StaticCache: three requests, two keys of one file, room for one entry, three
  versions of which the last is too large to cache, one failure of os.Stat,
  os.Open or of reading while the file is in place.
- Templates: two renders, a page that uses two blocks of a part, in its next
  version the part itself, three versions of the part of which the last is
  broken; files are rewritten at any moment, and the part is removed. So an
  include, a search, a search past a part that is gone, both error paths and the
  panics under the lock meet another render that waits to parse or to execute,
  and a template without its block, stored by a render that met the removal,
  is executed by one that began when the part was back. The search of a second
  file with the block after a failed one, and a broken file included by one that
  was found, need three files and are not reached.

Fairness: weak fairness of each goroutine, which the Go scheduler gives; of
signal delivery; of `DefaultTimeout`. Nothing is assumed of clients, handlers,
the operator or of callers of the logger. `sync.RWMutex` does not starve
writers, so weak fairness of a request is enough for `Answered` and
`RendersEnd`.

Deadlock is not checked: every model may come to rest, when all requests are
served, no process is left or nobody logs any more.

## Proofs

Each proof module has one inductive invariant, a lemma for each action that
says what it keeps, and the theorems at its end.

**StaticCache** (`IInv`): types, `LockHeld`, `CacheSound`, what a request has in
hand (`InHandSound`) and, if different versions differ in modification time or
size (`DistinctStat`), `ServedFresh`. `ServedFresh` alone is not inductive: it
needs that a holder is never tagged with a later version than its data, that
this also holds of the holders in the cache, and that a request has stat'ed the
file before it looks. The refill keeps it because it reads the file after the
stat. Without `DistinctStat` a rewrite that keeps time and size is served stale;
everything else holds without it. The bound of the cache needs cardinalities:
`AddBounded`. `SpecReadsFresh` is the refinement of FreshRead: under the
invariant each action is a step of the abstract server or none.

**Dispatch.** Two invariants, neither with a premise. `PoolInv`: types, contexts
exclusive and accounted for, a handler has a controller with a context; no step
between GetContext and PutContext takes a ResponseWriter from a context
(`InnerKeepsPool`). `HandlerInv`: the controller of a handler that was not
overtaken is on the handler's context; only a handler and overtaken ones write
to its response; and, for a response no other handler wrote to, `Started` tells
whether anything was sent, and nothing was at the points at which the code relies
on it (`Answer`). From these follow `ControllerIsMine`, `ResponseIsolated`,
`AnsweredOnce` and the action property `NoActionAfterOwnResponse`, for any number
of requests that overlap on any routes: an overtaken handler may write to
anyone's response, but a request it leaves alone is served right, whoever had
its context and controller before. That overtaken handlers do break the plain
`NoActionAfterResponse` is what `MCDispatchShared.cfg` shows.

**Exchange** (`Inv`): types, what is at rest between requests (`AtRest`) and what
holds under way (`UnderWay`). `FlashRight` speaks of the moment at which
ReadFlashData has run; to carry it through to the next request, `UnderWay`
says of every place what the client's flash cookie will be after the response
(`After`): the messages promised (`Promised`), and none that was shown before
(`NotAgain`). It must hold of what is set as well as of what was sent, as a
header that is set after the first byte is lost. `PostHasOwnToken`, of requests
the configuration and the controller both want checked, needs no more than that
CheckXSRF compares with what the context returns, never with the controller's
token, nor with one drawn for a request that was not checked.

`ResponseSound` and the types rest on a second invariant beside it, `Rest`: a body
that was sent fits its header (`BodyOK`); the pools hold only compressors of the
level they are for, whatever level InitGzip sets (`PoolsOK`); the context knows
whether something was sent; and the status that was asked for is the one the
context holds until then (`StatusOK`). That an encoding is one the client
accepts is a fact of `parseEncoding` for every header (`EncodingAcceptable`).

`BoundRight` is the statement about data: it holds of what Bind computes from any
form, in any order (`SliceSound`, `FieldSound`, `GetIntRight`), and the invariant
`BoundOK` adds only that what is bound came from the form of the request that is
served. The values of the open keys are joined by the recursive function of
FlattenSeq; where each piece begins (`JoinedPlaced`) is shown from the least
piece for which it would fail (`UpTo`). That the pieces do not meet and leave
nothing out then follows from a walk having every key once (`OrderWalks`).

**Session** (`Inv`): types; what makes session calls safe: a handler whose
session was neither destroyed nor regenerated has an object with a map (`Sound`),
unless its controller kept one without a map, and such a one is always that of a
request which regenerated its id (`KeptWell`, `Explained`); and that a cookie with something in it, in a browser, a request or a
response, was made no later than its client's last save (`Dated`,
`DatedRequest`). `PanicsOnlyAfterEnd` follows from the second; `Expires`, about
the step SessionStart, from the third. `Expires` needs the third for every
place a cookie may be in, as responses arrive in any order; only SessionStart
may put the last save earlier, and only when no other request of the client is
in flight (`SessionStartStep`). No premise: both hold with keys drawn per
process, lost responses and overlapping requests.

`Carried` needs to know what a session is at every place on its way (`CarryInv`):
unless it is in doubt, its client has one request in flight, the handler has the
session as it should be or has yet to save it, and the cookie the client will
have after the response gives it back for as long as the last save is within
the lifetime (`Keeps`). A handler that works on a kept object changes nothing
that is known of its client's session, unless that object differs from it: then
what it saves is blamed on the kept one, the seventh reason. A restart puts
nothing in doubt where keys are configured. Premise: `AllExcused`, that each way
in which the code loses a session counts as a reason, a restart only if keys are
not configured.
`MCSessionRegenerate.cfg` drops one of them, and `Carried` fails.

**FileLog** (`IInv`): types; `FilesSound`, which is what lets a path stand for a
file: of the files that got one path only the last may still be there (`Unique`),
of those of one day only the last without a number (`Named`, `Order`), none was
overwritten (`NoneLost`), no line is younger than its file (`Dated`); each
message in at most one file, in exactly one once its write returned
(`LinesOnce`); the open file and the counter, with or without the lock
(`FdSound`); and what deleteOldLog has seen when it removes (`SweepSound`): a
rotated file gets no line any more, so that what was old when it looked is old
when it acts. `LinesKept`,
`WritesToCurrent`, `CountersExact` and `DeletesOnlyOld` follow, with any number
of messages, files, configurations and failures.

**GraceServer** (`IInv`): types, what each place of `serve` and of `hand` says
about the listener and the signals of its process (`Serves`, `Handles`,
`Drains`), that processes are a chain (`Chain`), and `Handed`: until the
operator stops it, a process that has seen a stop signal has a child that is
past telling its parent, and so listens. `ParentIsTold` is inductive only
together with the places of the child. `AlwaysListening` takes the last process
that listens (`LastExists`, by well-founded induction on the chain): it has
seen no stop, since its child would listen too. Premise: no TLS, see below.

**AsyncLog** (`IInv`): types of the fields of the handshake, and `Places`, which
says for every place of every goroutine what `init`, `asynchronous`, the
counter and the signal channel are. `FlushProtocol` (the counter is zero
exactly from the logger's Done to the flusher's Add, and who sleeps in Wait has
a flush under way) and `NoPanic` hold together or not at all: Done panics unless
the counter was raised, Add panics unless the woken flusher has left Wait.
Premises: `Quiet`, Async and Reset are called before anyone logs, and
`OneFlusher`. Any number of writers, adapters, messages and any channel.

The types hold without a premise, Reset and Async beside writers included.
`SpecLogsInOrder` is the refinement of LogService under the two premises. Its
invariant (`ServiceInv`) adds to `IInv`: no adapter twice in a list of outputs
(`Lists`); the writers write or the logger does, never both (`Modes`); a message
in hand or in the channel is younger than all that its writer has before it,
written or queued (`Queue`), which gives order and no message twice; and of what
a Flush owes, that it was written, is queued, or is in the logger's hand with
the adapter still ahead in its loop (`Owing`), so that it has all been
delivered when the channel was found empty (`DueInv`). A step is then Write,
Flush's beginning or end, Configure, or hidden (`ServiceStep`). SetLogger and
DelLogger may come at any time: an adapter that joins late is owed nothing.

**Router** (`RouterInv`, in `Dispatch_proofs`): what is registered is well-formed
(`Sound`). A route keeps the last matchers of its kinds among its matchers
(`Kept`), and a subrouter comes last among them and has routes made after the
route it belongs to (`Nested`); routers share no route (`Apart`). That a route
rests on later ones is why the recursion of `Answers` and of `Chains` ends: the
functions exist (`AnswersIs`, `ChainsIs`), and what holds of a route if it holds
of those after it holds of all (`AllDownTo`, from the greatest one it would not
hold of). So every answer is yes exactly if there is a way from the route, and
then the routes of the way fill the match and no other (`AnswersAreChains`); as
the subrouter comes last, a matcher that fails has nothing filled before it.
`RoutedRight` and `VarsOwn` follow along the way, route by route (`FilledRight`,
`FilledOwn`). For `EarlierFirst` two tables are compared, of which one has a route
more (`AnswersSame`, `LoopLonger`). Premise: `SubrouterLast`, without which the
first two fail. Templates, requests and the number of routes are any.

**Templates** (`IInv`): types; the lock is held by the request that parses, or by
one that panicked with it, and by no one while a template is executed
(`Locking`); versions a request has asked for are not of the future (`Asked`); whatever is
parsed under the lock (`LoadFresh`), and what is stored (`StoreFresh`), is as
new as the files were for every request that has built something. The last is
why `RenderedFresh` survives the renders of others: they replace a template only
by one no older.

Assumptions of the proofs are the `ASSUME`s on the constants
(`StaticCacheAssumption`, `DispatchAssumption`, `ExchangeAssumption`,
`SessionAssumption`, `FileLogAssumption`, `GraceServerAssumption`,
`AsyncLogAssumption`, `TemplatesAssumption`, `RouterAssumption`, and `InputsAssumption`: forms are
finite and have a value for each key), which TLC evaluates in the runs, and the
premises named above, which the theorems state: `DistinctStat`, `~TLS`, `Quiet /\ OneFlusher`, `AllExcused`, `SubrouterLast`. The runs of
these modules satisfy them.

Only model-checked: all liveness properties (`QueuedIsWritten`, `FlushReturns`,
`HandoverCompletes`, `StopCompletes`, `RotationHappens`, `Answered`,
`RendersEnd`), which rest on fairness and are beyond TLAPS.

## What was found

Three runs violate what a comment of the code says: see `findings` in
`PROJECT.json`. Concurrent requests of one route share a controller, and a
controller keeps a session; both come from registering one instance per route.
Regenerating a session's id loses the session, and leaves the controller an
object without a map: from then on SetSession panics in every request of the
route, though it ended nothing itself, until one calls FlushSession or the
program restarts (`Session`).

Others are seen in the models without a run of their own. Those that break a
property if its premise is dropped:

- With `TLS = TRUE` GraceServer violates `AlwaysListening`: fork asserts that the
  listener is a `*net.TCPListener` (`servers/server.go:323`), which the one of
  tls.NewListener is not.
- `RendersEnd` needs `LeftLocked`: one render of a page whose include is missing
  panics between Lock and Unlock (`ctrl/template.go:138-154`, 197), and no
  template is rendered from then on. It needs the trouble of renders that
  overlap, too: a render that did not find a block while its file was gone logs
  this and stores the template (`ctrl/template.go:255-260`, 153), and one that
  found all files in place executes it and fails.
- `OnePeriodPerFile`, added to `MCFileLog.cfg`, is violated: every write opens the
  file again and sets the date it was opened to today (`logs/file.go:215`), so that
  after a write at midnight the goroutine finds nothing to rotate and the file
  mixes two days ("Rotate daily", `logs/file.go:37`).
- A matcher added to a route behind its subrouter (`SubrouterLast`).

Behaviour that the models show and the properties leave out:

- `EnableXSRF` of the configuration checks nothing by itself: it has the dispatcher
  ask (`mux.go:148`), and CheckXSRFCookie passes every request unless the
  controller's own `EnableXSRF` is set (`ctrl/controller.go:72`, 274-276), which no
  code of the framework does.
- Once the controller has a token, `Init` does not reset `_xsrfToken` and every
  POST that is checked is refused with 417, the valid ones as well
  (`ctrl/controller.go:258-267`).
- A flash message that was shown and is stored again with another one is shown
  again; Notice, Warning and Error are swallowed by a message just shown; what
  BeforeAction stores is deleted with the cookie that is read after it; Success
  looks for the key `success` and stores `Success`.
- A status set before WriteString is lost, though SetStatus is said to write the
  header; `EnableGzip` survives `Output.Reset` and holds for the next client.
- `gzip;q=0, *` is answered with gzip, as the first entry without a weight wins.
- Bind truncates a number that does not fit, without an error, where the getters
  return one; two spellings of one index or field are decided by the map.

Seen while reading: `Redirect` builds `http://host:porthost:port/uri` when no
other host is given; nothing calls `InitGzip`, `EnableGzip` and `SetParam`;
`AcceptsXML` reads a header `Accpet`; Warning, Informational and Debug of the
logger ignore the level; the writers of the multi-file adapter all name their
file after the day (`logs/file.go:161-164`), so that the levels are not kept
apart as `logs/multifile.go:10-13` says.

## Plan

1. `FileLog` with several writers on one file: the multi-file adapter, and
   parent and child during a restart, each with a lock of its own.
2. Method mappings in `Router`; the search of static files by URL prefix.

## Not modelled

- Configuration (`config.go`, `env_config.go`, `hook.go`): read once by one
  goroutine before anything else runs. Its effect is the models' constants.
- Error pages, template functions, log formatters, utilities: conversions of
  values in one goroutine, without state.
- Mail, console and connection adapters: output. `conn.go` is commented out.
  AsyncLog sees them as adapters.
- The multi-file adapter: a loop over file log writers, see the plan.
- In binding: maps, floats and times, uploads, and the getters of request
  properties, which are string conversions.
- Several listeners in one process and user signal hooks, which `HServer.Run`
  does not use; the "close" signal of the logger, which nothing sends.

`components` in `PROJECT.json` says of each part what is left out of its model.
