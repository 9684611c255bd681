# grailstest in TLA+

This directory holds TLA+ models of the parts of the repository in which
several threads or requests share state, TLC configurations that check them on
small instances, and TLAPS proofs of the main safety properties for instances
of every size.

The repository is a collection of small Grails applications and plugins. One of
them, `ectest`, is a monitor whose pages receive data by server push, through
the Atmosphere 0.7.2 runtime whose source is kept in
`src/ectest/libsrc/atmosphere-runtime-0.7.2-sources`. That runtime is by far the
hardest code here: a notifier thread, a pool of writers, the container's request
threads, its closing threads and timers work on the same responses, partly with
locks, partly with plain fields. It is the core of this project. At the other
end of the channel stand the page's push client and its chart, two JavaScript
libraries whose handlers and timers interleave. The second application,
`crontest`, administers users concurrently; these are modelled too.

`<cpr>` below stands for
`src/ectest/libsrc/atmosphere-runtime-0.7.2-sources/org/atmosphere/cpr`.

Contents: 1 inventory, 2 plan, 3 modules and code, 4 runs, 5 bounds, 6 fairness
and deadlock, 7 proofs, 8 disagreements found, 9 facts without a property,
10 what is not modelled.


## 1. Inventory

### 1.1 Push channel - `<cpr>/DefaultBroadcaster.java`, `BroadcasterFuture.java`

*State.* `resources` (the suspended responses), `messages` (entries for the
notifier), `asyncWriteQueue` (one token per message and response), `started`,
`delayedBroadcast` (entries waiting for the next broadcast), and one
`BroadcasterFuture` per broadcast, which is a latch.

*Operations.* `broadcast(msg)`, `broadcast(msg, resource)`,
`broadcast(msg, subset)`; `delayBroadcast` with and without a delay; `push` by
the notifier or by a timer; `executeAsyncWrite` by a pool thread; `onException`;
`add`/`removeAtmosphereResource`.

*Interaction.* Callers offer entries to the notifier; the notifier puts tokens
on the write queue; the pool takes tokens in a leader/follower pattern. The
leader takes a token, enters `synchronized(resource)`, hands the lead over by
submitting the task again, and then writes. Writing calls the service's
`onStateChange`.

*Hard.* Two threads hold successive tokens of one response; cancellation runs
beside it without the lock; a write that throws starts a second task which
resumes the response while the writer still holds its monitor; a timer pushes
beside the notifier over a weakly consistent queue, and whoever takes its entry,
the notifier or its own push, interrupts it.

*Correct when* there is always exactly one leader; writes to one response
exclude each other; each response receives messages in broadcast order, none
twice; each message arrives unless the response ends; a cancelled response is
not written to over and over; a delayed message is sent.

### 1.2 Request processor - `<cpr>/AsynchronousProcessor.java`, `AtmosphereResourceImpl.java`, `AtmosphereResourceEventImpl.java`

*State.* `aliveRequests`; per response the action type, the event with
`isCancelled`, `isResumedOnTimeout` and `message`, `isInScope`, and the request
attribute `MAX_INACTIVE`.

*Operations.* `action(req, res)` runs the handler and lists the request if it
is suspended; `cancelled` and `timedout` end it; `resume` ends it from the
server's side; `closedDetector` (off in this application) looks for idle ones.

*Interaction.* Both closing operations call the handler once more, remove the
response from the broadcaster and from `aliveRequests`, and the former takes it
out of scope, which makes its request and response unusable.

*Hard.* The flags are read and set without a common lock: `isCancelled` and
`isResumedOnTimeout` are AtomicBooleans, `isInScope`, the message and the action
plain fields. The container may report the end of one response twice, in two
ways, from two threads; the clean-up sits in two nested `finally` blocks; a
response may be resumed before the request thread has listed it.

*Correct when* nobody uses a response that is out of scope; such a response is
in no table and does not come back; a cancelled response leaves all tables.

### 1.3 Blocking container support - `org/atmosphere/container/BlockingIOCometSupport.java`

*State.* the map `latchs`, the request attribute `LATCH`, the latches.
*Operations.* `service`, `suspend` (wait on the latch, with or without a
timeout), `action` (on a resume: take the latch and count it down).
*Hard.* a resume that comes while the request is about to enter its latch.
*Correct when* a taken latch opens; a resumed or expired request returns.

### 1.4 Tomcat container support - `org/atmosphere/container/TomcatCometSupport.java`

Maps the container's events to `cancelled` and `timedout`; keeps a queue
`resumed` of events that were closed by the server.

### 1.5 Push services and demo controller - `src/ectest/grails-app`

`Atm1Service`, `Atm2Service` and `Atm3Service` are the Atmosphere handlers:
`onRequest` suspends, `onStateChange` writes the message unless the response is
ending. Each has a field `data`. `AtmController` starts (`index`), stops
(`stop`) and feeds (`push`: up to 1000 iterations of sleep and broadcast) one of
them. *Hard:* three actions share `data` without a lock. *Correct when* a
stopped channel falls silent and every push request returns.

### 1.6 User administration - `src/crontest/grails-app/controllers/crontest/UserController.groovy`, `domain/crontest/User.groovy`, `conf/BootStrap.groovy`

*State.* the table of users with Hibernate's version column; the form in each
browser, which carries an id, a version and the encoded password.
*Operations.* `edit`, `update`, `delete`, `save` (`list`, `show` and `create`
only render); `beforeInsert`/`beforeUpdate` encode the password.
*Hard.* two administrators edit one user; a form is submitted again from the
browser's history; the row vanishes between the page and its submission.
*Correct when* no update is lost; passwords are encoded exactly once.

### 1.7 The monitor page - `views/atm/index.gsp`, `jquery.atmosphere.js`, `smoothie.js`

The page subscribes to the channel with `jQuery.atmosphere` and appends the
second field of every message to a `TimeSeries`, which a `SmoothieChart` draws.

*State.* Of the client: the request object of every subscription, with its
`requestCount` and `lastIndex`; `jQuery.atmosphere.request`, the one used last;
`activeRequest`, the connection that a new transport closes; a timeout for every
request without headers. Of the chart: the points, the bounds of their values,
and the loop that draws.

*Operations.* `subscribe`, `publish`, `executeRequest` with `onreadystatechange`,
`onerror` and the timeout, `closeSuspendedConnection`; `append`, `resetBounds` (an
interval timer), `render` (the loop of `streamTo`).

*Interaction.* A chunk of the response calls the page's callback, which calls
`append`; the end of a response makes the next request.

*Hard.* One thread, but handlers of several connections in any order over a few
shared fields; a timeout against the headers it waits for; messages that chunks
split and merge; values that are Strings, numbers or NaN.

*Correct when* a page listens on one connection; it gives up after `maxRequest`
and falls silent for no other reason than the code names; it hears messages in
order; the chart's scale covers its points and adapts to them.

### 1.8 The rest

| part | state and operations |
|---|---|
| Broadcaster factory (`<cpr>/DefaultBroadcasterFactory.java`) | a table of broadcasters by name; lookup and creation in two steps |
| Servlet, choice of the container | reads the configuration at start-up |
| Other container supports, web sockets | map the events of containers that are not used here |
| Broadcaster caches, filters, Meteor API | not configured by the applications |
| Cluster broadcasting (JGroups) | forwards broadcasts between servers; switched off in `BuildConfig.groovy` |
| Mail controller, poetry demo, empty handler (`ectest`) | a configuration flag before a synchronous mail; empty handlers |
| Backup jobs (both applications) | a cron job every ten minutes that names its file by a 12-hour clock |
| Login and logout controllers (`crontest`) | generated redirects |
| Embedded GlassFish (`grails-glassfish`) | start, stop, restart, deploy of an embedded server |
| Standalone launcher (`plugin_ext`) | start of an embedded Tomcat with a kill switch thread |
| Eclipse support | writes two XML files from the dependencies |
| Log4j XML plugin | reads a configuration at start-up |
| Vendored JavaScript (jQuery, Prototype, Rico, ExplorerCanvas) | third-party libraries, in up to six copies |
| Build scripts, skeleton applications, Jenkins home | sequential or third-party |

`PROJECT.json` lists every part with its sources and status, and under
`hazards` everything in this code that is hard to test.


## 2. Plan

Done:

1. `OrderedFeed`: the abstract specification of a channel.
2. `DefaultBroadcaster`, then `AsynchronousProcessor`, which composes the
   channel with the requests behind it; the composition is shown to implement
   `OrderedFeed`.
3. `PushInvariant` and the proofs `PushProofs`, `PushOrder`.
4. `DelayedBroadcast`, `BlockingIOCometSupport`: parts of the runtime with a
   protocol of their own, each beside the core module.
5. `AtmController` and `UserController`, with `AtmProofs` and `UserProofs`.
6. `BlockingProofs` and `DelayedProofs`.
7. `AtmosphereClient`, `SmoothieChart` and `MonitorPage`, which composes them,
   with `ClientProofs` about the client's connections.
8. `PageProofs`: the order of what the page hears, its types and its chart; in
   `DelayedProofs` the order of the delayed texts. With them every safety and
   action property of a passing run is a theorem.

Left, in this order:

1. `SuspendPolicy`: the limit of suspended responses in
   `addAtmosphereResource` (`DefaultBroadcaster.java:690-733`), which tests and
   adds in two steps, so that two threads may exceed it and it is then never
   met again.
2. `BroadcasterFactory`: creation of a broadcaster by two threads
   (`DefaultBroadcasterFactory.java:118-192`, a test and a put), the life cycle
   policies and `destroy()`.
3. The closedDetector, and the queue `resumed` of `TomcatCometSupport`.
4. The client's branches for other browsers and for web sockets.
5. `JGroupsFilter`/`JGroupsBroadcaster`: the order of messages at two nodes.
6. `BackupJob`, `GlassfishServer`, `Launcher`, `EclipseUpdate` as small modules.

The first two come after the monitor page because this application exercises
neither: its life cycle policy is NEVER (`AtmosphereServlet.java:243`), it sets no
limit, and its broadcasters are made at start-up by one thread.

A theorem that remains worth proving: the safety half of `EveryMessageArrives`, that
a message pushed to a response which is neither cancelled nor failed is in a
queue, in a thread's hands or written.

Abstract specifications that remain worth stating: a delayed message as "in the
queue, on its way, sent"; a request's thread as "blocked, released once".


## 3. Modules and code

`PROJECT.json` maps every definition to its lines. In outline:

**`OrderedFeed`** - `published` counts updates, `feed` is what each subscriber
received; `Deliver` only appends something later than all before.

**`DefaultBroadcaster`** - one broadcaster. A message is the number of its
broadcast, 0 is null.

| module | code |
|---|---|
| `Broadcast` | `broadcast(...)` with `start()` on the first call |
| `NotifierTakes`, `PushToNobody`, `PushEntry` | the notifier's loop and the head of `push` |
| `PushOne`, `PushOutOfScope`, `PushSkips` | one step of `push`'s loop over the responses, with `perRequestFilter` |
| `Take`, `Enter` | the pool thread's `take()` and `synchronized(resource)`; `Enter` also submits the next leader |
| `DropToken`, `SetMessage`, `Touch`, `Mark`, `MarkFails` | `executeAsyncWrite` up to `broadcast(r, e)`: each read and write of a shared field is a step |
| `HandlerSkips`, `HandlerWrites`, `HandlerFails` | `onStateChange` of the service; a failing write starts the task of `onException` |
| `Finish` | `future.done()` and the end of the monitor |
| `Resume`, `ResumeAction`, `ResumeLeave` | `AtmosphereResourceImpl.resume()` in the task of `onException` |
| `AddAtmosphereResource` | the method of that name, with what a running iterator may see of it |

`wire[r]` and `late[r]` are what was written to a response before and after it
was cancelled. Fields that another thread writes without a lock (`isInScope`
read by the notifier, `message` read by a closing thread) may be read with their
old value: the step that follows from it has no guard on the field.

**`AsynchronousProcessor`** - extends the channel by the request threads
(`Suspend`, `Subscribe`, `CheckSuspended`, `PutAlive`: `action(req, res)` and
`onRequest`) and by closing threads (`Guard` to `DestroyAgain`: `cancelled` and
`timedout` line by line, including the paths through the `finally` blocks). Its
`Next` is the whole push runtime of the monitor.

**`DelayedBroadcast`** - `delayBroadcast` and `push` as seen by delayed
messages. `stack[t]` holds the nested calls of `push` of one thread: what the
call pushes, the texts it has merged in front, and its iterator. `Take` is
`iterator.next()` with `future.cancel(true)`, `Merge` concatenates two texts,
`Nest` is the recursive call, `Overflow` its end in a `StackOverflowError`,
`Put` the puts at the end, `PutInterrupted` the `InterruptedException`. `timer`
has the states of a `FutureTask`, and `cancelled` are the timers whose task was
cancelled while it ran, for which a second `cancel(true)` does nothing. `Running`
has one member at most: `BroadcasterConfig.java:384` makes a scheduler of a single
thread, so that only the notifier and one timer push at the same time.

**`BlockingIOCometSupport`** - the request's thread from `TestSuspended`
(`AsynchronousProcessor.action`) over `TestType`, `SetAttribute`, `PutLatch`,
`Await` to `Timedout`, and beside it one resuming writer: `Resume`,
`ForgetAlive`, `GetAttribute`, `TakeLatch`, `CountDown`.

**`AtmController`** - `Index`/`Seed` and `Stop` per browser, `Test`,
`Broadcast`, `Return` per push. `return` inside the closure of `1000.times`
ends one iteration, which `Test` models.

**`UserController`** - one request is a chain of steps: `UpdateGet` reads the
row, `UpdateStale`/`UpdateInvalid`/`UpdateValid` compare and validate,
`UpdateFlush`/`UpdateNothing` is the flush at the end of the transaction;
`SaveValid`/`SaveInsert` and `DeleteGet`/`DeleteFlush` likewise. A password is
what was typed and how often it was encoded since. Hibernate's versioned
`UPDATE ... WHERE id = ? AND version = ?` is `Current`, modelled from how the
code relies on it.

**`AtmosphereClient`** - `request` are the request objects and `ajax` the
XMLHttpRequests in the order of their creation; the other variables are the
library's fields and the page's running timeouts. One action is one event:

| module | code |
|---|---|
| `Subscribe`, `Publish` | the functions of these names, called by the page |
| `Execute`, `SubscribeWith`, `Aborted` | `executeRequest`, the rest of `subscribe`, `abort()`: part of the actions that call them |
| `Headers`, `Refuse` | the first `readyState` change, with status 200 or another; both clear the timeout |
| `Chunk` | `readyState` 3: `lastIndex`, the padding, the first message of the text, the callbacks |
| `End` | `readyState` 4: a suspended request is made once more |
| `Fail` | `onerror` |
| `Timeout` | the task of `setTimeout` in `executeRequest` |
| `Broadcast`, `Arrives` | the server and the network, as the library sees them |

A response's text is a sequence of pieces: the padding, and two halves of each
message, so that a chunk may end inside one. `lastIndex` counts pieces.

**`SmoothieChart`** - `AppendPoint` is `append`, `ResetBounds` and `Render` are the
functions of these names, `Tick` lets every point age. A value is a number with a
flag that says whether it is a String, or NaN; `Widen` and `Narrow` are what
`append` and `resetBounds` do to a bound: the first value is taken as it is, and
`Math.max`/`Math.min` make numbers of the following ones.

**`MonitorPage`** - extends both. `Callback` appends, in the very step in which the
client calls it, the second field of the message, or NaN for a text that is none.

**`MCPush`, `MCDelayed`, `MCBlocking`, `MCAtm`, `MCUser`, `MCMonitor`** - values of the
constants and symmetry for TLC. Operators marked *Mutant* in a module are
deliberate mistakes in the definition that follows them; no specification uses
them. They show for every property that it fails when the code is changed.


## 4. Runs

| run | checks | shows |
|---|---|---|
| `push_channel` | `TypeOK`, `OneLeader`, `WriterOwnsMonitor`, `InScopeWhileWriting`, `OutOfScopeIsForgotten`, `OneLateWrite`, `OrderedDelivery`, `EveryMessageArrives`, `CancelledLeaves` | A response that is written to, fails, resumes and is closed by the container, in either way and repeatedly, while three pool threads push two broadcasts (to all, to it alone, to nobody): one leader, exclusive writers, at most one late write; the runtime implements `OrderedFeed`; under fairness a queued message arrives or the response ends, and a cancelled response leaves both tables for good. |
| `delayed_queue` | `TypeOK`, `NoTextForgotten`, `DelayedInOrder`, `WithFirstBroadcast` | Two texts, with timers or without, and an object are delayed while two texts and an object are broadcast, the notifier and a timer pushing at once: a text is lost only by an interrupt or a stack overflow; among texts without timers each is sent once, in order, with the first broadcast after it. |
| `blocking_timeout` | `TakenLatchOpens`, `TimeoutReturns` | A latch taken from the map is opened; a request with a timeout returns its thread and leaves no latch, whenever it is resumed. |
| `monitor_page` | `TypeOK`, `OneConnection`, `GivesUp`, `SilentForAReason`, `HeardInOrder`, `ScaleCovers`, `NothingUnheard`, `LineComesIn`, `StopsOnlyAlone`, `NoRequestHangs`, `Rescales` | The page's connections are answered, refused, cut, timed out and made again, in chunks that merge and split messages and with a publish in between, while the chart appends, deletes, rescales and draws. |
| `atm_stop` | `QuietAfterStop`, `PushReturns` | Two browsers click start and stop while two pushes run: after a stop each push broadcasts once more at most, and each returns. |
| `user_admin` | `PasswordEncodedOnce`, `NoLostUpdate` | Two browsers edit, resubmit, create and delete two users: no update replaces a row its author has not seen, no password is stored in clear or encoded twice. |
| `future_written` | `FutureMeansWritten` (fails) | see 8 |
| `future_returns` | `FutureReturns` (fails) | see 8 |
| `delayed_lost` | `DelayedArrives` (fails) | see 8 |
| `blocking_resume` | `ResumeCompletes` (fails) | see 8 |
| `client_transports` | `OneTransport` (fails) | see 8 |
| `chart_stops` | `KeepsDrawing` (fails) | see 8 |

What the properties of the page say about the code, where the names do not:
`SilentForAReason` lists every way in which a page falls silent for ever (used up,
refused, or cut after its headers); `NothingUnheard` finds a `lastIndex` that is off
by a chunk; `StopsOnlyAlone` says when alone the drawing loop can end;
`ScaleCovers` holds between, and in spite of, deletions, timer runs and NaN.

Run one with `tlc -config push_channel.cfg MCPush`, and the proofs with
`tlapm PushOrder.tla`, `tlapm DelayedProofs.tla` and so on.


## 5. Bounds, and why they are enough

* **`MaxBroadcast`** is 2: two messages can overtake each other, one being
  written while the next leader holds the other. That a third one changes
  nothing is part of what is proved, for every number.
* **`Worker`** has three threads: the leader, a writer, and a second writer or
  the task that resumes a response. The cached pool grows without limit; a
  fourth thread would repeat a role. Where no thread is idle, `Enter` and
  `HandlerFails` wait: the pool is a bound of the model, and the safety
  properties are proved for every number of threads.
* **`Resource`** and **`Closer`** are one each in `push_channel`, whose one run
  checks safety and liveness together; a closer may report several ends of the
  response, one after the other. Several closers and responses are covered by
  the proofs of all its safety properties; `future_written` has two responses.
* **`Target`**: one response alone, and the empty set, in which a broadcast
  produces no token at all.
* **`MaxDepth`** stands for the thread's stack. With 2 calls a nested one meets
  the entry of the outer one (`delayed_queue`); `delayed_lost`, with fewer
  messages, has room for a third. The proofs hold for any depth.
* **`Iterations`** = 3 for 1000, and **`MaxData`** = 1 for 149: the properties
  distinguish the first, a middle and the last iteration, and 0 from not 0.
* **`MaxVersion`** = 2, **`User`** = one seeded and one created id, **`Name`**
  two names: a lost update needs one version between the form and the flush; a
  taken username needs two names.
* **`Text`** two passwords, so that a new one differs from the one stored.
* **`Message`** of `delayed_queue`: two delayed texts that may merge, swap and
  take each other; an object, which cannot be merged and nests; two texts and
  an object as broadcasts, so that a second one can catch what the first left.
* **`monitor_page`**: `MaxRequest` 2 lets a request be repeated and be given up;
  one subscription and one publish, which shares the library's fields; two
  messages of two halves, in any chunks; points that leave the chart after one
  tick (`Window` 0); a high value that is followed by a lower one and leaves
  before it, so that the scale must shrink. `client_transports` has three
  subscriptions, the fewest in which a forgotten connection meets another
  transport, and a publish, whose failure makes the library forget a suspended
  connection as well. `ClientProofs` and `PageProofs` lift the bounds on the client
  and the chart.

Symmetry is used in runs that check invariants and box properties only, never
where fairness is assumed.


## 6. Fairness and deadlock

*Push runtime* (`FairSpec`): the notifier, every pool thread, every request
thread that has begun and every closing thread that has begun keep running.
They are executor or container threads with no other waits than those
modelled, and a write that hangs for ever is excluded (the container's socket
timeout ends it in `HandlerFails`). Nobody has to broadcast, to subscribe or to
disconnect. Weak fairness suffices: while a thread waits for a monitor, its
step is disabled now and then, and `push_channel` shows that this does not
starve the channel with one response.

*Delayed messages*: timers that are due run, one after another on the
scheduler's thread, and calls that have begun go on; each timer runs once, so that
weak fairness lets the others follow.
*Blocking support*: threads go on and a timed wait ends; a write need not fail.
*Demo controller*: a push keeps running; nobody has to click.
*Monitor page*: the browser runs the timeouts of the client and the interval
timer of `resetBounds`. Neither the server nor the network is assumed to answer,
and nobody has to draw.

`CHECK_DEADLOCK FALSE` stands where the bounded system may stop: all broadcasts
used up and everything delivered, all delayed messages sent, all requests
answered, all subscriptions given up. `atm_stop`, `user_admin` and the
monitor page never stop and are checked for deadlock.


## 7. Proofs

| theorem | module | says, for all values of the constants |
|---|---|---|
| `TypeCorrect` | `PushProofs` | the runtime's types; a working thread has a response |
| `LeaderTheorem` | `PushOrder` | `OneLeader` |
| `MonitorTheorem` | `PushOrder` | `WriterOwnsMonitor` |
| `ScopeTheorem` | `PushOrder` | `InScopeWhileWriting` |
| `ForgottenTheorem` | `PushOrder` | `OutOfScopeIsForgotten` |
| `LateTheorem` | `PushOrder` | `OneLateWrite` |
| `DeliveryTheorem` | `PushOrder` | the runtime implements `OrderedFeed` |
| `LatchTheorem` | `BlockingProofs` | `TakenLatchOpens` |
| `DelayTypes` | `DelayedProofs` | the types of the delayed queue; an interrupt does not outlive its timer's run |
| `TextTheorem` | `DelayedProofs` | `NoTextForgotten` |
| `BroadcastTheorem` | `DelayedProofs` | `WithFirstBroadcast` |
| `QueueTheorem` | `DelayedProofs` | `DelayedInOrder` |
| `ConnectionTheorem` | `ClientProofs` | `OneConnection` |
| `GivesUpTheorem` | `ClientProofs` | `GivesUp` |
| `SilenceTheorem` | `ClientProofs` | `SilentForAReason` |
| `OrderTheorem` | `PageProofs` | `HeardInOrder` |
| `HeardTheorem` | `PageProofs` | `NothingUnheard` |
| `TypeTheorem` | `PageProofs` | the page's types: client, chart, and what passes between them |
| `ScaleTheorem` | `PageProofs` | `ScaleCovers` |
| `LineTheorem` | `PageProofs` | `LineComesIn` |
| `StopTheorem` | `PageProofs` | `StopsOnlyAlone` |
| `TightTheorem` | `PageProofs` | every `ResetBounds` makes the scale `Tight`, the step behind `Rescales` |
| `QuietTheorem` | `AtmProofs` | `QuietAfterStop` |
| `PasswordTheorem` | `UserProofs` | `PasswordEncodedOnce` |
| `UpdateTheorem` | `UserProofs` | `NoLostUpdate` |

*Assumptions.* `ChannelAssumption` (targets are sets of responses, `All` is not
one of them, `Nil` is neither a response nor a thread, the bound is a natural
number), `CloserAssumption`, `DelayAssumption` (which messages are texts, delayed,
timed; a stack of at least one call), `ClientAssumption` (the transports, a
positive `maxRequest`), `ChartAssumption` (the values to draw are natural numbers, 0
among them, with which `initData` starts the series), `UserAssumption` and
`ControllerAssumption`. No assumption bounds the number of threads, responses,
closers, messages, requests or points.

*The inductive invariant of the runtime* is `IInv` in `PushInvariant`. None of
the properties is inductive alone:

* `OneLeader` needs that the pool is idle until `start()` (`IdleUntilStarted`);
  otherwise the first broadcast would add a second leader.
* `InScopeWhileWriting` rests on the monitor as a barrier. A closing thread sets
  `isCancelled` first, then passes through `removeAllAtmosphereResource`, which
  takes the monitor, and only then calls `setIsInScope(false)`. A writer that
  found the response not cancelled therefore has left before the barrier, and
  later ones drop their token. `CancelledBeforeScope` and `BarrierPassed` say
  that, with `CloserOwnsRequest` (closing starts only after the request thread).
* `OutOfScopeIsForgotten` needs that what a closer has removed stays removed
  while it goes on (`RemovedStaysRemoved`).
* `OneLateWrite` holds because after the first late write every writer tests
  `isCancelled` anew (`LateInv`).
* `OrderedDelivery` follows a message through both queues and the threads:
  queued entries carry the latest numbers (`Numbered`); whatever was pushed to a
  response is older than what will be (`PushOrder`); tokens in the queue are
  ordered per response and newer than held and written ones (`QueueOrder`); the
  leader's token is newer than the one being written, which is newer than what
  was written (`HeldOrder`); and the event's message is the writer's own
  (`MessageIsToken`), which is where the monitor is needed.

`PushProofs` proves the types and the parts up to `LateInv` action by action, `PushOrder` the order and the theorems. `UserProofs` argues over the
version: rows at one version are equal, so that a form, a loaded row and the
table with the same version agree. `AtmProofs` argues that a push about to
broadcast after a stop has not done so yet.

*Delayed messages.* `NoTextForgotten` is inductive only together with `Linked`: a
call of `push` that is not the innermost of its thread waits for its current
entry, and that entry is the message of the call above it. So when the outer
call removes the entry from the queue, the inner one has sent or dropped it.
`WithFirstBroadcast` needs that an iterator passes over nothing that stays in the
queue (`NothingPassed`), whence all that was queued when the notifier took a
broadcast is in the hands of its calls (`Carrying`). That the least position after
the iterator exists is shown by well-founded induction on the naturals.

`DelayedInOrder` needs a single number (`Leaving`), since without timers only the
notifier takes texts: of the texts in the order in which they were queued
(`offered`) the first g have left the queue and all others are in it; what is sent,
followed by what the notifier's call has merged, is in step with the first g
(`InStep`); and its iterator stands before the next one (`Stands`). A `Merge` then
takes text g + 1 and puts it behind the others. The invariant, `InLine`, is trivial
where a timer or an object is delayed (`OnlyTexts`): then a timer overtakes, and the
property does not hold.

*Blocking support.* Whoever has taken a latch is the only writer that can open
it, and goes on to do so; the argument follows the two program counters.

*The push client.* A subscription is a chain of request objects, since a timeout
subscribes anew with a copy. `Chained` says that every object and connection of a
subscription belongs to its chain, that the connections of a chain have
different places among 1 .. `maxRequest`, that at most one connection or timeout
of a chain goes on, and that the object of that one has counted all places
taken. `OneConnection` follows for one chain, `GivesUp` because connections map
injectively into chains and places. `Watched` (a connection without headers has
a timeout, one with headers none, and its object remembers that timeout) is what
keeps the reasons of `SilentForAReason` complete. The theorems are about
`MonitorPage`'s specification: the chart shares no variable with the client.

*What the page hears.* `HeardInOrder` says that of two messages heard the later one
has the greater number; a garbled text, which has none, is left aside. It needs two facts
about the unread part of the streams. `Reading`: `lastIndex` of the object of an
open, streamed connection is how far that connection was read (the field is the
object's, not the connection's, so that this holds only from the first chunk on),
and the open connections' texts are pieces of messages in the order of their
broadcast. `Ordered`: whatever was heard is earlier than each piece that some
connection has not read yet. The step that matters is a `Chunk` of a new response:
its padding and the old `lastIndex` decide what is skipped, which may garble or
swallow a message but cannot bring an earlier one back. `Typed` says which fields
such an object can have; `requestCount` stays in 1 .. `maxRequest` + 1 only since an
object that is given up has neither connection nor timeout (`Going`).

*The chart.* `ChartInv` is `Scale` for all the points: the bounds are NaN exactly when
the last value is, they cover the values after the last NaN, and the lower one is
a String only for a point that is alone since. `Scale` has the number of points as a
parameter, so that it is also the invariant of `resetBounds`' loop (`Highest` and
`Lowest`, recursive functions of the number of turns); that it holds after every
turn follows from the principle of the least counterexample, since the library's
induction theorems cannot be applied. `Reached`, that each bound is one of the values
covered, is an invariant of that loop but not of the page: after a deletion it is
false until the timer runs, which is the reason for `Rescales` and for the form of
`TightTheorem`. The values that are appended come from messages heard, so `Known`
(what is heard was broadcast) gives the chart its types.

*Checked by TLC only.* Liveness (`EveryMessageArrives`, `CancelledLeaves`,
`PushReturns`, `TimeoutReturns`, `NoRequestHangs`, `Rescales`), since TLAPS has no
rules for fairness here, and the counterexamples of section 8. All invariants and
action properties of the passing runs are proved; for that `HeardInOrder`,
`DelayedInOrder` and `ResetBounds` are stated by quantifiers and a recursive function
instead of `SelectSeq` and the folds of the library, about which nothing can be
proved without induction over sequences.


## 8. Where code and documentation disagree

Each has a run in which TLC finds the counterexample.

* **`future_written`** - `BroadcasterFuture.java:47-48` offers the future for
  waiting until a broadcaster has finished its broadcast. The latch opens with the
  write to the first response; others still wait for the message.
* **`future_returns`** - `Broadcaster.java:59-61` advises to wait for
  `Future#get`. When all tokens of a broadcast are dropped (the response was
  cancelled, `DefaultBroadcaster.java:480`) nobody opens the latch, and `get()`
  does not return.
* **`blocking_resume`** - `AtmosphereResource.java:59-61` says that `resume()`
  completes the response. A resume after the request's thread has tested the
  action type and before its latch is in the map is lost
  (`BlockingIOCometSupport.java:213`); without a timeout the thread waits for
  ever.
* **`delayed_lost`** - `Broadcaster.java:116-117` says that a delayed
  message is broadcast when its delay expires or with the first broadcast. A
  push that takes a text cancels its timer with `cancel(true)`
  (`DefaultBroadcaster.java:385`). A timer that is already pushing, and has
  taken other texts, is interrupted; its `put` throws and those texts are gone.

* **`client_transports`** - `jquery.atmosphere.js:93-94` says to make sure that one
  transport is used, not two at the same time. `closeSuspendedConnection` aborts
  the connection suspended last (`:98`); one that was subscribed before it with
  the same transport, which `subscribe` did not close (`:71`), stays open beside
  the new transport's.
* **`chart_stops`** - `tutorial.html:22` and `:86` of smoothie promise smooth live
  lines of any numbers. The page appends Strings (`index.gsp:46`); when the pushes
  have paused until one point is left, `resetBounds` makes that String the lower
  bound, `minValue.toFixed` throws (`smoothie.js:315`), and `streamTo` never sets its
  next timeout: the chart stays frozen although messages come in again.


## 9. Facts about the code that no property states

The models show these, but nothing in the repository promises otherwise:

* `MAX_INACTIVE` may be set to the current time after closing has set it to -1
  (`DefaultBroadcaster.java:490`), so that a response can be closed twice.
* Closing calls the handler with the event of the last broadcast, so that its
  message may be written once more, outside the monitor (`InvokeWrites`).
* A response resumed before its request thread lists it stays in
  `aliveRequests` (`AsynchronousProcessor.java:199`).
* A delayed text may be sent twice: its timer may fire before the text is in the
  queue, or find it in the hands of another push.
* The future that `delayBroadcast` returns for a message with a delay is not
  the entry's; nobody completes it.
* A delayed message that is not a String, pushed by a broadcast, calls `push`
  with itself still in the queue until the stack overflows.
* The browser that submits one form twice is told that another user has
  updated the row; its second submission changes nothing.
* A push that was stopped goes on when its channel is started again before its
  1000 iterations are over; `nextInt(150)` may yield 0, and `start` then does
  not start.
* `create.gsp` has no field `userRealName`, which `User.groovy:18` requires, so
  that its page alone cannot create a user. `save` is modelled for requests
  that carry it.

* After a reconnection `lastIndex` is still that of the last response, so that as
  much of the new response's first chunk is skipped; of several messages in one
  chunk only the first is handed on, and of a message that two chunks share
  neither half is one (the callback gets garbage, and the chart NaN).
* What arrives with the end of a response, after the last `readyState` 3, is not
  handed on: at `readyState` 4 only Internet Explorer updates.
* `onerror` of a publish forgets the suspended connection as well.
* `smoothie.js`: a value that is NaN makes both bounds NaN until the next value or
  the next run of `resetBounds`.


## 10. What is not modelled, and why

* In the push runtime: `destroy()`, `setScope`, `broadcastOnResume`, fixed-rate
  broadcasts, filters, broadcaster caches and life cycle policies, none of which
  the application uses; the closedDetector, which its configuration leaves off.
  The limit of suspended responses and the factory are planned (see 2).
* In the write task: an `Error` from the handler, which the `catch (Throwable)` of
  `DefaultBroadcaster.java:521-527` logs; it ends the task when the next leader is
  already submitted, and leaves the future undone. Of the exceptions caught in
  `executeAsyncWrite` (`:492-498`) `MarkFails` models the one there is a cause for, a
  request that the container has recycled after a resume: before the end of any other
  request the closing thread waits for the writer's monitor.
* `DelayedBroadcast` leaves out `Callable` messages and puts all tokens of a push
  as one step; what happens to a token is in `DefaultBroadcaster`.
* `BlockingIOCometSupport` leaves out `cancelled()`, which only the
  closedDetector calls with this support.
* Tomcat's event queue: `AsynchronousProcessor` lets the container report the
  end of a response at any time, in either way and repeatedly, which covers
  every mapping of events.
* User administration: validation other than the unique username, and the login
  pages. The seeded rows are the initial state.
* The push client's branches for Internet Explorer, Opera and web sockets,
  `response.push` with options of its own, `removeCallback` and the `unload` handler,
  none of which the page's browsers reach or its code calls; what `render` draws
  (lines, grid, labels), and `removeTimeSeries`, which no page calls.
* The vendored JavaScript. It is by far the largest part of the repository's
  JavaScript (copies of Prototype, script.aculo.us and Rico in six projects,
  jQuery, jQuery UI, ExplorerCanvas), third-party code that the pages load or, for
  the most part, do not even load; only its use by the modelled code matters.
* The parts of 1.8 are sequential, not used by the applications, or planned
  (see 2).
