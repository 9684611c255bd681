----------------------- MODULE AsynchronousProcessor -----------------------
(***************************************************************************)
(* The requests behind a push channel: AsynchronousProcessor suspends each *)
(* request of a subscriber on the channel of DefaultBroadcaster, and ends  *)
(* it when the container reports that the client is gone or that the       *)
(* suspension expired.  The closedDetector, which only runs where the      *)
(* application sets maxInactive, is off.  Together with the channel this   *)
(* is the whole push runtime of the monitor pages; the service is          *)
(* AtmNService.                                                            *)
(***************************************************************************)
EXTENDS DefaultBroadcaster

CONSTANT Closer   \* the container's threads that report ends at one time

ASSUME CloserAssumption == Nil \notin Closer

VARIABLES
  closerPc,       \* what each closing thread is doing,
  closes,         \* to which response,
  closerKind      \* in cancelled() or in timedout()

closeVars == <<closerPc, closes, closerKind>>
vars == <<chanVars, closeVars>>

Kind == {"cancelled", "timedout"}

Init ==
  /\ ChanInit
  /\ closerPc = [c \in Closer |-> "idle"]
  /\ closes = [c \in Closer |-> Nil]
  /\ closerKind = [c \in Closer |-> "cancelled"]

---------------------------------------------------------------------------
(* The request thread: action(req, res) with AtmNService.onRequest.        *)

\* onRequest suspends the response: first its action becomes SUSPEND ...
Suspend(r) ==
  /\ request[r] = "new"
  /\ request' = [request EXCEPT ![r] = "suspending"]
  /\ action' = [action EXCEPT ![r] = "SUSPEND"]
  /\ UNCHANGED <<queueVars, poolVars, isCancelled, isResumedOnTimeout, message,
                 isInScope, maxInactive, outVars, registryVars, closeVars>>

\* ... then it joins the broadcaster, from where on it is written to.
Subscribe(r) ==
  /\ request[r] = "suspending"
  /\ request' = [request EXCEPT ![r] = "added"]
  /\ AddAtmosphereResource(r)
  /\ UNCHANGED <<broadcasts, messages, pushed, toAll, asyncWriteQueue, poolVars,
                 action, isCancelled, isResumedOnTimeout, message, isInScope,
                 maxInactive, outVars, aliveRequests, closeVars>>

\* Back from onRequest: is the response still suspended?
CheckSuspended(r) ==
  /\ request[r] = "added"
  /\ request' = [request EXCEPT ![r] = IF action[r] = "SUSPEND" THEN "alive" ELSE "done"]
  /\ UNCHANGED <<queueVars, poolVars, action, isCancelled, isResumedOnTimeout,
                 message, isInScope, maxInactive, outVars, registryVars, closeVars>>

\* If it was, MAX_INACTIVE is set and the request is listed as alive.
PutAlive(r) ==
  /\ request[r] = "alive"
  /\ request' = [request EXCEPT ![r] = "done"]
  /\ maxInactive' = [maxInactive EXCEPT ![r] = "live"]
  /\ aliveRequests' = aliveRequests \cup {r}
  /\ UNCHANGED <<queueVars, poolVars, action, isCancelled, isResumedOnTimeout,
                 message, isInScope, outVars, resources, closeVars>>

Request(r) == Suspend(r) \/ Subscribe(r) \/ CheckSuspended(r) \/ PutAlive(r)

---------------------------------------------------------------------------
(* The closing threads: cancelled(req, res) and timedout(req, res).        *)

\* A step of a closing thread; one that is done has no response any more.
CloserGoto(c, step) ==
  /\ closerPc' = [closerPc EXCEPT ![c] = step]
  /\ closes' = IF step = "idle" THEN [closes EXCEPT ![c] = Nil] ELSE closes
  /\ closerKind' = IF step = "idle" THEN [closerKind EXCEPT ![c] = "cancelled"]
                                    ELSE closerKind

\* The first lines of both: a request whose MAX_INACTIVE is -1 is left alone.
\* The container reports on requests whose service() call is over; it may
\* report on one more than once.
Guard(c, r, kind) ==
  /\ closerPc[c] = "idle"
  /\ request[r] = "done"
  /\ maxInactive[r] = "live"
  /\ closerPc' = [closerPc EXCEPT ![c] = "guarded"]
  /\ closes' = [closes EXCEPT ![c] = r]
  /\ closerKind' = [closerKind EXCEPT ![c] = kind]
  /\ UNCHANGED chanVars

\* setAttribute(MAX_INACTIVE, -1)
MarkClosed(c) ==
  /\ closerPc[c] = "guarded"
  /\ maxInactive' = [maxInactive EXCEPT ![closes[c]] = "closed"]
  /\ CloserGoto(c, "flag")
  /\ UNCHANGED <<queueVars, poolVars, request, action, isCancelled,
                 isResumedOnTimeout, message, isInScope, outVars, registryVars>>

\* setCancelled(true), or setIsResumedOnTimeout(true).  That timedout() takes
\* the latter back for a resumed response has no effect: its action is RESUME.
Flag(c) ==
  /\ closerPc[c] = "flag"
  /\ \/ /\ closerKind[c] = "cancelled"
        /\ isCancelled' = [isCancelled EXCEPT ![closes[c]] = TRUE]
        /\ UNCHANGED isResumedOnTimeout
     \/ /\ closerKind[c] = "timedout"
        /\ isResumedOnTimeout' = [isResumedOnTimeout EXCEPT ![closes[c]] = TRUE]
        /\ UNCHANGED isCancelled
  /\ CloserGoto(c, "invoke")
  /\ UNCHANGED <<queueVars, poolVars, request, action, message, isInScope,
                 maxInactive, outVars, registryVars>>

\* getRequest() throws on a response another closer took out of scope:
\* cancelled() goes on to its finally block, timedout() is left.
InvokeOutOfScope(c) ==
  /\ closerPc[c] = "invoke"
  /\ ~isInScope[closes[c]]
  /\ CloserGoto(c, IF closerKind[c] = "cancelled" THEN "last" ELSE "idle")
  /\ UNCHANGED chanVars

\* invokeAtmosphereHandler: onStateChange returns without writing, because
\* the response is ending or no message was ever set.  message is a plain
\* field that a writer sets inside the monitor, so this thread, outside it,
\* may also read null when it no longer is.
InvokeSkips(c) ==
  /\ closerPc[c] = "invoke"
  /\ isInScope[closes[c]]
  /\ CloserGoto(c, "destroy")
  /\ UNCHANGED chanVars

\* Mutant: without the finally block a failing write ends the closing.
InvokeWritesNoFinally(c) ==
  /\ closerPc[c] = "invoke"
  /\ isInScope[closes[c]]
  /\ ~Ignores(closes[c])
  /\ \E step \in {"destroy", "idle"} : CloserGoto(c, step)
  /\ UNCHANGED chanVars

\* ... or it writes the message the event still holds, once more, outside
\* the monitor.  A RuntimeException of the write leaves invokeAtmosphereHandler
\* through its finally block.
InvokeWrites(c) ==
  /\ closerPc[c] = "invoke"
  /\ isInScope[closes[c]]
  /\ ~Ignores(closes[c])
  /\ \E step \in {"destroy", "destroyThrown"} : CloserGoto(c, step)
  /\ UNCHANGED chanVars

\* Mutant: aliveRequests.remove is forgotten.
DestroyKeepsAlive(c) ==
  /\ closerPc[c] \in {"destroy", "destroyThrown"}
  /\ resources' = resources \ {closes[c]}
  /\ CloserGoto(c, IF closerPc[c] = "destroy" THEN "all" ELSE "allThrown")
  /\ UNCHANGED <<queueVars, poolVars, eventVars, outVars, aliveRequests>>

\* finally: aliveRequests.remove, and destroyResource's removal from the
\* response's own broadcaster
Destroy(c) ==
  /\ closerPc[c] \in {"destroy", "destroyThrown"}
  /\ aliveRequests' = aliveRequests \ {closes[c]}
  /\ resources' = resources \ {closes[c]}
  /\ CloserGoto(c, IF closerPc[c] = "destroy" THEN "all" ELSE "allThrown")
  /\ UNCHANGED <<queueVars, poolVars, eventVars, outVars>>

\* Mutant: removeAllAtmosphereResource is not synchronized on the response.
RemoveAllUnlocked(c) ==
  /\ closerPc[c] \in {"all", "allThrown"}
  /\ resources' = resources \ {closes[c]}
  /\ CloserGoto(c, IF closerKind[c] = "timedout" THEN "idle"
                   ELSE IF closerPc[c] = "all" THEN "scope" ELSE "last")
  /\ UNCHANGED <<queueVars, poolVars, eventVars, outVars, aliveRequests>>

\* removeAllAtmosphereResource waits for the monitor of the response.  Then
\* timedout() ends; cancelled() goes on to setIsInScope(false), unless the
\* handler threw.
RemoveAll(c) ==
  /\ closerPc[c] \in {"all", "allThrown"}
  /\ monitor[closes[c]] = Nil
  /\ resources' = resources \ {closes[c]}
  /\ CloserGoto(c, IF closerKind[c] = "timedout" THEN "idle"
                   ELSE IF closerPc[c] = "all" THEN "scope" ELSE "last")
  /\ UNCHANGED <<queueVars, poolVars, eventVars, outVars, aliveRequests>>

\* setIsInScope(false)
LeaveScope(c) ==
  /\ closerPc[c] = "scope"
  /\ isInScope' = [isInScope EXCEPT ![closes[c]] = FALSE]
  /\ CloserGoto(c, "last")
  /\ UNCHANGED <<queueVars, poolVars, request, action, isCancelled,
                 isResumedOnTimeout, message, maxInactive, outVars, registryVars>>

\* The finally block of cancelled() removes it all a second time.
DestroyAgain(c) ==
  /\ closerPc[c] = "last"
  /\ monitor[closes[c]] = Nil
  /\ aliveRequests' = aliveRequests \ {closes[c]}
  /\ resources' = resources \ {closes[c]}
  /\ CloserGoto(c, "idle")
  /\ UNCHANGED <<queueVars, poolVars, eventVars, outVars>>

Closing(c) ==
  \/ MarkClosed(c)
  \/ Flag(c)
  \/ InvokeOutOfScope(c)
  \/ InvokeSkips(c)
  \/ InvokeWrites(c)
  \/ Destroy(c)
  \/ RemoveAll(c)
  \/ LeaveScope(c)
  \/ DestroyAgain(c)

---------------------------------------------------------------------------
Next ==
  \/ Channel /\ UNCHANGED closeVars
  \/ \E r \in Resource : Request(r)
  \/ \E c \in Closer, r \in Resource, kind \in Kind : Guard(c, r, kind)
  \/ \E c \in Closer : Closing(c)

Spec == Init /\ [][Next]_vars

\* Every executor thread keeps running and every write returns: the notifier,
\* the pool's threads, the request threads and whoever has begun to close a
\* response.  Nobody is obliged to broadcast, to subscribe or to disconnect.
Fairness ==
  /\ WF_vars(Notifier /\ UNCHANGED closeVars)
  /\ \A w \in Worker : WF_vars(Pool(w) /\ UNCHANGED closeVars)
  /\ \A r \in Resource : WF_vars(Request(r) /\ request[r] # "new")
  /\ \A c \in Closer : WF_vars(Closing(c))

FairSpec == Spec /\ Fairness

---------------------------------------------------------------------------
(* Properties.                                                             *)

Entry == [id : Message, to : Target \cup {All}]
Token == [r : Resource, id : 0 .. MaxBroadcast]
CloserPC == {"idle", "guarded", "flag", "invoke", "destroy", "destroyThrown",
             "all", "allThrown", "scope", "last"}

QueueTypeOK ==
  /\ broadcasts \in 0 .. MaxBroadcast
  /\ messages \in Seq(Entry)
  /\ pushed \in 0 .. MaxBroadcast
  /\ iterator \in SUBSET Resource
  /\ toAll \in BOOLEAN
  /\ asyncWriteQueue \in Seq(Token)

\* A thread at work has a response.
PoolTypeOK ==
  /\ started \in BOOLEAN
  /\ pc \in [Worker -> PC]
  /\ tokenResource \in [Worker -> Resource \cup {Nil}]
  /\ tokenMsg \in [Worker -> 0 .. MaxBroadcast]
  /\ \A w \in Worker : pc[w] \notin {"idle", "take"} => tokenResource[w] \in Resource
  /\ monitor \in [Resource -> Worker \cup {Nil}]

EventTypeOK ==
  /\ request \in [Resource -> {"new", "suspending", "added", "alive", "done"}]
  /\ action \in [Resource -> {"CREATED", "SUSPEND", "RESUME"}]
  /\ isCancelled \in [Resource -> BOOLEAN]
  /\ isResumedOnTimeout \in [Resource -> BOOLEAN]
  /\ message \in [Resource -> 0 .. MaxBroadcast]
  /\ isInScope \in [Resource -> BOOLEAN]
  /\ maxInactive \in [Resource -> {"unset", "live", "closed"}]

OutTypeOK ==
  /\ resources \in SUBSET Resource
  /\ aliveRequests \in SUBSET Resource
  /\ done \in SUBSET (0 .. MaxBroadcast)
  /\ wire \in [Resource -> Seq(0 .. MaxBroadcast)]
  /\ late \in [Resource -> Nat]

CloserTypeOK ==
  /\ closerPc \in [Closer -> CloserPC]
  /\ closes \in [Closer -> Resource \cup {Nil}]
  /\ closerKind \in [Closer -> Kind]
  /\ \A c \in Closer : closerPc[c] # "idle" => closes[c] \in Resource

\* The types of the runtime's state.
TypeOK == QueueTypeOK /\ PoolTypeOK /\ EventTypeOK /\ OutTypeOK /\ CloserTypeOK

\* From the first broadcast on, exactly one pool thread is taking tokens or
\* waiting to enter a monitor with one: the lead is never lost, which would
\* silence the channel, and never doubled, which would reorder it.
OneLeader ==
  /\ started => \E w \in Worker : pc[w] \in Leading
  /\ \A v, w \in Worker :
        pc[v] \in Leading /\ pc[w] \in Leading => v = w

\* Two broadcasts never write to one response at the same time: whoever is
\* between taking a token and future.done() is the owner of the monitor.
WriterOwnsMonitor ==
  \A w \in Worker : pc[w] \in Inside => monitor[tokenResource[w]] = w

\* The request and response of a resource stay usable for a whole broadcast:
\* setIsInScope(false), done by a closing thread that holds no lock, cannot
\* come while a writer that found the resource not cancelled is under way.
InScopeWhileWriting ==
  \A w \in Worker : pc[w] \in {"touch", "mark", "write", "finish"} =>
                       isInScope[tokenResource[w]]

\* A response that was taken out of scope is not registered any more, neither
\* with the broadcaster nor as an alive request, and will not be again.
OutOfScopeIsForgotten ==
  \A r \in Resource : ~isInScope[r] =>
                          r \notin resources \cup aliveRequests

\* However many broadcasts are queued for it, a cancelled response is written
\* to by at most one of them: the one under way when it was cancelled.
OneLateWrite == \A r \in Resource : late[r] <= 1

\* Messages reach each response in the order they were broadcast, at most
\* once, until it is cancelled: the channel implements the abstract feed.
Feed == INSTANCE OrderedFeed WITH Subscriber <- Resource,
                                  published <- broadcasts, feed <- wire
OrderedDelivery == Feed!Spec

\* The response has ended, or is about to: nothing more is owed to it.
Ended(r) ==
  isCancelled[r] \/ isResumedOnTimeout[r] \/ action[r] = "RESUME"

\* A message broadcast to all arrives at each response registered when it was
\* offered, unless the response ends: no token is lost on the way through the
\* two queues, the hand-overs of the lead and the monitors.
EveryMessageArrives ==
  \A r \in Resource, m \in Message :
    (/\ r \in resources
     /\ \E i \in DOMAIN messages : messages[i] = [id |-> m, to |-> All])
      ~> (m \in {wire[r][i] : i \in DOMAIN wire[r]} \/ Ended(r))

\* A response that is cancelled leaves the broadcaster and the table of alive
\* requests for good, whatever was in flight when the client went away.
CancelledLeaves ==
  \A r \in Resource :
    isCancelled[r] ~> [](r \notin resources \cup aliveRequests)

\* Broadcaster.java: waiting on the future guarantees that the broadcast has
\* been executed, so no response still waits for a message whose future is done.
FutureMeansWritten ==
  \A m \in done :
    /\ pushed = m => iterator = {}
    /\ \A i \in DOMAIN asyncWriteQueue : asyncWriteQueue[i].id # m
    /\ \A w \in Worker : tokenMsg[w] = m => pc[w] = "finish"

\* The same promise for the caller that waits: future.get() returns.
FutureReturns == \A m \in Message : broadcasts >= m ~> m \in done
===========================================================================
