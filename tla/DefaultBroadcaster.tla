------------------------ MODULE DefaultBroadcaster ------------------------
(***************************************************************************)
(* One push channel of the monitor: an org.atmosphere DefaultBroadcaster   *)
(* with the responses suspended on it.  Callers offer messages; the single *)
(* notifier thread turns each message into one write token per response;   *)
(* the threads of a cached pool take the tokens in a leader/follower       *)
(* pattern and call the service's onStateChange under the response's       *)
(* monitor.  A write that fails starts a task on the same pool that        *)
(* resumes the response.                                                   *)
(*                                                                         *)
(* A message is the number of its broadcast; 0 is null.  No filter, no     *)
(* broadcaster cache and no life cycle policy are configured by the        *)
(* application, so filter(), translate() and trackBroadcastMessage() do    *)
(* nothing here.                                                           *)
(***************************************************************************)
EXTENDS Integers, Sequences

CONSTANTS
  Resource,      \* the AtmosphereResources: one per suspended response
  Worker,        \* threads of the asyncWriteService pool
  Target,        \* the subsets that broadcast(msg, subset) is called with
  All,           \* broadcast(msg): whoever is suspended when it is pushed
  Nil,
  MaxBroadcast   \* bound on the number of broadcasts

ASSUME ChannelAssumption ==
  /\ Nil \notin Resource \cup Worker
  /\ Target \subseteq SUBSET Resource
  /\ All \notin Target
  /\ MaxBroadcast \in Nat

VARIABLES
  broadcasts,       \* number of messages offered so far
  messages,         \* BlockingQueue<Entry>
  pushed,           \* the notifier's current entry: its message,
  iterator,         \* the responses it still has to come to,
  toAll,            \* and whether it iterates over resources
  asyncWriteQueue,  \* BlockingQueue<AsyncWriteToken>
  resources,        \* the responses registered with the broadcaster
  started,          \* start() has submitted the notifier and the first leader
  pc,               \* what each pool thread is doing,
  tokenResource,    \* for which response,
  tokenMsg,         \* and with which message
  monitor,          \* who is inside synchronized(resource)
  request,          \* how far the request thread of a response is
  action,           \* AtmosphereResourceImpl.action.type
  isCancelled,          \* flags of its AtmosphereResourceEventImpl
  isResumedOnTimeout,
  message,          \* the event's message
  isInScope,
  maxInactive,      \* the request's MAX_INACTIVE attribute
  aliveRequests,    \* AsynchronousProcessor.aliveRequests
  done,             \* the messages whose BroadcasterFuture latch is open
  wire,             \* what was written to a response while it was connected
  late              \* how many broadcasts wrote to it after it was cancelled

queueVars == <<broadcasts, messages, pushed, iterator, toAll, asyncWriteQueue>>
poolVars == <<started, pc, tokenResource, tokenMsg, monitor>>
eventVars == <<request, action, isCancelled, isResumedOnTimeout, message,
               isInScope, maxInactive>>
outVars == <<done, wire, late>>
registryVars == <<resources, aliveRequests>>
chanVars == <<queueVars, poolVars, eventVars, outVars, registryVars>>

Message == 1 .. MaxBroadcast

ChanInit ==
  /\ broadcasts = 0
  /\ messages = << >>
  /\ pushed = 0 /\ iterator = {} /\ toAll = FALSE
  /\ asyncWriteQueue = << >>
  /\ resources = {}
  /\ started = FALSE
  /\ pc = [w \in Worker |-> "idle"]
  /\ tokenResource = [w \in Worker |-> Nil]
  /\ tokenMsg = [w \in Worker |-> 0]
  /\ monitor = [r \in Resource |-> Nil]
  /\ request = [r \in Resource |-> "new"]
  /\ action = [r \in Resource |-> "CREATED"]
  /\ isCancelled = [r \in Resource |-> FALSE]
  /\ isResumedOnTimeout = [r \in Resource |-> FALSE]
  /\ message = [r \in Resource |-> 0]
  /\ isInScope = [r \in Resource |-> TRUE]
  /\ maxInactive = [r \in Resource |-> "unset"]
  /\ aliveRequests = {}
  /\ done = {}
  /\ wire = [r \in Resource |-> << >>]
  /\ late = [r \in Resource |-> 0]

---------------------------------------------------------------------------
(* Callers and the notifier thread.                                        *)

\* broadcast(msg), broadcast(msg, r) and broadcast(msg, subset): start() on
\* the first call, which submits the first leader to the pool, then the
\* entry is offered to the notifier.
Broadcast(to) ==
  /\ broadcasts < MaxBroadcast
  /\ broadcasts' = broadcasts + 1
  /\ messages' = Append(messages, [id |-> broadcasts + 1, to |-> to])
  /\ \/ started /\ UNCHANGED <<started, pc>>
     \/ /\ ~started
        /\ started' = TRUE
        /\ \E w \in Worker : pc[w] = "idle" /\ pc' = [pc EXCEPT ![w] = "take"]
  /\ UNCHANGED <<pushed, iterator, toAll, asyncWriteQueue, tokenResource,
                 tokenMsg, monitor, eventVars, outVars, registryVars>>

\* The notifier has finished the entry it was pushing and takes the next.
NotifierTakes ==
  /\ iterator = {}
  /\ messages # << >>
  /\ messages' = Tail(messages)
  /\ pushed' = Head(messages).id

\* push() with nobody suspended: the future is done and the message is gone.
PushToNobody ==
  /\ NotifierTakes
  /\ resources = {}
  /\ done' = done \cup {Head(messages).id}
  /\ toAll' = FALSE
  /\ UNCHANGED <<broadcasts, iterator, asyncWriteQueue, poolVars, eventVars,
                 wire, late, registryVars>>

\* push() otherwise: start iterating over the registered responses, or over
\* the caller's subset, whose members need not be registered.
PushEntry ==
  /\ NotifierTakes
  /\ resources # {}
  /\ toAll' = (Head(messages).to = All)
  /\ iterator' = IF Head(messages).to = All THEN resources ELSE Head(messages).to
  /\ UNCHANGED <<broadcasts, asyncWriteQueue, poolVars, eventVars, outVars,
                 registryVars>>

\* asyncWriteQueue.put for the response the iterator is at.  The order among
\* different responses is left open: no response can observe it.
PutToken(r) ==
  /\ r \in iterator
  /\ iterator' = iterator \ {r}
  /\ asyncWriteQueue' = Append(asyncWriteQueue, [r |-> r, id |-> pushed])
  /\ UNCHANGED <<broadcasts, messages, pushed, toAll>>

\* perRequestFilter finds the response in scope.  isInScope is a plain field
\* that another thread writes, so the notifier may also see its old value.
PushOne(r) ==
  /\ PutToken(r)
  /\ UNCHANGED <<poolVars, eventVars, outVars, registryVars>>

\* perRequestFilter finds it out of scope: it is removed from this and every
\* other broadcaster (removeAllAtmosphereResource waits for its monitor), and
\* the token is queued all the same.
PushOutOfScope(r) ==
  /\ ~isInScope[r]
  /\ monitor[r] = Nil
  /\ PutToken(r)
  /\ resources' = resources \ {r}
  /\ UNCHANGED <<poolVars, eventVars, outVars, aliveRequests>>

\* The weakly consistent iterator skips a response removed meanwhile.
PushSkips(r) ==
  /\ toAll
  /\ r \in iterator
  /\ r \notin resources
  /\ iterator' = iterator \ {r}
  /\ UNCHANGED <<broadcasts, messages, pushed, toAll, asyncWriteQueue, poolVars,
                 eventVars, outVars, registryVars>>

Notifier ==
  \/ PushToNobody
  \/ PushEntry
  \/ \E r \in Resource : PushOne(r) \/ PushOutOfScope(r) \/ PushSkips(r)

---------------------------------------------------------------------------
(* The pool: one leader takes tokens, the others write or resume.          *)

Leading == {"take", "enter"}
Inside  == {"check", "touch", "mark", "write", "finish"}
Resuming == {"resume", "resuming", "leave"}
PC == {"idle"} \cup Leading \cup Inside \cup Resuming

\* A step of a thread; one that ends its task has no token any more.
Goto(w, step) ==
  /\ pc' = [pc EXCEPT ![w] = step]
  /\ tokenResource' = IF step = "idle" THEN [tokenResource EXCEPT ![w] = Nil]
                                       ELSE tokenResource
  /\ tokenMsg' = IF step = "idle" THEN [tokenMsg EXCEPT ![w] = 0] ELSE tokenMsg
  /\ UNCHANGED started

\* asyncWriteQueue.take() by the leader.
Take(w) ==
  /\ pc[w] = "take"
  /\ asyncWriteQueue # << >>
  /\ asyncWriteQueue' = Tail(asyncWriteQueue)
  /\ pc' = [pc EXCEPT ![w] = "enter"]
  /\ tokenResource' = [tokenResource EXCEPT ![w] = Head(asyncWriteQueue).r]
  /\ tokenMsg' = [tokenMsg EXCEPT ![w] = Head(asyncWriteQueue).id]
  /\ UNCHANGED <<broadcasts, messages, pushed, iterator, toAll, started, monitor,
                 eventVars, outVars, registryVars>>

\* Mutant: the leader keeps the lead and writes.
EnterAlone(w, follower) ==
  /\ pc[w] = "enter"
  /\ monitor[tokenResource[w]] = Nil
  /\ pc[follower] = "idle"
  /\ monitor' = [monitor EXCEPT ![tokenResource[w]] = w]
  /\ pc' = [pc EXCEPT ![w] = "check"]
  /\ UNCHANGED <<queueVars, started, tokenResource, tokenMsg, eventVars, outVars,
                 registryVars>>

\* Mutant: without synchronized(resource).
EnterUnlocked(w, follower) ==
  /\ pc[w] = "enter"
  /\ pc[follower] = "idle"
  /\ monitor' = [monitor EXCEPT ![tokenResource[w]] = w]
  /\ pc' = [pc EXCEPT ![w] = "check", ![follower] = "take"]
  /\ UNCHANGED <<queueVars, started, tokenResource, tokenMsg, eventVars, outVars,
                 registryVars>>

\* The leader enters the monitor of its token's response, and only then hands
\* the lead over by submitting the handler again: until it gets in, nobody
\* takes the next token.
Enter(w, follower) ==
  /\ pc[w] = "enter"
  /\ monitor[tokenResource[w]] = Nil
  /\ pc[follower] = "idle"
  /\ monitor' = [monitor EXCEPT ![tokenResource[w]] = w]
  /\ pc' = [pc EXCEPT ![w] = "check", ![follower] = "take"]
  /\ UNCHANGED <<queueVars, started, tokenResource, tokenMsg, eventVars, outVars,
                 registryVars>>

\* Leave the monitor and end the task.
Exit(w) ==
  /\ Goto(w, "idle")
  /\ monitor' = [monitor EXCEPT ![tokenResource[w]] = Nil]

\* executeAsyncWrite on a cancelled response drops the token; the future is
\* not told.
DropToken(w) ==
  /\ pc[w] = "check"
  /\ isCancelled[tokenResource[w]]
  /\ Exit(w)
  /\ UNCHANGED <<queueVars, eventVars, outVars, registryVars>>

\* Mutant: a cancelled response is written to like any other.
SetMessageAlways(w) ==
  /\ pc[w] = "check"
  /\ message' = [message EXCEPT ![tokenResource[w]] = tokenMsg[w]]
  /\ Goto(w, "write")
  /\ UNCHANGED <<queueVars, monitor, request, action, isCancelled,
                 isResumedOnTimeout, isInScope, maxInactive, outVars, registryVars>>

\* ... and on any other one puts the message into its event.
SetMessage(w) ==
  /\ pc[w] = "check"
  /\ ~isCancelled[tokenResource[w]]
  /\ message' = [message EXCEPT ![tokenResource[w]] = tokenMsg[w]]
  /\ Goto(w, "touch")
  /\ UNCHANGED <<queueVars, monitor, request, action, isCancelled,
                 isResumedOnTimeout, isInScope, maxInactive, outVars, registryVars>>

\* The second isCancelled test decides whether MAX_INACTIVE is refreshed.
Touch(w) ==
  /\ pc[w] = "touch"
  /\ Goto(w, IF isCancelled[tokenResource[w]] THEN "write" ELSE "mark")
  /\ UNCHANGED <<queueVars, monitor, eventVars, outVars, registryVars>>

\* setAttribute(MAX_INACTIVE, now), whatever the attribute holds by now.
Mark(w) ==
  /\ pc[w] = "mark"
  /\ maxInactive' = [maxInactive EXCEPT ![tokenResource[w]] = "live"]
  /\ Goto(w, "write")
  /\ UNCHANGED <<queueVars, monitor, request, action, isCancelled,
                 isResumedOnTimeout, message, isInScope, outVars, registryVars>>

\* The same on a request the container has recycled, which it may once the
\* response is resumed and gone from aliveRequests: the exception removes the
\* response and ends the task.
MarkFails(w) ==
  /\ pc[w] = "mark"
  /\ action[tokenResource[w]] = "RESUME"
  /\ tokenResource[w] \notin aliveRequests
  /\ resources' = resources \ {tokenResource[w]}
  /\ Exit(w)
  /\ UNCHANGED <<queueVars, eventVars, outVars, aliveRequests>>

\* AtmNService.onStateChange returns without writing.
Ignores(r) ==
  \/ message[r] = 0
  \/ action[r] = "RESUME"
  \/ isResumedOnTimeout[r]

HandlerSkips(w) ==
  /\ pc[w] = "write"
  /\ Ignores(tokenResource[w])
  /\ Goto(w, "finish")
  /\ UNCHANGED <<queueVars, monitor, eventVars, outVars, registryVars>>

\* AtmNService.onStateChange writes the event's message and flushes.
HandlerWrites(w) ==
  /\ pc[w] = "write"
  /\ ~Ignores(tokenResource[w])
  /\ \/ /\ ~isCancelled[tokenResource[w]]
        /\ wire' = [wire EXCEPT ![tokenResource[w]] =
                                   Append(@, message[tokenResource[w]])]
        /\ UNCHANGED late
     \/ /\ isCancelled[tokenResource[w]]
        /\ late' = [late EXCEPT ![tokenResource[w]] = @ + 1]
        /\ UNCHANGED wire
  /\ Goto(w, "finish")
  /\ UNCHANGED <<queueVars, monitor, eventVars, done, registryVars>>

\* Mutant: the task that resumes the response does not get it.
HandlerFailsWithoutResource(w, helper) ==
  /\ pc[w] = "write"
  /\ ~Ignores(tokenResource[w])
  /\ pc[helper] = "idle"
  /\ pc' = [pc EXCEPT ![w] = "finish", ![helper] = "resume"]
  /\ UNCHANGED <<queueVars, started, tokenResource, tokenMsg, monitor, eventVars,
                 outVars, registryVars>>

\* The write throws: broadcast(r, e) catches it and onException executes a
\* task on the pool that resumes the response; the writer carries on.
HandlerFails(w, helper) ==
  /\ pc[w] = "write"
  /\ ~Ignores(tokenResource[w])
  /\ pc[helper] = "idle"
  /\ pc' = [pc EXCEPT ![w] = "finish", ![helper] = "resume"]
  /\ tokenResource' = [tokenResource EXCEPT ![helper] = tokenResource[w]]
  /\ UNCHANGED <<queueVars, started, tokenMsg, monitor, eventVars, outVars,
                 registryVars>>

\* Mutant: the writer does not leave the monitor.
FinishLocked(w) ==
  /\ pc[w] = "finish"
  /\ done' = done \cup {tokenMsg[w]}
  /\ Goto(w, "idle")
  /\ UNCHANGED <<queueVars, monitor, eventVars, wire, late, registryVars>>

\* notifyListeners(), future.done(), and out of the monitor.
Finish(w) ==
  /\ pc[w] = "finish"
  /\ done' = done \cup {tokenMsg[w]}
  /\ Exit(w)
  /\ UNCHANGED <<queueVars, eventVars, wire, late, registryVars>>

\* AtmosphereResourceImpl.resume(): the guard that makes it happen once.
CanResume(r) == ~isResumedOnTimeout[r] /\ action[r] = "SUSPEND" /\ isInScope[r]

Resume(w) ==
  /\ pc[w] = "resume"
  /\ Goto(w, IF CanResume(tokenResource[w]) THEN "resuming" ELSE "idle")
  /\ UNCHANGED <<queueVars, monitor, eventVars, outVars, registryVars>>

\* ... the action becomes RESUME and the response leaves the broadcaster
ResumeAction(w) ==
  /\ pc[w] = "resuming"
  /\ action' = [action EXCEPT ![tokenResource[w]] = "RESUME"]
  /\ resources' = resources \ {tokenResource[w]}
  /\ Goto(w, "leave")
  /\ UNCHANGED <<queueVars, monitor, request, isCancelled, isResumedOnTimeout,
                 message, isInScope, maxInactive, outVars, aliveRequests>>

\* ... then every broadcaster, under its monitor, and the processor forgets it.
ResumeLeave(w) ==
  /\ pc[w] = "leave"
  /\ monitor[tokenResource[w]] = Nil
  /\ resources' = resources \ {tokenResource[w]}
  /\ aliveRequests' = aliveRequests \ {tokenResource[w]}
  /\ Goto(w, "idle")
  /\ UNCHANGED <<queueVars, monitor, eventVars, outVars>>

Pool(w) ==
  \/ Take(w)
  \/ \E follower \in Worker : Enter(w, follower)
  \/ DropToken(w)
  \/ SetMessage(w)
  \/ Touch(w)
  \/ Mark(w)
  \/ MarkFails(w)
  \/ HandlerSkips(w)
  \/ HandlerWrites(w)
  \/ \E helper \in Worker : HandlerFails(w, helper)
  \/ Finish(w)
  \/ Resume(w)
  \/ ResumeAction(w)
  \/ ResumeLeave(w)

\* addAtmosphereResource(r) on a channel without a limit, which registers the
\* response; an iterator over resources that is still going may see it or not.
\* The default broadcaster cache has nothing to push to it.
AddAtmosphereResource(r) ==
  /\ resources' = resources \cup {r}
  /\ \/ UNCHANGED iterator
     \/ toAll /\ iterator # {} /\ iterator' = iterator \cup {r}

Channel ==
  \/ \E to \in Target \cup {All} : Broadcast(to)
  \/ Notifier
  \/ \E w \in Worker : Pool(w)
===========================================================================
