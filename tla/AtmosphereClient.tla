-------------------------- MODULE AtmosphereClient --------------------------
(***************************************************************************)
(* jQuery.atmosphere, the library with which a page listens to a push      *)
(* channel: jquery.atmosphere.js in a browser that is neither Internet     *)
(* Explorer nor Opera and has no web sockets.                              *)
(*                                                                         *)
(* A page has one thread; every action here is one event that it handles.  *)
(* A request object holds the options of a subscription.  executeRequest   *)
(* makes an XMLHttpRequest for it and, when the response has ended, another *)
(* one for the same object.  Between the events stand the server, which    *)
(* broadcasts, answers, refuses and closes, and the network, which cuts    *)
(* connections and hands over what was written in chunks of its own.       *)
(*                                                                         *)
(* A text is a sequence of pieces: the comment Pad, which the server writes *)
(* when it suspends a response, and the two halves of every message, of    *)
(* which a chunk that ends inside the message's fields has but one.        *)
(***************************************************************************)
EXTENDS Integers, Sequences, SequencesExt, FiniteSets

CONSTANTS
  Transport,     \* the transports that the page asks for
  Splits,        \* whether the network may end a chunk inside a message
  MaxRequest,    \* request.maxRequest, 60 by default
  MaxSubscribe,  \* bounds: the calls of subscribe and of publish that the page
  MaxPublish,    \* makes, and the messages that the server broadcasts
  MaxMessage

ASSUME ClientAssumption ==
  /\ Transport \subseteq {"streaming", "long-polling"}
  /\ Splits \in BOOLEAN
  /\ MaxRequest \in Nat \ {0}
  /\ {MaxSubscribe, MaxPublish, MaxMessage} \subseteq Nat

VARIABLES
  request,          \* the request objects, in the order in which they were made,
  current,          \* and which of them jQuery.atmosphere.request is
  ajax,             \* the XMLHttpRequests, in the order in which they were sent,
  activeRequest,    \* and which of them closeSuspendedConnection would abort
  activeTransport,
  timer,            \* those whose timeout is running
  heard,            \* what the callbacks got
  calls,            \* how often the page has called subscribe and publish
  pushed            \* how many messages were broadcast

clientVars == <<request, current, ajax, activeRequest, activeTransport, timer,
                heard, calls, pushed>>

\* No connection, no request object and no timeout.
None == 0

Pad == 0
Halves(n) == <<2 * n - 1, 2 * n>>
IsHead(piece) == piece % 2 = 1

\* What a callback gets that is no message.
Garbled == 0

Alive == {"sent", "open", "refused"}

\* responseText is the first part of what was written, as far as it was seen.
XMLHttpRequest == [request : Nat, state : Alive \cup {"ended", "rejected", "failed", "cut", "aborted"},
                   written : Seq(Nat), seen : Nat]

Init ==
  /\ request = << >>
  /\ current = None
  /\ ajax = << >>
  /\ activeRequest = None
  /\ activeTransport = "none"
  /\ timer = {}
  /\ heard = << >>
  /\ calls = [subscribe |-> 0, publish |-> 0]
  /\ pushed = 0

\* The options that an XMLHttpRequest was made with.
Options(c) == request[ajax[c].request]
Suspends(c) == Options(c).suspend

\* What a finished connection has received does not matter any more.
Finished(connection, state) ==
  [connection EXCEPT !.state = state, !.written = << >>, !.seen = 0]

---------------------------------------------------------------------------
(* executeRequest and closeSuspendedConnection, which handlers call.  The   *)
(* parameters are what the handler has made of the variables before.       *)

\* Mutant: the timeout is only set for the first request of a subscription.
ExecuteTimedOnce(r, requests, connections, timers) ==
  LET c == Len(connections) + 1
      suspend == requests[r].suspend
  IN  IF requests[r].requestCount < MaxRequest
        THEN /\ ajax' = Append(connections,
                          [request |-> r, state |-> "sent", written |-> << >>, seen |-> 0])
             /\ activeRequest' = IF suspend THEN c ELSE activeRequest
             /\ timer' = IF suspend /\ requests[r].requestCount = 0
                           THEN timers \cup {c} ELSE timers
             /\ request' = [requests EXCEPT ![r].requestCount = @ + 1,
                                            ![r].id = IF suspend THEN c ELSE @]
        ELSE /\ ajax' = connections
             /\ timer' = timers
             /\ request' = [requests EXCEPT ![r].requestCount = @ + 1]
             /\ UNCHANGED activeRequest

\* Mutant: every request has a timeout.
ExecuteAlwaysTimed(r, requests, connections, timers) ==
  LET c == Len(connections) + 1
      suspend == requests[r].suspend
  IN  IF requests[r].requestCount < MaxRequest
        THEN /\ ajax' = Append(connections,
                          [request |-> r, state |-> "sent", written |-> << >>, seen |-> 0])
             /\ activeRequest' = IF suspend THEN c ELSE activeRequest
             /\ timer' = timers \cup {c}
             /\ request' = [requests EXCEPT ![r].requestCount = @ + 1, ![r].id = c]
        ELSE /\ ajax' = connections
             /\ timer' = timers
             /\ request' = [requests EXCEPT ![r].requestCount = @ + 1]
             /\ UNCHANGED activeRequest

\* executeRequest for the object r, unless that was done too often already.
Execute(r, requests, connections, timers) ==
  LET c == Len(connections) + 1
      suspend == requests[r].suspend
  IN  IF requests[r].requestCount < MaxRequest
        THEN /\ ajax' = Append(connections,
                          [request |-> r, state |-> "sent", written |-> << >>, seen |-> 0])
             /\ activeRequest' = IF suspend THEN c ELSE activeRequest
             /\ timer' = IF suspend THEN timers \cup {c} ELSE timers
             /\ request' = [requests EXCEPT ![r].requestCount = @ + 1,
                                            ![r].id = IF suspend THEN c ELSE @]
        ELSE /\ ajax' = connections
             /\ timer' = timers
             /\ request' = [requests EXCEPT ![r].requestCount = @ + 1]
             /\ UNCHANGED activeRequest

\* abort() of a connection that has not finished; no handler does anything
\* about it that is not overwritten at once.
Aborted(c, connections) ==
  IF c # None /\ connections[c].state \in Alive
    THEN [connections EXCEPT ![c] = Finished(@, "aborted")]
    ELSE connections

\* subscribe with a given request object: another transport than that of the
\* last subscription closes the last suspended connection.
SubscribeWith(options, connections, timers) ==
  LET r == Len(request) + 1
  IN  /\ current' = r
      /\ activeTransport' = options.transport
      /\ Execute(r, Append(request, options),
                 IF options.transport # activeTransport
                   THEN Aborted(activeRequest, connections) ELSE connections,
                 timers)

---------------------------------------------------------------------------
(* What the page does.                                                     *)

NewRequest(transport, suspend) ==
  [transport |-> transport, suspend |-> suspend, requestCount |-> 0,
   lastIndex |-> 0, id |-> None]

Subscribe(transport) ==
  /\ calls.subscribe < MaxSubscribe
  /\ calls' = [calls EXCEPT !.subscribe = @ + 1]
  /\ SubscribeWith(NewRequest(transport, TRUE), ajax, timer)
  /\ UNCHANGED <<heard, pushed>>

\* publish(url, null, {data: ...})
Publish ==
  /\ calls.publish < MaxPublish
  /\ calls' = [calls EXCEPT !.publish = @ + 1]
  /\ current' = Len(request) + 1
  /\ Execute(Len(request) + 1, Append(request, NewRequest("polling", FALSE)), ajax, timer)
  /\ UNCHANGED <<activeTransport, heard, pushed>>

---------------------------------------------------------------------------
(* What arrives.                                                           *)

\* Headers with the status 200, after which the server suspends the response;
\* the timeout that was set last for this request object is cleared.
Headers(c) ==
  /\ ajax[c].state = "sent"
  /\ ajax' = [ajax EXCEPT ![c].state = "open",
                          ![c].written = IF Suspends(c) THEN <<Pad>> ELSE << >>]
  /\ timer' = timer \ {Options(c).id}
  /\ UNCHANGED <<request, current, activeRequest, activeTransport, heard, calls, pushed>>

\* Headers with another status.
Refuse(c) ==
  /\ ajax[c].state = "sent"
  /\ ajax' = [ajax EXCEPT ![c].state = "refused"]
  /\ timer' = timer \ {Options(c).id}
  /\ UNCHANGED <<request, current, activeRequest, activeTransport, heard, calls, pushed>>

\* The server writes a message to every suspended response.
Broadcast ==
  /\ pushed < MaxMessage
  /\ pushed' = pushed + 1
  /\ ajax' = [c \in DOMAIN ajax |->
                IF ajax[c].state = "open" /\ Suspends(c)
                  THEN [ajax[c] EXCEPT !.written = @ \o Halves(pushed')] ELSE ajax[c]]
  /\ UNCHANGED <<request, current, activeRequest, activeTransport, timer, heard, calls>>

\* The message in front of a text, which is all of it that is handed on.
FirstMessage(text) ==
  IF Len(text) > 1 /\ IsHead(text[1]) THEN text[2] \div 2 ELSE Garbled

\* The callbacks get what is new in a stream, unless that has the padding in
\* it, and all that there is of any other response, in which the padding does
\* not hide the first message.
Handed(transport, text, lastIndex) ==
  LET body == SubSeq(text, lastIndex + 1, Len(text))
  IN  IF transport = "streaming"
        THEN IF body = << >> \/ Contains(body, Pad) THEN << >> ELSE <<FirstMessage(body)>>
        ELSE <<FirstMessage(IF Head(text) = Pad THEN Tail(text) ELSE text)>>

\* More of what was written arrives.
Arrives(c, seen) ==
  /\ ajax[c].state = "open"
  /\ seen \in ajax[c].seen + 1 .. Len(ajax[c].written)
  /\ Splits \/ ~ IsHead(ajax[c].written[seen])

\* Mutant: lastIndex stays where it is when the padding is skipped.
ChunkUnindexed(c, seen) ==
  /\ Arrives(c, seen)
  /\ LET text == SubSeq(ajax[c].written, 1, seen)
         bodies == Handed(Options(c).transport, text, Options(c).lastIndex)
     IN  /\ heard' = heard \o bodies
         /\ request' = [request EXCEPT ![ajax[c].request].lastIndex =
                          IF Options(c).transport = "streaming" /\ bodies # << >>
                            THEN seen ELSE @]
  /\ ajax' = [ajax EXCEPT ![c].seen = seen]
  /\ UNCHANGED <<current, activeRequest, activeTransport, timer, calls, pushed>>

\* Mutant: lastIndex is set when the padding is skipped, and only then.
ChunkIndexedOnce(c, seen) ==
  /\ Arrives(c, seen)
  /\ LET text == SubSeq(ajax[c].written, 1, seen)
         bodies == Handed(Options(c).transport, text, Options(c).lastIndex)
     IN  /\ heard' = heard \o bodies
         /\ request' = [request EXCEPT ![ajax[c].request].lastIndex =
                          IF Options(c).transport = "streaming" /\ bodies = << >>
                            THEN seen ELSE @]
  /\ ajax' = [ajax EXCEPT ![c].seen = seen]
  /\ UNCHANGED <<current, activeRequest, activeTransport, timer, calls, pushed>>

\* A chunk: readyState 3 with the status 200.
Chunk(c, seen) ==
  /\ Arrives(c, seen)
  /\ heard' = heard \o Handed(Options(c).transport, SubSeq(ajax[c].written, 1, seen),
                              Options(c).lastIndex)
  /\ request' = [request EXCEPT ![ajax[c].request].lastIndex =
                   IF Options(c).transport = "streaming" THEN seen ELSE @]
  /\ ajax' = [ajax EXCEPT ![c].seen = seen]
  /\ UNCHANGED <<current, activeRequest, activeTransport, timer, calls, pushed>>

\* Mutant: jQuery.atmosphere.request is not set back.
EndElsewhere(c) ==
  /\ ajax[c].state \in {"open", "refused"}
  /\ LET connections == [ajax EXCEPT ![c] =
           Finished(@, IF @.state = "open" THEN "ended" ELSE "rejected")]
     IN  IF Suspends(c) /\ ajax[c].state = "open"
           THEN Execute(current, request, connections, timer)
           ELSE ajax' = connections /\ UNCHANGED <<request, activeRequest, timer>>
  /\ UNCHANGED <<current, activeTransport, heard, calls, pushed>>

\* The response ends: readyState 4.  What arrives with its end, and was not seen
\* before, is not handed on.  After the status 200 a suspended request is made
\* once more, whatever jQuery.atmosphere.request has become meanwhile.
End(c) ==
  /\ ajax[c].state \in {"open", "refused"}
  /\ current' = ajax[c].request
  /\ LET connections == [ajax EXCEPT ![c] =
           Finished(@, IF @.state = "open" THEN "ended" ELSE "rejected")]
     IN  IF Suspends(c) /\ ajax[c].state = "open"
           THEN Execute(ajax[c].request, request, connections, timer)
           ELSE ajax' = connections /\ UNCHANGED <<request, activeRequest, timer>>
  /\ UNCHANGED <<activeTransport, heard, calls, pushed>>

\* The network cuts the connection: readyState 4 with the status 0, and then
\* onerror, which forgets the last suspended connection, be it this one or not.
Fail(c) ==
  /\ ajax[c].state \in Alive
  /\ ajax' = [ajax EXCEPT ![c] =
                Finished(@, IF @.state = "sent" THEN "failed" ELSE "cut")]
  /\ current' = ajax[c].request
  /\ activeRequest' = None
  /\ UNCHANGED <<request, activeTransport, timer, heard, calls, pushed>>

\* Mutant: the connection stays open.
TimeoutLeavesOpen(c) ==
  /\ c \in timer
  /\ SubscribeWith(Options(c), ajax, timer \ {c})
  /\ UNCHANGED <<heard, calls, pushed>>

\* Mutant: the new subscription starts to count again.
TimeoutCountsAgain(c) ==
  /\ c \in timer
  /\ SubscribeWith([Options(c) EXCEPT !.requestCount = 0], Aborted(c, ajax), timer \ {c})
  /\ UNCHANGED <<heard, calls, pushed>>

\* Nothing was heard of a request for request.timeout: it is aborted, and the
\* page subscribed again with a copy of its options.
Timeout(c) ==
  /\ c \in timer
  /\ SubscribeWith(Options(c), Aborted(c, ajax), timer \ {c})
  /\ UNCHANGED <<heard, calls, pushed>>

---------------------------------------------------------------------------

Page == Publish \/ \E transport \in Transport : Subscribe(transport)

Response(c) ==
  \/ Headers(c) \/ Refuse(c) \/ End(c) \/ Fail(c) \/ Timeout(c)
  \/ \E seen \in 1 .. 1 + 2 * MaxMessage : Chunk(c, seen)

ClientNext == Page \/ Broadcast \/ \E c \in DOMAIN ajax : Response(c)

\* A page that is open runs its timeouts; nothing else is promised.
MaxAjax == MaxRequest * MaxSubscribe + MaxPublish
ClientFairness == \A c \in 1 .. MaxAjax : WF_clientVars(c \in DOMAIN ajax /\ Timeout(c))

ClientSpec == Init /\ [][ClientNext]_clientVars

---------------------------------------------------------------------------
(* Properties.                                                             *)

Suspended == {c \in DOMAIN ajax : Suspends(c) /\ ajax[c].state \in Alive}

\* The types; a request object is made for every subscription, by the page or
\* by a timeout, and remembers the last timeout that was set for it.
ClientTypeOK ==
  /\ \A r \in DOMAIN request :
       /\ request[r].transport \in Transport \cup {"polling"}
       /\ request[r].requestCount \in 1 .. MaxRequest + 1
       /\ request[r].suspend <=> request[r].transport # "polling"
       /\ request[r].id # None => Suspends(request[r].id)
  /\ ajax \in Seq(XMLHttpRequest)
  /\ timer \subseteq {c \in DOMAIN ajax : Suspends(c)}
  /\ {current, activeRequest} \subseteq Nat
  /\ current \in DOMAIN request \cup {None} /\ activeRequest \in DOMAIN ajax \cup {None}

\* A page that has subscribed once listens on one connection at a time,
\* whatever ends, times out, fails or is published meanwhile.
OneConnection == calls.subscribe = 1 => Cardinality(Suspended) <= 1

\* jquery.atmosphere.js: "Always make sure one transport is used, not two at
\* the same time except for Websocket."
OneTransport == \A c, d \in Suspended : Options(c).transport = Options(d).transport

\* A subscription is given up after maxRequest requests, those that a timeout
\* has replaced included: a server that is down is not asked for ever.
GivesUp ==
  Cardinality({c \in DOMAIN ajax : Suspends(c)}) <= MaxRequest * calls.subscribe

\* A page that has subscribed falls silent for one of three reasons: it has
\* made maxRequest requests, the server has refused one, or the network has
\* cut one after its headers.  Otherwise it has a connection or a timeout.
SilentForAReason ==
  calls.subscribe > 0 /\ Suspended = {} /\ timer = {} =>
    \/ \E r \in DOMAIN request : request[r].requestCount > MaxRequest
    \/ \E c \in DOMAIN ajax : /\ Suspends(c)
                              /\ ajax[c].state \in {"cut", "rejected"}

\* The callbacks of a page that has subscribed once, for a stream, get its
\* messages in order and none twice, however they are cut into chunks and
\* whenever the page reconnects.
HeardInOrder ==
  calls.subscribe <= 1 /\ (\A r \in DOMAIN request : request[r].transport # "long-polling") =>
    \A i, j \in DOMAIN heard :
      i < j /\ Garbled \notin {heard[i], heard[j]} => heard[i] < heard[j]

\* A message that arrives in a chunk of its own gets to the callbacks, unless
\* that is the first chunk of its response.
NothingUnheard ==
  [][\A c \in DOMAIN ajax :
       /\ ajax[c].state = "open" /\ ajax[c].seen > 0 /\ Options(c).transport = "streaming"
       /\ ajax'[c].seen = ajax[c].seen + 2
       /\ IsHead(ajax[c].written[ajax[c].seen + 1])
       => heard' = Append(heard, ajax[c].written[ajax'[c].seen] \div 2)]_clientVars

\* A request whose headers do not come is answered, replaced or given up.
NoRequestHangs ==
  \A c \in 1 .. MaxAjax :
    c \in Suspended /\ ajax[c].state = "sent" ~>
      ~ (c \in Suspended /\ ajax[c].state = "sent")
===========================================================================
