----------------------------- MODULE PageProofs -----------------------------
(***************************************************************************)
(* The monitor page, for any number of requests, messages and ticks.       *)
(*                                                                         *)
(* The types of the push client: a connection that can go on belongs to a  *)
(* request object that may still be asked for (Going), so that no object   *)
(* is counted beyond maxRequest + 1.                                       *)
(*                                                                         *)
(* The order of what the callbacks get: lastIndex of an open stream is how *)
(* far it was seen (Reading), and what has not been seen of any stream is  *)
(* later than all that was heard (Ordered).                                *)
(*                                                                         *)
(* The chart: the bounds of its points (Scale) after every append and after *)
(* every turn of the loop of resetBounds.                                  *)
(***************************************************************************)
EXTENDS ClientProofs, WellFoundedInduction

\* What a request object is made with.
Possible(options) ==
  /\ options.transport \in Transport \cup {"polling"}
  /\ options.suspend <=> options.transport # "polling"

Remembered(requests, connections) ==
  \A r \in 1 .. Len(requests) :
    requests[r].id # None =>
      /\ requests[r].id \in 1 .. Len(connections)
      /\ Asks(requests, connections, requests[r].id)

\* Whatever goes on may be asked for again.
Going(requests, connections, timers) ==
  \A c \in 1 .. Len(connections) :
    GoesOn(requests, connections, timers, c) =>
      requests[connections[c].request].requestCount <= MaxRequest

Typed ==
  /\ \A r \in 1 .. Len(request) :
       Possible(request[r]) /\ request[r].requestCount \in 1 .. MaxRequest + 1
  /\ Remembered(request, ajax)
  /\ Going(request, ajax, timer)
  /\ current \in 0 .. Len(request)

\* Nothing was written on a connection, or what was has been forgotten.
Fresh(connection) ==
  connection.written = << >> /\ connection.seen = 0 /\ connection.state # "open"

\* The padding and then messages in the order of their broadcasts, of which
\* there were n.
Stream(text, n) ==
  /\ text # << >> /\ text[1] = Pad
  /\ \A i \in 1 .. Len(text) : text[i] <= 2 * n
  /\ \A i, j \in 1 .. Len(text) : i < j => text[i] < text[j]

Reading ==
  \A c \in 1 .. Len(ajax) :
    \/ Fresh(ajax[c])
    \/ /\ ajax[c].state = "open" /\ ~ Suspends(c)
       /\ ajax[c].written = << >> /\ ajax[c].seen = 0
    \/ /\ ajax[c].state = "open" /\ Suspends(c)
       /\ Stream(ajax[c].written, pushed)
       /\ Options(c).transport = "streaming" /\ ajax[c].seen > 0
            => Options(c).lastIndex = ajax[c].seen

OneStream ==
  calls.subscribe <= 1 /\ \A r \in 1 .. Len(request) : request[r].transport # "long-polling"

Ordered ==
  OneStream =>
    /\ heard \in Seq(Nat)
    /\ \A i, j \in 1 .. Len(heard) :
         i < j /\ Garbled \notin {heard[i], heard[j]} => heard[i] < heard[j]
    /\ \A i \in 1 .. Len(heard) : heard[i] <= pushed
    /\ \A c \in 1 .. Len(ajax) :
         \A i \in 1 .. Len(heard), k \in 2 .. Len(ajax[c].written) :
           k > ajax[c].seen => 2 * heard[i] < ajax[c].written[k]

ClientInv == IInv /\ Typed /\ Reading /\ Ordered

---------------------------------------------------------------------------
(* What executeRequest and abort do to request objects and connections.    *)

LEMMA ObjectFields ==
  ASSUME NEW requests \in Seq(RequestObject), NEW r \in 1 .. Len(requests)
  PROVE  /\ requests[r] \in RequestObject
         /\ requests[r].transport \in {"streaming", "long-polling", "polling"}
         /\ requests[r].suspend \in BOOLEAN
         /\ requests[r].requestCount \in Nat /\ requests[r].lastIndex \in Nat
         /\ requests[r].id \in Nat
<1>1. requests[r] \in RequestObject
  OBVIOUS
<1> QED BY <1>1 DEF RequestObject

\* What stays as it was in an object that executeRequest counts.
Alike(new, old) ==
  /\ new.transport = old.transport /\ new.suspend = old.suspend
  /\ new.lastIndex = old.lastIndex

\* executeRequest: the object is counted, and a connection for it is added if
\* that was not done too often.
Executed(r, requests, connections, timers) ==
  /\ Len(request') = Len(requests)
  /\ \A q \in 1 .. Len(requests) :
       /\ q # r => request'[q] = requests[q]
       /\ Alike(request'[q], requests[q])
  /\ request'[r].requestCount = requests[r].requestCount + 1
  /\ \A d \in 1 .. Len(connections) : ajax'[d] = connections[d]
  /\ \/ /\ requests[r].requestCount < MaxRequest
        /\ Len(ajax') = Len(connections) + 1
        /\ ajax'[Len(connections) + 1].request = r
        /\ Fresh(ajax'[Len(connections) + 1])
        /\ request'[r].id = IF requests[r].suspend THEN Len(connections) + 1
                                                  ELSE requests[r].id
        /\ timer' = IF requests[r].suspend THEN timers \cup {Len(connections) + 1} ELSE timers
     \/ /\ ~ (requests[r].requestCount < MaxRequest)
        /\ Len(ajax') = Len(connections)
        /\ request'[r].id = requests[r].id
        /\ timer' = timers

LEMMA ExecuteEffect ==
  ASSUME NEW requests \in Seq(RequestObject), NEW connections \in Seq(XMLHttpRequest),
         NEW timers, NEW r \in 1 .. Len(requests),
         Execute(r, requests, connections, timers)
  PROVE  Executed(r, requests, connections, timers)
<1> DEFINE c == Len(connections) + 1
           new == [request |-> r, state |-> "sent", written |-> << >>, seen |-> 0]
<1>1. /\ requests[r] \in RequestObject /\ Len(requests) \in Nat /\ Len(connections) \in Nat
      /\ requests[r].requestCount \in Nat /\ MaxRequest \in Nat
      /\ DOMAIN requests = 1 .. Len(requests)
  BY ObjectFields, ClientAssumption
<1>2. CASE requests[r].requestCount < MaxRequest
  <2> DEFINE id == IF requests[r].suspend THEN c ELSE requests[r].id
             counted == [requests[r] EXCEPT !.requestCount = @ + 1, !.id = id]
  <2>1. /\ ajax' = Append(connections, new)
        /\ timer' = IF requests[r].suspend THEN timers \cup {c} ELSE timers
        /\ request' = [requests EXCEPT ![r].requestCount = @ + 1,
                                       ![r].id = IF requests[r].suspend THEN c ELSE @]
    BY <1>2 DEF Execute
  <2>2. /\ DOMAIN request' = 1 .. Len(requests)
        /\ \A q \in 1 .. Len(requests) : q # r => request'[q] = requests[q]
        /\ request'[r] = counted
    BY <1>1, <2>1
  <2>3. /\ Alike(counted, requests[r]) /\ counted.id = id
        /\ counted.requestCount = requests[r].requestCount + 1
    <3> HIDE DEF id
    <3> QED BY <1>1 DEF Alike, RequestObject
  <2>4. /\ Len(ajax') = c /\ ajax'[c] = new
        /\ \A d \in 1 .. Len(connections) : ajax'[d] = connections[d]
    <3>1. new \in XMLHttpRequest
      BY <1>1 DEF XMLHttpRequest, Alive
    <3> HIDE DEF new
    <3> QED BY <2>1, <3>1, AppendProperties
  <2>5. Len(request') = Len(requests)
    <3>1. request' = [q \in 1 .. Len(requests) |-> request'[q]]
      BY <2>1, <2>2
    <3> QED BY <1>1, <3>1
  <2>6. Fresh(new) /\ new.request = r
    BY DEF Fresh
  <2> HIDE DEF new, counted
  <2>7. \A q \in 1 .. Len(requests) : Alike(request'[q], requests[q])
    <3> TAKE q \in 1 .. Len(requests)
    <3>1. CASE q = r
      BY <2>2, <2>3, <3>1
    <3>2. CASE q # r
      BY <2>2, <3>2 DEF Alike
    <3> QED BY <3>1, <3>2
  <2> QED BY <1>2, <2>1, <2>2, <2>3, <2>4, <2>5, <2>6, <2>7 DEF Executed
<1>3. CASE ~ (requests[r].requestCount < MaxRequest)
  <2> DEFINE counted == [requests[r] EXCEPT !.requestCount = @ + 1]
  <2>1. /\ ajax' = connections /\ timer' = timers
        /\ request' = [requests EXCEPT ![r].requestCount = @ + 1]
    BY <1>3 DEF Execute
  <2>2. /\ DOMAIN request' = 1 .. Len(requests)
        /\ \A q \in 1 .. Len(requests) : q # r => request'[q] = requests[q]
        /\ request'[r] = counted
    BY <1>1, <2>1
  <2>3. /\ Alike(counted, requests[r]) /\ counted.id = requests[r].id
        /\ counted.requestCount = requests[r].requestCount + 1
    BY <1>1 DEF Alike, RequestObject
  <2>5. Len(request') = Len(requests)
    <3>1. request' = [q \in 1 .. Len(requests) |-> request'[q]]
      BY <2>1, <2>2
    <3> QED BY <1>1, <3>1
  <2> HIDE DEF counted
  <2>7. \A q \in 1 .. Len(requests) : Alike(request'[q], requests[q])
    <3> TAKE q \in 1 .. Len(requests)
    <3>1. CASE q = r
      BY <2>2, <2>3, <3>1
    <3>2. CASE q # r
      BY <2>2, <3>2 DEF Alike
    <3> QED BY <3>1, <3>2
  <2> QED BY <1>3, <2>1, <2>2, <2>3, <2>5, <2>7 DEF Executed
<1> QED BY <1>2, <1>3

\* Some connections were closed.
Fewer(closed, connections) ==
  /\ closed \in Seq(XMLHttpRequest) /\ Len(closed) = Len(connections)
  /\ \A d \in 1 .. Len(connections) :
       /\ closed[d].request = connections[d].request
       /\ \/ closed[d] = connections[d]
          \/ closed[d].state \notin Alive /\ Fresh(closed[d])

LEMMA EndedFewer ==
  ASSUME NEW connections \in Seq(XMLHttpRequest), NEW c \in 1 .. Len(connections),
         NEW state \in Closed
  PROVE  /\ Fewer(Ended(connections, c, state), connections)
         /\ Ended(connections, c, state)[c].state \notin Alive
<1> DEFINE new == Finished(connections[c], state)
           closed == Ended(connections, c, state)
<1>1. connections[c] \in XMLHttpRequest
  OBVIOUS
<1>2. /\ new \in XMLHttpRequest /\ new.request = connections[c].request
      /\ new.state = state /\ state \notin Alive
  BY <1>1, FinishedTypes
<1>3. Fresh(new)
  BY <1>1, <1>2 DEF Fresh, Finished, XMLHttpRequest, Alive
<1>4. closed = [connections EXCEPT ![c] = new]
  BY DEF Ended
<1> HIDE DEF new, closed
<1>5. /\ closed \in Seq(XMLHttpRequest) /\ Len(closed) = Len(connections)
      /\ closed[c] = new
      /\ \A d \in 1 .. Len(connections) : d # c => closed[d] = connections[d]
  BY <1>2, <1>4, ExceptSeq
<1>6. Fewer(closed, connections) /\ closed[c].state \notin Alive
  BY <1>2, <1>3, <1>5 DEF Fewer
<1> QED BY <1>6 DEF closed

LEMMA AbortedFewer ==
  ASSUME NEW connections \in Seq(XMLHttpRequest), NEW c \in 0 .. Len(connections)
  PROVE  /\ Fewer(Aborted(c, connections), connections)
         /\ c # 0 => Aborted(c, connections)[c].state \notin Alive
<1>1. CASE c # None /\ connections[c].state \in Alive
  <2>1. c \in 1 .. Len(connections) /\ "aborted" \in Closed
    BY <1>1 DEF None, Closed
  <2>2. Aborted(c, connections) = Ended(connections, c, "aborted")
    BY <1>1 DEF Aborted, Ended
  <2> QED BY <2>1, <2>2, EndedFewer
<1>2. CASE ~ (c # None /\ connections[c].state \in Alive)
  <2>1. Aborted(c, connections) = connections
    BY <1>2 DEF Aborted
  <2> QED BY <1>2, <2>1 DEF Fewer, None
<1> QED BY <1>1, <1>2

\* What executeRequest finds: the object r may still be asked for, and nothing
\* that was made for it goes on.
Ready(r, requests, connections, timers) ==
  /\ requests \in Seq(RequestObject) /\ connections \in Seq(XMLHttpRequest)
  /\ \A c \in 1 .. Len(connections) : connections[c].request \in 1 .. Len(requests)
  /\ timers \subseteq 1 .. Len(connections)
  /\ r \in 1 .. Len(requests) /\ requests[r].requestCount <= MaxRequest
  /\ \A q \in 1 .. Len(requests) :
       Possible(requests[q]) /\ (q # r => requests[q].requestCount \in 1 .. MaxRequest + 1)
  /\ Remembered(requests, connections)
  /\ Going(requests, connections, timers)
  /\ \A c \in 1 .. Len(connections) :
       connections[c].request = r => ~ GoesOn(requests, connections, timers, c)

LEMMA ExecuteTypes ==
  ASSUME NEW requests, NEW connections, NEW timers, NEW r,
         Ready(r, requests, connections, timers),
         Execute(r, requests, connections, timers)
  PROVE  /\ Len(request') = Len(requests)
         /\ \A q \in 1 .. Len(request') :
              Possible(request'[q]) /\ request'[q].requestCount \in 1 .. MaxRequest + 1
         /\ Remembered(request', ajax')
         /\ Going(request', ajax', timer')
<1>1. /\ requests \in Seq(RequestObject) /\ connections \in Seq(XMLHttpRequest)
      /\ r \in 1 .. Len(requests) /\ MaxRequest \in Nat \ {0}
      /\ Len(requests) \in Nat /\ Len(connections) \in Nat
      /\ \A q \in 1 .. Len(requests) :
           requests[q].requestCount \in Nat /\ requests[q].suspend \in BOOLEAN
  BY ObjectFields, ClientAssumption DEF Ready
<1>2. Executed(r, requests, connections, timers)
  BY <1>1, ExecuteEffect
<1>3. /\ Len(request') = Len(requests)
      /\ \A q \in 1 .. Len(request') :
           Possible(request'[q]) /\ request'[q].requestCount \in 1 .. MaxRequest + 1
  BY <1>1, <1>2 DEF Ready, Executed, Alike, Possible
<1> DEFINE c == Len(connections) + 1
<1>4. \A d \in 1 .. Len(connections) :
        /\ ajax'[d] = connections[d] /\ d \in 1 .. Len(ajax')
        /\ ajax'[d].request \in 1 .. Len(requests)
        /\ Asks(request', ajax', d) <=> Asks(requests, connections, d)
        /\ Listens(request', ajax', d) <=> Listens(requests, connections, d)
  BY <1>1, <1>2 DEF Ready, Executed, Alike, Asks, Listens
<1>5. Remembered(request', ajax')
  <2>1. ASSUME NEW q \in 1 .. Len(request'), request'[q].id # None
        PROVE  request'[q].id \in 1 .. Len(ajax') /\ Asks(request', ajax', request'[q].id)
    <3>1. CASE request'[q].id = requests[q].id
      BY <3>1, <2>1, <1>3, <1>4 DEF Ready, Remembered
    <3>2. CASE request'[q].id # requests[q].id
      <4>1. /\ q = r /\ requests[r].suspend /\ request'[q].id = c
            /\ Len(ajax') = c /\ ajax'[c].request = r
        BY <3>2, <1>2, <1>3 DEF Executed
      <4>2. Asks(request', ajax', c)
        BY <4>1, <1>1, <1>2 DEF Asks, Executed, Alike
      <4> QED BY <4>1, <4>2, <1>1
    <3> QED BY <3>1, <3>2
  <2> QED BY <2>1 DEF Remembered
<1>6. Going(request', ajax', timer')
  <2>1. ASSUME NEW d \in 1 .. Len(ajax'), GoesOn(request', ajax', timer', d)
        PROVE  request'[ajax'[d].request].requestCount <= MaxRequest
    <3>1. CASE d \in 1 .. Len(connections)
      <4>1. d \in timer' => d \in timers
        BY <3>1, <1>1, <1>2 DEF Executed
      <4>2. GoesOn(requests, connections, timers, d)
        BY <4>1, <3>1, <2>1, <1>4 DEF GoesOn
      <4>3. connections[d].request # r
        BY <4>2, <3>1 DEF Ready
      <4> QED BY <4>2, <4>3, <3>1, <1>2, <1>4 DEF Ready, Going, Executed
    <3>2. CASE d \notin 1 .. Len(connections)
      <4>1. /\ d = c /\ ajax'[d].request = r
            /\ requests[r].requestCount < MaxRequest
        BY <3>2, <1>1, <1>2 DEF Executed
      <4> QED BY <4>1, <1>1, <1>2 DEF Executed
    <3> QED BY <3>1, <3>2
  <2> QED BY <2>1 DEF Going
<1> QED BY <1>3, <1>5, <1>6

\* Objects keep their options, and a connection what was written on it unless
\* it is new or closed.
Shape ==
  /\ Len(request) <= Len(request') /\ Len(ajax) <= Len(ajax')
  /\ \A q \in 1 .. Len(request) : Alike(request'[q], request[q])
  /\ \A c \in 1 .. Len(ajax') :
       (c \in 1 .. Len(ajax) /\ ajax'[c] = ajax[c]) \/ Fresh(ajax'[c])

LEMMA ExecuteShape ==
  ASSUME NEW requests, NEW closed, NEW timers, NEW r,
         Ready(r, requests, closed, timers), Execute(r, requests, closed, timers),
         Fewer(closed, ajax), Len(ajax) \in Nat, Len(request) \in Nat,
         Len(request) <= Len(requests),
         \A q \in 1 .. Len(request) : requests[q] = request[q]
  PROVE  Shape
<1>1. /\ requests \in Seq(RequestObject) /\ closed \in Seq(XMLHttpRequest)
      /\ r \in 1 .. Len(requests) /\ Len(requests) \in Nat /\ Len(closed) = Len(ajax)
  BY DEF Ready, Fewer
<1>2. Executed(r, requests, closed, timers)
  BY <1>1, ExecuteEffect
<1>3. /\ Len(request) <= Len(request') /\ Len(ajax) <= Len(ajax')
      /\ \A q \in 1 .. Len(request) : Alike(request'[q], request[q])
  BY <1>1, <1>2 DEF Executed
<1>4. ASSUME NEW c \in 1 .. Len(ajax'), ~ Fresh(ajax'[c])
      PROVE  c \in 1 .. Len(ajax) /\ ajax'[c] = ajax[c]
  <2>1. c \in 1 .. Len(ajax)
    BY <1>1, <1>2, <1>4 DEF Executed
  <2> QED BY <2>1, <1>1, <1>2, <1>4 DEF Executed, Fewer
<1> QED BY <1>3, <1>4 DEF Shape

LEMMA AddReady ==
  ASSUME IInv, Typed, NEW closed, Fewer(closed, ajax), NEW less \in SUBSET timer,
         NEW options \in RequestObject, Possible(options),
         options.requestCount <= MaxRequest,
         options.id # None => options.id \in 1 .. Len(ajax) /\ Asks(request, ajax, options.id)
  PROVE  /\ Ready(Len(request) + 1, Append(request, options), closed, less)
         /\ Len(request) \in Nat /\ Len(ajax) \in Nat
         /\ Len(Append(request, options)) = Len(request) + 1
         /\ \A q \in 1 .. Len(request) : Append(request, options)[q] = request[q]
<1> DEFINE r == Len(request) + 1
           more == Append(request, options)
<1>1. /\ request \in Seq(RequestObject) /\ ajax \in Seq(XMLHttpRequest)
      /\ Len(request) \in Nat /\ Len(ajax) \in Nat
      /\ \A c \in 1 .. Len(ajax) : ajax[c].request \in 1 .. Len(request)
      /\ timer \subseteq 1 .. Len(ajax)
  BY DEF IInv, ChainInv, Good, Sane
<1>2. /\ more \in Seq(RequestObject) /\ Len(more) = r /\ more[r] = options
      /\ \A q \in 1 .. Len(request) : more[q] = request[q]
  BY <1>1, AppendProperties
<1> HIDE DEF more
<1>3. /\ closed \in Seq(XMLHttpRequest) /\ Len(closed) = Len(ajax)
      /\ \A c \in 1 .. Len(closed) :
           /\ closed[c].request \in 1 .. Len(request) /\ closed[c].request # r
           /\ closed[c].request \in 1 .. Len(more)
           /\ more[closed[c].request] = request[ajax[c].request]
           /\ Asks(more, closed, c) <=> Asks(request, ajax, c)
           /\ Listens(more, closed, c) => Listens(request, ajax, c)
  BY <1>1, <1>2 DEF Fewer, Asks, Listens
<1>4. Remembered(more, closed)
  <2>1. ASSUME NEW q \in 1 .. Len(more), more[q].id # None
        PROVE  more[q].id \in 1 .. Len(closed) /\ Asks(more, closed, more[q].id)
    <3>1. more[q].id \in 1 .. Len(ajax) /\ Asks(request, ajax, more[q].id)
      BY <2>1, <1>1, <1>2 DEF Typed, Remembered
    <3> QED BY <3>1, <1>3
  <2> QED BY <2>1 DEF Remembered
<1>5. Going(more, closed, less)
  BY <1>3 DEF Typed, Going, GoesOn
<1>6. \A q \in 1 .. Len(more) :
        Possible(more[q]) /\ (q # r => more[q].requestCount \in 1 .. MaxRequest + 1)
  BY <1>1, <1>2 DEF Typed
<1>7. /\ r \in 1 .. Len(more) /\ more[r].requestCount <= MaxRequest
      /\ less \subseteq 1 .. Len(closed)
  BY <1>1, <1>2, <1>3
<1>8. Ready(r, more, closed, less)
  BY <1>2, <1>3, <1>4, <1>5, <1>6, <1>7 DEF Ready
<1> QED BY <1>1, <1>2, <1>8 DEF more

---------------------------------------------------------------------------
(* Every action keeps the types.                                           *)

\* What leaves the counts and the timeouts of the objects as they are.
LEMMA KeepTypes ==
  ASSUME IInv, Typed, Len(request') = Len(request), Len(ajax') = Len(ajax),
         \A q \in 1 .. Len(request) :
           /\ Possible(request'[q]) /\ request'[q].suspend = request[q].suspend
           /\ request'[q].requestCount = request[q].requestCount
           /\ request'[q].id = request[q].id,
         \A c \in 1 .. Len(ajax) :
           /\ ajax'[c].request = ajax[c].request
           /\ ajax'[c].state \in Alive => ajax[c].state \in Alive,
         timer' \subseteq timer,
         current' \in 0 .. Len(request)
  PROVE  Typed'
<1>1. \A c \in 1 .. Len(ajax) : ajax[c].request \in 1 .. Len(request)
  BY DEF IInv, ChainInv, Good, Sane
<1>2. \A c \in 1 .. Len(ajax) :
        /\ Asks(request', ajax', c) <=> Asks(request, ajax, c)
        /\ GoesOn(request', ajax', timer', c) => GoesOn(request, ajax, timer, c)
        /\ request'[ajax'[c].request].requestCount = request[ajax[c].request].requestCount
  BY <1>1 DEF Asks, Listens, GoesOn
<1>3. Remembered(request', ajax')
  BY <1>2 DEF Typed, Remembered
<1>4. Going(request', ajax', timer')
  BY <1>2 DEF Typed, Going
<1> QED BY <1>3, <1>4 DEF Typed

LEMMA SubscribeTypes ==
  ASSUME IInv, Typed, NEW connections, Fewer(connections, ajax), NEW less \in SUBSET timer,
         NEW options \in RequestObject, Possible(options),
         options.requestCount <= MaxRequest,
         options.id # None => options.id \in 1 .. Len(ajax) /\ Asks(request, ajax, options.id),
         SubscribeWith(options, connections, less)
  PROVE  Typed' /\ Shape
<1> DEFINE r == Len(request) + 1
           more == Append(request, options)
           closed == IF options.transport # activeTransport
                       THEN Aborted(activeRequest, connections) ELSE connections
<1>1. Fewer(closed, ajax)
  <2>1. CASE options.transport # activeTransport
    <3>1. connections \in Seq(XMLHttpRequest) /\ activeRequest \in 0 .. Len(connections)
      BY DEF Fewer, IInv, Others
    <3>2. Fewer(Aborted(activeRequest, connections), connections)
      BY <3>1, AbortedFewer
    <3>3. Fewer(Aborted(activeRequest, connections), ajax)
      BY <3>2 DEF Fewer
    <3> QED BY <2>1, <3>3
  <2>2. CASE options.transport = activeTransport
    BY <2>2
  <2> QED BY <2>1, <2>2
<1>2. Execute(r, more, closed, less) /\ current' = r
  BY DEF SubscribeWith
<1> HIDE DEF closed
<1>3. /\ Ready(r, more, closed, less) /\ Len(request) \in Nat /\ Len(ajax) \in Nat
      /\ Len(more) = r /\ \A q \in 1 .. Len(request) : more[q] = request[q]
  BY <1>1, AddReady
<1> HIDE DEF more
<1>4. Shape
  <2>1. Len(request) <= Len(more)
    BY <1>3
  <2> QED BY <1>1, <1>2, <1>3, <2>1, ExecuteShape
<1>5. /\ Len(request') = Len(more)
      /\ \A q \in 1 .. Len(request') :
           Possible(request'[q]) /\ request'[q].requestCount \in 1 .. MaxRequest + 1
      /\ Remembered(request', ajax') /\ Going(request', ajax', timer')
  BY <1>2, <1>3, ExecuteTypes
<1>6. current' \in 0 .. Len(request')
  BY <1>2, <1>3, <1>5
<1> QED BY <1>4, <1>5, <1>6 DEF Typed

LEMMA NewIsPossible ==
  ASSUME NEW transport, NEW suspend \in BOOLEAN,
         \/ transport \in Transport /\ suspend
         \/ transport = "polling" /\ ~ suspend
  PROVE  /\ NewRequest(transport, suspend) \in RequestObject
         /\ Possible(NewRequest(transport, suspend))
         /\ NewRequest(transport, suspend).requestCount = 0
         /\ NewRequest(transport, suspend).id = None
         /\ 0 <= MaxRequest
<1>1. transport \in {"streaming", "long-polling", "polling"}
  BY ClientAssumption
<1>2. suspend <=> transport # "polling"
  BY ClientAssumption
<1> QED BY <1>1, <1>2, ClientAssumption DEF NewRequest, RequestObject, Possible, None

LEMMA AjaxFewer ==
  ASSUME IInv PROVE Fewer(ajax, ajax) /\ timer \in SUBSET timer
BY DEF IInv, ChainInv, Good, Sane, Fewer

LEMMA SubscribeQuiet ==
  ASSUME IInv, Typed, NEW transport \in Transport, Subscribe(transport)
  PROVE  Typed' /\ Shape
<1> DEFINE options == NewRequest(transport, TRUE)
<1>1. /\ options \in RequestObject /\ Possible(options) /\ options.requestCount <= MaxRequest
      /\ options.id = None
  BY NewIsPossible
<1>2. SubscribeWith(options, ajax, timer)
  BY DEF Subscribe
<1> HIDE DEF options
<1> QED BY <1>1, <1>2, AjaxFewer, SubscribeTypes

LEMMA TimeoutQuiet ==
  ASSUME IInv, Typed, NEW c \in 1 .. Len(ajax), Timeout(c)
  PROVE  Typed' /\ Shape
<1> DEFINE r == ajax[c].request
           options == Options(c)
           closed == Aborted(c, ajax)
           less == timer \ {c}
<1>1. /\ request \in Seq(RequestObject) /\ ajax \in Seq(XMLHttpRequest)
      /\ r \in 1 .. Len(request) /\ options = request[r] /\ Len(ajax) \in Nat
  BY DEF IInv, ChainInv, Good, Sane, Options
<1>2. options \in RequestObject /\ Possible(options)
  BY <1>1, ObjectFields DEF Typed
<1>3. options.requestCount <= MaxRequest
  BY <1>1 DEF Typed, Going, GoesOn, Timeout
<1>4. options.id # None => options.id \in 1 .. Len(ajax) /\ Asks(request, ajax, options.id)
  BY <1>1 DEF Typed, Remembered
<1>5. Fewer(closed, ajax)
  <2>1. c \in 0 .. Len(ajax)
    BY <1>1
  <2> QED BY <2>1, <1>1, AbortedFewer
<1>6. SubscribeWith(options, closed, less) /\ less \in SUBSET timer
  BY DEF Timeout
<1> HIDE DEF options, closed, less
<1> QED BY <1>2, <1>3, <1>4, <1>5, <1>6, SubscribeTypes

LEMMA PublishQuiet ==
  ASSUME IInv, Typed, Publish
  PROVE  Typed' /\ Shape
<1> DEFINE options == NewRequest("polling", FALSE)
           r == Len(request) + 1
           more == Append(request, options)
<1>1. /\ options \in RequestObject /\ Possible(options) /\ options.requestCount <= MaxRequest
      /\ options.id = None
  BY NewIsPossible
<1>2. Execute(r, more, ajax, timer) /\ current' = r
  BY DEF Publish
<1> HIDE DEF options
<1>3. Fewer(ajax, ajax) /\ timer \in SUBSET timer
  BY AjaxFewer
<1>4. /\ Ready(r, more, ajax, timer) /\ Len(request) \in Nat /\ Len(ajax) \in Nat
      /\ Len(more) = r /\ \A q \in 1 .. Len(request) : more[q] = request[q]
  BY <1>1, <1>3, AddReady
<1> HIDE DEF more
<1>5. Shape
  <2>1. Len(request) <= Len(more)
    BY <1>4
  <2> QED BY <1>2, <1>3, <1>4, <2>1, ExecuteShape
<1>6. /\ Len(request') = Len(more)
      /\ \A q \in 1 .. Len(request') :
           Possible(request'[q]) /\ request'[q].requestCount \in 1 .. MaxRequest + 1
      /\ Remembered(request', ajax') /\ Going(request', ajax', timer')
  BY <1>2, <1>4, ExecuteTypes
<1>7. current' \in 0 .. Len(request')
  BY <1>2, <1>4, <1>6
<1> QED BY <1>5, <1>6, <1>7 DEF Typed

\* Only one connection or timeout of a request object goes on.
LEMMA OneOfAnObject ==
  ASSUME IInv, NEW c \in 1 .. Len(ajax), NEW d \in 1 .. Len(ajax),
         GoesOn(request, ajax, timer, c), GoesOn(request, ajax, timer, d),
         ajax[c].request = ajax[d].request
  PROVE  c = d
<1>1. PICK chain, place : Good(request, ajax, timer, calls.subscribe, chain, place)
  BY DEF IInv, ChainInv
<1>2. Asks(request, ajax, c) /\ Asks(request, ajax, d)
  BY <1>1 DEF Good, Watched, GoesOn, Listens
<1> QED BY <1>1, <1>2 DEF Good, Chained

\* A connection is closed.
LEMMA CloseQuiet ==
  ASSUME IInv, Typed, NEW c \in 1 .. Len(ajax), NEW state \in Closed,
         ajax' = Ended(ajax, c, state), UNCHANGED <<request, timer>>,
         current' = ajax[c].request
  PROVE  Typed' /\ Shape
<1>1. /\ request \in Seq(RequestObject) /\ ajax \in Seq(XMLHttpRequest)
      /\ ajax[c].request \in 1 .. Len(request)
      /\ Len(request) \in Nat /\ Len(ajax) \in Nat
  BY DEF IInv, ChainInv, Good, Sane
<1>2. Fewer(ajax', ajax)
  BY <1>1, EndedFewer
<1>3. Typed'
  <2>1. \A q \in 1 .. Len(request) : Possible(request'[q])
    BY DEF Typed
  <2>2. current' \in 0 .. Len(request)
    BY <1>1
  <2> QED BY <1>2, <2>1, <2>2, KeepTypes DEF Fewer
<1>4. Shape
  BY <1>1, <1>2 DEF Fewer, Shape, Alike
<1> QED BY <1>3, <1>4

LEMMA FailQuiet ==
  ASSUME IInv, Typed, NEW c \in 1 .. Len(ajax), Fail(c)
  PROVE  Typed' /\ Shape
<1> DEFINE state == IF ajax[c].state = "sent" THEN "failed" ELSE "cut"
<1>1. ajax' = Ended(ajax, c, state) /\ UNCHANGED <<request, timer>>
      /\ current' = ajax[c].request
  BY DEF Fail, Ended
<1>2. state \in Closed
  BY DEF Closed
<1> HIDE DEF state
<1> QED BY <1>1, <1>2, CloseQuiet

LEMMA EndQuiet ==
  ASSUME IInv, Typed, NEW c \in 1 .. Len(ajax), End(c)
  PROVE  Typed' /\ Shape
<1> DEFINE r == ajax[c].request
           state == IF ajax[c].state = "open" THEN "ended" ELSE "rejected"
           ended == Ended(ajax, c, state)
<1>1. /\ request \in Seq(RequestObject) /\ ajax \in Seq(XMLHttpRequest)
      /\ r \in 1 .. Len(request) /\ Len(request) \in Nat /\ Len(ajax) \in Nat
      /\ timer \subseteq 1 .. Len(ajax)
      /\ \A d \in 1 .. Len(ajax) : ajax[d].request \in 1 .. Len(request)
  BY DEF IInv, ChainInv, Good, Sane
<1>2. /\ IF Suspends(c) /\ ajax[c].state = "open"
           THEN Execute(r, request, ended, timer)
           ELSE ajax' = ended /\ UNCHANGED <<request, activeRequest, timer>>
      /\ current' = r
  BY DEF End, Ended
<1>3. state \in Closed
  BY DEF Closed
<1> HIDE DEF state
<1>4. Fewer(ended, ajax) /\ ended[c].state \notin Alive
  BY <1>1, <1>3, EndedFewer
<1>5. CASE Suspends(c) /\ ajax[c].state = "open"
  <2>1. /\ Listens(request, ajax, c) /\ GoesOn(request, ajax, timer, c) /\ c \notin timer
    BY <1>5 DEF IInv, ChainInv, Good, Watched, Suspends, Options, Asks, Listens, Alive, GoesOn
  <2>2. request[r].requestCount <= MaxRequest
    BY <2>1 DEF Typed, Going
  <2>3. \A d \in 1 .. Len(ajax) :
          /\ ended[d].request = ajax[d].request
          /\ Asks(request, ended, d) <=> Asks(request, ajax, d)
          /\ GoesOn(request, ended, timer, d) => GoesOn(request, ajax, timer, d) /\ d # c
    BY <1>4, <2>1 DEF Fewer, Asks, Listens, GoesOn
  <2>4. \A d \in 1 .. Len(ajax) :
          ended[d].request = r => ~ GoesOn(request, ended, timer, d)
    BY <2>1, <2>3, OneOfAnObject
  <2>5. Remembered(request, ended)
    <3>1. Len(ended) = Len(ajax)
      BY <1>4 DEF Fewer
    <3> HIDE DEF ended
    <3> QED BY <2>3, <3>1 DEF Typed, Remembered
  <2>6. Going(request, ended, timer)
    <3>1. Len(ended) = Len(ajax)
      BY <1>4 DEF Fewer
    <3> HIDE DEF ended
    <3> QED BY <2>3, <3>1 DEF Typed, Going
  <2> HIDE DEF ended
  <2>7. Ready(r, request, ended, timer)
    BY <1>1, <1>4, <2>2, <2>3, <2>4, <2>5, <2>6 DEF Ready, Fewer, Typed
  <2> HIDE DEF r
  <2>8. Execute(r, request, ended, timer) /\ Len(request) <= Len(request)
    BY <1>1, <1>2, <1>5
  <2>9. Shape
    BY <1>1, <1>4, <2>7, <2>8, ExecuteShape
  <2>10. /\ Len(request') = Len(request)
         /\ \A q \in 1 .. Len(request') :
              Possible(request'[q]) /\ request'[q].requestCount \in 1 .. MaxRequest + 1
         /\ Remembered(request', ajax') /\ Going(request', ajax', timer')
    BY <2>7, <2>8, ExecuteTypes
  <2>11. current' \in 0 .. Len(request')
    BY <1>1, <1>2, <2>10
  <2> QED BY <2>9, <2>10, <2>11 DEF Typed
<1>6. CASE ~ (Suspends(c) /\ ajax[c].state = "open")
  BY <1>2, <1>3, <1>6, CloseQuiet
<1> QED BY <1>5, <1>6

---------------------------------------------------------------------------
(* Every action keeps what is said of the texts and of what was heard.     *)

LEMMA Connections ==
  ASSUME IInv
  PROVE  /\ request \in Seq(RequestObject) /\ ajax \in Seq(XMLHttpRequest)
         /\ Len(request) \in Nat /\ Len(ajax) \in Nat
         /\ DOMAIN request = 1 .. Len(request) /\ DOMAIN ajax = 1 .. Len(ajax)
         /\ pushed \in Nat /\ calls \in [subscribe : Nat, publish : Nat]
         /\ calls.subscribe \in Nat
         /\ \A c \in 1 .. Len(ajax) :
              /\ ajax[c] \in XMLHttpRequest
              /\ ajax[c].request \in 1 .. Len(request)
              /\ Options(c) = request[ajax[c].request]
              /\ Options(c).lastIndex \in Nat
              /\ ajax[c].written \in Seq(Nat) /\ ajax[c].seen \in Nat
              /\ Len(ajax[c].written) \in Nat
<1>1. /\ request \in Seq(RequestObject) /\ ajax \in Seq(XMLHttpRequest)
      /\ \A c \in 1 .. Len(ajax) : ajax[c].request \in 1 .. Len(request)
      /\ pushed \in Nat /\ calls \in [subscribe : Nat, publish : Nat]
  BY DEF IInv, Others, ChainInv, Good, Sane
<1>2. \A c \in 1 .. Len(ajax) : ajax[c].written \in Seq(Nat) /\ ajax[c].seen \in Nat
  <2>1. \A c \in 1 .. Len(ajax) : ajax[c] \in XMLHttpRequest
    BY <1>1
  <2> QED BY <2>1 DEF XMLHttpRequest
<1>3. \A c \in 1 .. Len(ajax) : request[ajax[c].request].lastIndex \in Nat
  BY <1>1, ObjectFields
<1> QED BY <1>1, <1>2, <1>3 DEF Options

\* What only makes, closes and copies.
LEMMA QuietKeeps ==
  ASSUME ClientInv, Shape, heard' = heard, pushed' = pushed,
         calls'.subscribe \in Nat, calls.subscribe <= calls'.subscribe
  PROVE  Reading' /\ Ordered'
<1>1. /\ Len(request) \in Nat /\ calls.subscribe \in Nat
      /\ \A c \in 1 .. Len(ajax) : ajax[c].request \in 1 .. Len(request)
  BY Connections DEF ClientInv
<1>2. Reading'
  <2>1. ASSUME NEW c \in 1 .. Len(ajax'), ~ Fresh(ajax'[c])
        PROVE  /\ c \in 1 .. Len(ajax) /\ ajax'[c] = ajax[c]
               /\ Suspends(c)' <=> Suspends(c)
               /\ Options(c)'.transport = Options(c).transport
               /\ Options(c)'.lastIndex = Options(c).lastIndex
    <3>1. c \in 1 .. Len(ajax) /\ ajax'[c] = ajax[c]
      BY <2>1 DEF Shape
    <3>2. Alike(request'[ajax[c].request], request[ajax[c].request])
      BY <3>1, <1>1 DEF Shape
    <3> QED BY <3>1, <3>2 DEF Suspends, Options, Alike
  <2> QED BY <2>1 DEF ClientInv, Reading
<1>3. Ordered'
  <2> SUFFICES ASSUME OneStream'
               PROVE  /\ heard' \in Seq(Nat)
                      /\ \A i, j \in 1 .. Len(heard') :
                           i < j /\ Garbled \notin {heard'[i], heard'[j]} => heard'[i] < heard'[j]
                      /\ \A i \in 1 .. Len(heard') : heard'[i] <= pushed'
                      /\ \A c \in 1 .. Len(ajax') :
                           \A i \in 1 .. Len(heard'), k \in 2 .. Len(ajax'[c].written) :
                             k > ajax'[c].seen => 2 * heard'[i] < ajax'[c].written[k]
    BY DEF Ordered
  <2>1. OneStream
    <3>1. \A r \in 1 .. Len(request) :
            r \in 1 .. Len(request') /\ request'[r].transport = request[r].transport
      BY <1>1 DEF Shape, Alike
    <3> QED BY <3>1, <1>1 DEF OneStream
  <2>2. \A c \in 1 .. Len(ajax') :
          \A i \in 1 .. Len(heard), k \in 2 .. Len(ajax'[c].written) :
            k > ajax'[c].seen => 2 * heard[i] < ajax'[c].written[k]
    <3> TAKE c \in 1 .. Len(ajax')
    <3>1. CASE c \in 1 .. Len(ajax) /\ ajax'[c] = ajax[c]
      BY <3>1, <2>1 DEF ClientInv, Ordered
    <3>2. CASE Fresh(ajax'[c])
      <4>1. Len(ajax'[c].written) = 0
        BY <3>2 DEF Fresh
      <4> QED BY <4>1
    <3> QED BY <3>1, <3>2 DEF Shape
  <2> QED BY <2>1, <2>2 DEF ClientInv, Ordered
<1> QED BY <1>2, <1>3

\* A connection without headers has no text.
LEMMA SentIsFresh ==
  ASSUME ClientInv, NEW c \in 1 .. Len(ajax), ajax[c].state = "sent"
  PROVE  Fresh(ajax[c])
BY DEF ClientInv, Reading

LEMMA RefuseKeeps ==
  ASSUME ClientInv, NEW c \in 1 .. Len(ajax), Refuse(c)
  PROVE  Typed' /\ Reading' /\ Ordered'
<1> DEFINE new == [ajax[c] EXCEPT !.state = "refused"]
<1>1. /\ ajax \in Seq(XMLHttpRequest) /\ ajax[c] \in XMLHttpRequest
      /\ calls.subscribe \in Nat /\ Len(ajax) \in Nat /\ Len(request) \in Nat
  BY Connections DEF ClientInv
<1>2. /\ new \in XMLHttpRequest /\ new.request = ajax[c].request /\ new.state = "refused"
      /\ Fresh(new) /\ ajax[c].state \in Alive
  BY <1>1, SentIsFresh DEF Refuse, Fresh, XMLHttpRequest, Alive
<1>3. ajax' = [ajax EXCEPT ![c] = new]
      /\ UNCHANGED <<request, current, heard, calls, pushed>> /\ timer' \subseteq timer
  BY DEF Refuse
<1> HIDE DEF new
<1>4. /\ Len(ajax') = Len(ajax) /\ ajax'[c] = new
      /\ \A d \in 1 .. Len(ajax) : d # c => ajax'[d] = ajax[d]
  BY <1>1, <1>2, <1>3, ExceptSeq
<1>5. Typed'
  <2>1. \A q \in 1 .. Len(request) : Possible(request'[q])
    BY <1>3 DEF ClientInv, Typed
  <2>2. current' \in 0 .. Len(request)
    BY <1>3 DEF ClientInv, Typed
  <2>3. \A d \in 1 .. Len(ajax) :
          /\ ajax'[d].request = ajax[d].request
          /\ ajax'[d].state \in Alive => ajax[d].state \in Alive
    BY <1>2, <1>4
  <2> QED BY <1>3, <1>4, <2>1, <2>2, <2>3, KeepTypes DEF ClientInv
<1>6. Shape
  BY <1>1, <1>2, <1>3, <1>4 DEF Shape, Alike
<1>7. heard' = heard /\ pushed' = pushed
      /\ calls'.subscribe \in Nat /\ calls.subscribe <= calls'.subscribe
  BY <1>1, <1>3
<1> QED BY <1>5, <1>6, <1>7, QuietKeeps

LEMMA HeadersRead ==
  ASSUME ClientInv, NEW c \in 1 .. Len(ajax), Headers(c)
  PROVE  Typed' /\ Reading' /\ Ordered'
<1> DEFINE text == IF Suspends(c) THEN <<Pad>> ELSE << >>
           new == [ajax[c] EXCEPT !.state = "open", !.written = text]
<1>1. /\ ajax \in Seq(XMLHttpRequest) /\ ajax[c] \in XMLHttpRequest
      /\ Len(ajax) \in Nat /\ Len(request) \in Nat /\ pushed \in Nat
  BY Connections DEF ClientInv
<1>2. text \in Seq(Nat) /\ Len(text) \in {0, 1}
  BY DEF Pad
<1>3. /\ ajax[c].state = "sent" /\ timer' \subseteq timer
      /\ UNCHANGED <<request, current, heard, calls, pushed>>
      /\ ajax' = [ajax EXCEPT ![c] = new]
  BY DEF Headers
<1>4. /\ new \in XMLHttpRequest /\ new.request = ajax[c].request /\ new.state = "open"
      /\ new.seen = 0 /\ new.written = text /\ ajax[c].state \in Alive
  <2>1. ajax[c].seen = 0
    BY <1>3, SentIsFresh DEF Fresh
  <2> HIDE DEF text
  <2> QED BY <1>1, <1>2, <1>3, <2>1 DEF XMLHttpRequest, Alive
<1>5. Suspends(c) => Stream(text, pushed)
  <2> SUFFICES ASSUME Suspends(c) PROVE Stream(<<0>>, pushed)
    BY DEF Pad
  <2> QED BY <1>1 DEF Stream, Pad
<1>6. ~ Suspends(c) => text = << >>
  OBVIOUS
<1> HIDE DEF new, text
<1>7. /\ Len(ajax') = Len(ajax) /\ ajax'[c] = new
      /\ \A d \in 1 .. Len(ajax) : d # c => ajax'[d] = ajax[d]
  BY <1>1, <1>3, <1>4, ExceptSeq
<1>8. Typed'
  <2>1. \A q \in 1 .. Len(request) : Possible(request'[q])
    BY <1>3 DEF ClientInv, Typed
  <2>2. current' \in 0 .. Len(request)
    BY <1>3 DEF ClientInv, Typed
  <2>3. \A d \in 1 .. Len(ajax) :
          /\ ajax'[d].request = ajax[d].request
          /\ ajax'[d].state \in Alive => ajax[d].state \in Alive
    BY <1>4, <1>7
  <2> QED BY <1>3, <1>7, <2>1, <2>2, <2>3, KeepTypes DEF ClientInv
<1>9. Reading'
  <2>1. \A d \in 1 .. Len(ajax) :
          (Suspends(d)' <=> Suspends(d)) /\ Options(d)' = Options(d)
    BY <1>3, <1>4, <1>7 DEF Suspends, Options
  <2>2. ASSUME NEW d \in 1 .. Len(ajax'), d # c
        PROVE  \/ Fresh(ajax'[d])
               \/ /\ ajax'[d].state = "open" /\ ~ Suspends(d)'
                  /\ ajax'[d].written = << >> /\ ajax'[d].seen = 0
               \/ /\ ajax'[d].state = "open" /\ Suspends(d)'
                  /\ Stream(ajax'[d].written, pushed')
                  /\ Options(d)'.transport = "streaming" /\ ajax'[d].seen > 0
                       => Options(d)'.lastIndex = ajax'[d].seen
    BY <2>1, <2>2, <1>3, <1>7 DEF ClientInv, Reading
  <2>3. \/ /\ ajax'[c].state = "open" /\ ~ Suspends(c)'
           /\ ajax'[c].written = << >> /\ ajax'[c].seen = 0
        \/ /\ ajax'[c].state = "open" /\ Suspends(c)'
           /\ Stream(ajax'[c].written, pushed')
           /\ ~ (ajax'[c].seen > 0)
    BY <2>1, <1>3, <1>4, <1>5, <1>6, <1>7
  <2> QED BY <2>2, <2>3, <1>7 DEF Reading
<1>10. Ordered'
  <2> SUFFICES ASSUME OneStream'
               PROVE  /\ heard' \in Seq(Nat)
                      /\ \A i, j \in 1 .. Len(heard') :
                           i < j /\ Garbled \notin {heard'[i], heard'[j]} => heard'[i] < heard'[j]
                      /\ \A i \in 1 .. Len(heard') : heard'[i] <= pushed'
                      /\ \A d \in 1 .. Len(ajax') :
                           \A i \in 1 .. Len(heard'), k \in 2 .. Len(ajax'[d].written) :
                             k > ajax'[d].seen => 2 * heard'[i] < ajax'[d].written[k]
    BY DEF Ordered
  <2>1. OneStream
    BY <1>3 DEF OneStream
  <2>2. ASSUME NEW d \in 1 .. Len(ajax'), NEW i \in 1 .. Len(heard),
               NEW k \in 2 .. Len(ajax'[d].written), k > ajax'[d].seen
        PROVE  2 * heard[i] < ajax'[d].written[k]
    <3>1. d # c
      <4>1. 2 .. 0 = {} /\ 2 .. 1 = {}
        OBVIOUS
      <4>2. 2 .. Len(text) = {}
        BY <1>2, <4>1
      <4>3. ajax'[c].written = text
        BY <1>4, <1>7
      <4> QED BY <2>2, <4>2, <4>3
    <3> QED BY <3>1, <2>1, <2>2, <1>7 DEF ClientInv, Ordered
  <2> QED BY <2>1, <2>2, <1>3 DEF ClientInv, Ordered
<1> QED BY <1>8, <1>9, <1>10

\* A stream with one more message.
LEMMA StreamGrows ==
  ASSUME NEW text \in Seq(Nat), NEW n \in Nat, Stream(text, n)
  PROVE  LET more == text \o Halves(n + 1)
         IN  /\ more \in Seq(Nat) /\ Stream(more, n + 1)
             /\ \A k \in 1 .. Len(more) :
                  IF k \in 1 .. Len(text) THEN more[k] = text[k] ELSE more[k] > 2 * n
<1> DEFINE halves == Halves(n + 1)
           more == text \o halves
<1>1. /\ halves \in Seq(Nat) /\ Len(halves) = 2
      /\ halves[1] = 2 * n + 1 /\ halves[2] = 2 * n + 2
  BY DEF Halves
<1>2. Len(text) \in Nat \ {0} /\ \A i \in 1 .. Len(text) : text[i] \in Nat
  BY EmptySeq DEF Stream
<1> HIDE DEF halves
<1>3. /\ more \in Seq(Nat) /\ Len(more) = Len(text) + 2
      /\ \A i \in 1 .. Len(text) + 2 :
           more[i] = IF i <= Len(text) THEN text[i] ELSE halves[i - Len(text)]
  <2>1. /\ text \o halves \in Seq(Nat) /\ Len(text \o halves) = Len(text) + Len(halves)
        /\ \A i \in 1 .. Len(text) + Len(halves) :
             (text \o halves)[i] = IF i <= Len(text) THEN text[i] ELSE halves[i - Len(text)]
    BY <1>1, ConcatProperties
  <2> QED BY <1>1, <2>1
<1> HIDE DEF more
<1>4. /\ more[Len(text) + 1] = 2 * n + 1 /\ more[Len(text) + 2] = 2 * n + 2
      /\ \A i \in 1 .. Len(text) : more[i] = text[i]
  <2>1. Len(text) + 1 - Len(text) = 1 /\ Len(text) + 2 - Len(text) = 2
    BY <1>2
  <2>2. Len(text) + 1 \in 1 .. Len(text) + 2 /\ Len(text) + 2 \in 1 .. Len(text) + 2
    BY <1>2
  <2>3. more[Len(text) + 1] = halves[1] /\ more[Len(text) + 2] = halves[2]
    BY <1>2, <1>3, <2>1, <2>2
  <2> QED BY <1>1, <1>2, <1>3, <2>3
<1>5. \A k \in 1 .. Len(text) + 2 :
        k \in 1 .. Len(text) \/ k = Len(text) + 1 \/ k = Len(text) + 2
  BY <1>2
<1>6. Stream(more, n + 1)
  <2>1. more # << >> /\ more[1] = Pad
    BY <1>2, <1>3, <1>4 DEF Stream
  <2>2. \A i \in 1 .. Len(text) : text[i] \in Nat /\ text[i] <= 2 * n
    BY <1>2 DEF Stream
  <2>3. ASSUME NEW i \in 1 .. Len(text) + 2 PROVE more[i] <= 2 * (n + 1)
    <3>1. CASE i \in 1 .. Len(text)
      <4>1. more[i] \in Nat /\ more[i] <= 2 * n
        BY <3>1, <1>4, <2>2
      <4> QED BY <4>1
    <3> QED BY <3>1, <1>4, <1>5
  <2>4. \A i, j \in 1 .. Len(text) : i < j => text[i] < text[j]
    BY DEF Stream
  <2>5. ASSUME NEW i \in 1 .. Len(text) + 2, NEW j \in 1 .. Len(text) + 2, i < j
        PROVE  more[i] < more[j]
    <3>1. CASE j \in 1 .. Len(text)
      <4>1. i \in 1 .. Len(text)
        BY <3>1, <2>5, <1>2
      <4> QED BY <3>1, <4>1, <2>4, <2>5, <1>4
    <3>2. CASE j = Len(text) + 1
      <4>1. i \in 1 .. Len(text)
        BY <3>2, <2>5, <1>2
      <4>2. more[i] <= 2 * n /\ more[i] \in Nat
        BY <4>1, <2>2, <1>4
      <4> QED BY <3>2, <4>2, <1>4
    <3>3. CASE j = Len(text) + 2 /\ i \in 1 .. Len(text)
      <4>2. more[i] <= 2 * n /\ more[i] \in Nat
        BY <3>3, <2>2, <1>4
      <4> QED BY <3>3, <4>2, <1>4
    <3>4. CASE j = Len(text) + 2 /\ i = Len(text) + 1
      BY <3>4, <1>4
    <3> QED BY <3>1, <3>2, <3>3, <3>4, <2>5, <1>2, <1>5
  <2> QED BY <2>1, <2>3, <2>5, <1>3 DEF Stream
<1>7. \A k \in 1 .. Len(more) :
        IF k \in 1 .. Len(text) THEN more[k] = text[k] ELSE more[k] > 2 * n
  BY <1>3, <1>4, <1>5
<1> QED BY <1>3, <1>6, <1>7 DEF more, halves

LEMMA BroadcastReads ==
  ASSUME ClientInv, Broadcast
  PROVE  Typed' /\ Reading' /\ Ordered'
<1>1. /\ ajax \in Seq(XMLHttpRequest) /\ Len(ajax) \in Nat /\ pushed \in Nat
      /\ DOMAIN ajax = 1 .. Len(ajax) /\ Len(request) \in Nat
      /\ \A c \in 1 .. Len(ajax) :
           /\ ajax[c] \in XMLHttpRequest /\ ajax[c].written \in Seq(Nat)
           /\ Options(c) = request[ajax[c].request] /\ ajax[c].seen \in Nat
  BY Connections DEF ClientInv
<1>2. pushed' = pushed + 1 /\ UNCHANGED <<request, current, timer, heard, calls>>
  BY DEF Broadcast
<1> DEFINE longer(c) == ajax[c].written \o Halves(pushed + 1)
           given(c) == IF ajax[c].state = "open" /\ Suspends(c)
                         THEN [ajax[c] EXCEPT !.written = longer(c)] ELSE ajax[c]
<1>3. ajax' = [c \in 1 .. Len(ajax) |-> given(c)]
  BY <1>1, <1>2 DEF Broadcast
<1>4. /\ Len(ajax') = Len(ajax)
      /\ \A c \in 1 .. Len(ajax) : ajax'[c] = given(c)
  <2> HIDE DEF given
  <2> QED BY <1>1, <1>3
<1>5. \A c \in 1 .. Len(ajax) :
        /\ ajax'[c].request = ajax[c].request /\ ajax'[c].state = ajax[c].state
        /\ ajax'[c].seen = ajax[c].seen
        /\ ajax'[c].written = IF ajax[c].state = "open" /\ Suspends(c)
                                THEN longer(c) ELSE ajax[c].written
  <2> HIDE DEF longer
  <2> QED BY <1>1, <1>4 DEF XMLHttpRequest
<1>6. \A c \in 1 .. Len(ajax) : (Suspends(c)' <=> Suspends(c)) /\ Options(c)' = Options(c)
  BY <1>2, <1>5 DEF Suspends, Options
<1>7. Typed'
  <2>1. \A q \in 1 .. Len(request) : Possible(request'[q])
    BY <1>2 DEF ClientInv, Typed
  <2>2. current' \in 0 .. Len(request)
    BY <1>2 DEF ClientInv, Typed
  <2> QED BY <1>2, <1>4, <1>5, <2>1, <2>2, KeepTypes DEF ClientInv
<1>8. \A c \in 1 .. Len(ajax) :
        ajax[c].state = "open" /\ Suspends(c) =>
          /\ Stream(ajax[c].written, pushed)
          /\ Stream(longer(c), pushed')
          /\ \A k \in 1 .. Len(longer(c)) :
               IF k \in 1 .. Len(ajax[c].written)
                 THEN longer(c)[k] = ajax[c].written[k] ELSE longer(c)[k] > 2 * pushed
  <2> SUFFICES ASSUME NEW c \in 1 .. Len(ajax), ajax[c].state = "open", Suspends(c)
               PROVE  /\ Stream(ajax[c].written, pushed)
                      /\ Stream(longer(c), pushed')
                      /\ \A k \in 1 .. Len(longer(c)) :
                           IF k \in 1 .. Len(ajax[c].written)
                             THEN longer(c)[k] = ajax[c].written[k]
                             ELSE longer(c)[k] > 2 * pushed
    OBVIOUS
  <2>1. Stream(ajax[c].written, pushed)
    BY DEF ClientInv, Reading, Fresh
  <2> QED BY <2>1, <1>1, <1>2, StreamGrows
<1> HIDE DEF longer, given
<1>9. Reading'
  <2>1. ASSUME NEW c \in 1 .. Len(ajax)
        PROVE  \/ Fresh(ajax'[c])
               \/ /\ ajax'[c].state = "open" /\ ~ Suspends(c)'
                  /\ ajax'[c].written = << >> /\ ajax'[c].seen = 0
               \/ /\ ajax'[c].state = "open" /\ Suspends(c)'
                  /\ Stream(ajax'[c].written, pushed')
                  /\ Options(c)'.transport = "streaming" /\ ajax'[c].seen > 0
                       => Options(c)'.lastIndex = ajax'[c].seen
    <3>1. CASE ajax[c].state = "open" /\ Suspends(c)
      BY <3>1, <1>5, <1>6, <1>8 DEF ClientInv, Reading, Fresh
    <3>2. CASE ~ (ajax[c].state = "open" /\ Suspends(c))
      BY <3>2, <1>5, <1>6 DEF ClientInv, Reading, Fresh
    <3> QED BY <3>1, <3>2
  <2> QED BY <2>1, <1>4 DEF Reading
<1>10. Ordered'
  <2> SUFFICES ASSUME OneStream'
               PROVE  /\ heard' \in Seq(Nat)
                      /\ \A i, j \in 1 .. Len(heard') :
                           i < j /\ Garbled \notin {heard'[i], heard'[j]} => heard'[i] < heard'[j]
                      /\ \A i \in 1 .. Len(heard') : heard'[i] <= pushed'
                      /\ \A d \in 1 .. Len(ajax') :
                           \A i \in 1 .. Len(heard'), k \in 2 .. Len(ajax'[d].written) :
                             k > ajax'[d].seen => 2 * heard'[i] < ajax'[d].written[k]
    BY DEF Ordered
  <2>1. OneStream
    BY <1>2 DEF OneStream
  <2>2. /\ heard \in Seq(Nat)
        /\ \A i \in 1 .. Len(heard) : heard[i] \in Nat /\ heard[i] <= pushed
    <3>1. heard \in Seq(Nat)
      BY <2>1 DEF ClientInv, Ordered
    <3> QED BY <2>1, <3>1 DEF ClientInv, Ordered
  <2>3. \A i \in 1 .. Len(heard) : heard[i] <= pushed'
    BY <2>2, <1>1, <1>2
  <2>4. ASSUME NEW d \in 1 .. Len(ajax), NEW i \in 1 .. Len(heard),
               NEW k \in 2 .. Len(ajax'[d].written), k > ajax'[d].seen
        PROVE  2 * heard[i] < ajax'[d].written[k]
    <3>1. ASSUME k \in 1 .. Len(ajax[d].written), ajax'[d].written[k] = ajax[d].written[k]
          PROVE  2 * heard[i] < ajax'[d].written[k]
      <4>1. k \in 2 .. Len(ajax[d].written) /\ k > ajax[d].seen
        BY <2>4, <3>1, <1>1, <1>5
      <4> QED BY <2>1, <3>1, <4>1 DEF ClientInv, Ordered
    <3>2. CASE ajax[d].state = "open" /\ Suspends(d)
      <4>1. k \in 1 .. Len(longer(d)) /\ ajax'[d].written = longer(d)
        BY <3>2, <1>5
      <4>2. CASE k \in 1 .. Len(ajax[d].written)
        BY <4>1, <4>2, <3>1, <3>2, <1>8
      <4>3. CASE k \notin 1 .. Len(ajax[d].written)
        <5>1. longer(d)[k] > 2 * pushed
          BY <4>1, <4>3, <3>2, <1>8
        <5>2. longer(d)[k] \in Nat
          <6>1. ajax[d].written \in Seq(Nat) /\ Stream(ajax[d].written, pushed)
            BY <3>2, <1>1, <1>8
          <6>2. longer(d) \in Seq(Nat)
            BY <6>1, <1>1, StreamGrows DEF longer
          <6> QED BY <6>2, <4>1
        <5>3. heard[i] \in Nat /\ heard[i] <= pushed
          BY <2>2
        <5> QED BY <4>1, <5>1, <5>2, <5>3, <1>1
      <4> QED BY <4>2, <4>3
    <3>3. CASE ~ (ajax[d].state = "open" /\ Suspends(d))
      <4>1. ajax'[d].written = ajax[d].written
        BY <3>3, <1>5
      <4>2. k \in 1 .. Len(ajax[d].written)
        BY <4>1
      <4> QED BY <3>1, <4>1, <4>2
    <3> QED BY <3>2, <3>3
  <2> QED BY <2>1, <2>2, <2>3, <2>4, <1>2, <1>4 DEF ClientInv, Ordered
<1> QED BY <1>7, <1>9, <1>10

\* A part of a text.
LEMMA PartIs ==
  ASSUME NEW S, NEW s \in Seq(S), NEW m \in Nat \ {0}, NEW n \in Nat, n <= Len(s)
  PROVE  /\ SubSeq(s, m, n) \in Seq(S)
         /\ m <= n => Len(SubSeq(s, m, n)) = n - m + 1
         /\ ~ (m <= n) => SubSeq(s, m, n) = << >>
         /\ \A i \in 1 .. n - m + 1 : SubSeq(s, m, n)[i] = s[m + i - 1]
<1>1. m \in Int /\ n \in Int /\ Len(s) \in Nat
  OBVIOUS
<1>2. \A i \in m .. n : s[i] \in S
  BY ElementOfSeq
<1>3. /\ SubSeq(s, m, n) \in Seq(S)
      /\ Len(SubSeq(s, m, n)) = IF m <= n THEN n - m + 1 ELSE 0
      /\ \A i \in 1 .. n - m + 1 : SubSeq(s, m, n)[i] = s[m + i - 1]
  BY ONLY <1>1, <1>2, SubSeqProperties
<1> QED BY <1>3, EmptySeq

\* What the callbacks get of a stream, of which the handler has seen so much,
\* when all up to lastIndex was handed on before.
LEMMA HandedIs ==
  ASSUME NEW w \in Seq(Nat), NEW n \in Nat, Stream(w, n),
         NEW seen \in 1 .. Len(w), NEW li \in Nat
  PROVE  LET handed == Handed("streaming", SubSeq(w, 1, seen), li)
         IN  /\ \/ handed = << >> \/ handed = <<Garbled>>
                \/ 0 < li /\ li + 2 <= seen /\ handed = <<w[li + 2] \div 2>>
             /\ 0 < li /\ li + 2 = seen /\ IsHead(w[li + 1])
                  => handed = <<w[li + 2] \div 2>>
<1> DEFINE text == SubSeq(w, 1, seen)
           body == SubSeq(text, li + 1, Len(text))
           handed == Handed("streaming", text, li)
<1>1. /\ text \in Seq(Nat) /\ Len(text) = seen /\ seen \in Nat
      /\ \A i \in 1 .. seen : text[i] = w[i]
  <2>1. 1 \in Nat \ {0} /\ seen \in Nat /\ seen <= Len(w) /\ 1 <= seen
    OBVIOUS
  <2>2. /\ text \in Seq(Nat) /\ Len(text) = seen - 1 + 1
        /\ \A i \in 1 .. seen - 1 + 1 : text[i] = w[1 + i - 1]
    BY <2>1, PartIs
  <2>3. seen - 1 + 1 = seen /\ \A i \in 1 .. seen : 1 + i - 1 = i
    BY <2>1
  <2> HIDE DEF text
  <2> QED BY <2>1, <2>2, <2>3
<1> HIDE DEF text
<1>2. /\ body \in Seq(Nat)
      /\ li < seen => Len(body) = seen - li
      /\ ~ (li < seen) => body = << >>
      /\ \A i \in 1 .. seen - li : body[i] = w[li + i]
  <2>1. li + 1 \in Nat \ {0} /\ Len(text) \in Nat /\ Len(text) <= Len(text)
    BY <1>1
  <2> DEFINE m == li + 1
             k == Len(text)
  <2>2. /\ SubSeq(text, m, k) \in Seq(Nat)
        /\ m <= k => Len(SubSeq(text, m, k)) = k - m + 1
        /\ ~ (m <= k) => SubSeq(text, m, k) = << >>
        /\ \A i \in 1 .. k - m + 1 : SubSeq(text, m, k)[i] = text[m + i - 1]
    <3> HIDE DEF m, k
    <3>1. m \in Nat \ {0} /\ k \in Nat /\ k <= Len(text)
      BY <2>1 DEF m, k
    <3>2. text \in Seq(Nat)
      BY <1>1
    <3> QED BY ONLY <3>1, <3>2, PartIs
  <2>3. /\ k = seen /\ (m <= k <=> li < seen) /\ k - m + 1 = seen - li
        /\ \A i \in 1 .. seen - li : m + i - 1 = li + i /\ li + i \in 1 .. seen
    BY <1>1
  <2> HIDE DEF m, k
  <2>4. /\ body = SubSeq(text, m, k)
        /\ \A i \in 1 .. seen - li : SubSeq(text, m, k)[i] = w[li + i]
    <3>1. body = SubSeq(text, m, k)
      BY DEF m, k
    <3>2. ASSUME NEW i \in 1 .. seen - li PROVE SubSeq(text, m, k)[i] = w[li + i]
      BY <2>2, <2>3, <1>1
    <3> QED BY <3>1, <3>2
  <2> HIDE DEF body
  <2> QED BY <2>2, <2>3, <2>4
<1>3. handed = IF body = << >> \/ Contains(body, Pad) THEN << >> ELSE <<FirstMessage(body)>>
  BY DEF Handed
<1> HIDE DEF body, handed
<1>4. w[1] = 0 /\ \A i \in 1 .. Len(w) : w[i] \in Nat /\ (i > 1 => w[i] > 0)
  <2>1. Len(w) \in Nat /\ 1 \in 1 .. Len(w)
    OBVIOUS
  <2>2. \A i \in 1 .. Len(w) : w[i] \in Nat
    BY ElementOfSeq
  <2>3. w[1] = 0 /\ \A i \in 1 .. Len(w) : 1 < i => w[1] < w[i]
    BY <2>1 DEF Stream, Pad
  <2>4. ASSUME NEW i \in 1 .. Len(w), i > 1 PROVE w[i] > 0
    <3>1. 1 < i
      BY <2>4, <2>1
    <3>2. w[1] < w[i] /\ w[i] \in Nat
      BY <3>1, <2>2, <2>3
    <3> QED BY <3>2, <2>3
  <2> QED BY <2>2, <2>3, <2>4
<1>5. CASE ~ (li < seen)
  BY <1>1, <1>2, <1>3, <1>5 DEF handed, text
<1>6. CASE li = 0
  <2>1. body[1] = 0 /\ 1 \in 1 .. Len(body)
    <3>1. 1 \in 1 .. seen - li /\ Len(body) = seen - li /\ li + 1 = 1
      BY <1>1, <1>2, <1>6
    <3>2. body[1] = w[li + 1]
      BY <1>2, <3>1
    <3> QED BY <3>1, <3>2, <1>4
  <2>2. Contains(body, Pad)
    BY <2>1 DEF Contains, Pad
  <2> QED BY <2>2, <1>3, <1>6 DEF handed, text
<1>7. CASE 0 < li /\ li < seen
  <2>1. Len(body) = seen - li /\ Len(body) > 0 /\ body # << >>
    BY <1>1, <1>2, <1>7
  <2>2. ~ Contains(body, Pad)
    <3>1. ASSUME NEW i \in 1 .. Len(body) PROVE body[i] # Pad
      <4>1. body[i] = w[li + i] /\ li + i \in 1 .. Len(w) /\ li + i > 1
        BY <3>1, <2>1, <1>2, <1>7
      <4> QED BY <4>1, <1>4 DEF Pad
    <3> QED BY <3>1 DEF Contains
  <2>3. handed = <<FirstMessage(body)>>
    BY <2>1, <2>2, <1>3
  <2>4. CASE Len(body) > 1 /\ IsHead(body[1])
    <3>1. li + 2 <= seen /\ body[2] = w[li + 2]
      <4>1. 2 \in 1 .. seen - li
        BY <2>1, <2>4, <1>1
      <4> QED BY <4>1, <1>1, <1>2
    <3>2. handed = <<w[li + 2] \div 2>>
      BY <3>1, <2>3, <2>4 DEF FirstMessage
    <3> QED BY <3>1, <3>2, <1>7 DEF handed, text
  <2>5. CASE ~ (Len(body) > 1 /\ IsHead(body[1]))
    <3>1. handed = <<Garbled>>
      BY <2>3, <2>5 DEF FirstMessage
    <3>2. ~ (li + 2 = seen /\ IsHead(w[li + 1]))
      <4>1. 1 \in 1 .. seen - li
        BY <1>1, <1>7
      <4>2. body[1] = w[li + 1]
        BY <4>1, <1>2
      <4> QED BY <4>2, <2>1, <2>5, <1>1
    <3> QED BY <3>1, <3>2 DEF handed, text
  <2> QED BY <2>4, <2>5
<1> QED BY <1>1, <1>5, <1>6, <1>7 DEF handed, text

\* A page that has subscribed once has one connection that goes on.
LEMMA OnlyOne ==
  ASSUME IInv, calls.subscribe <= 1, NEW c \in 1 .. Len(ajax), NEW d \in 1 .. Len(ajax),
         GoesOn(request, ajax, timer, c), GoesOn(request, ajax, timer, d)
  PROVE  c = d
<1>1. PICK chain, place : Good(request, ajax, timer, calls.subscribe, chain, place)
  BY DEF IInv, ChainInv
<1>2. Asks(request, ajax, c) /\ Asks(request, ajax, d)
  BY <1>1 DEF Good, Watched, GoesOn, Listens
<1>3. calls.subscribe \in Nat
  BY Connections
<1>4. /\ chain[ajax[c].request] \in 1 .. calls.subscribe
      /\ chain[ajax[d].request] \in 1 .. calls.subscribe
  BY <1>1, <1>2 DEF Good, Chained
<1>5. chain[ajax[c].request] = chain[ajax[d].request]
  BY <1>3, <1>4
<1> QED BY <1>1, <1>2, <1>5 DEF Good, Chained

\* A text that is not empty is on a connection that goes on.
LEMMA TextGoesOn ==
  ASSUME ClientInv, NEW c \in 1 .. Len(ajax), ajax[c].written # << >>
  PROVE  /\ ajax[c].state = "open" /\ Suspends(c) /\ GoesOn(request, ajax, timer, c)
         /\ Stream(ajax[c].written, pushed)
         /\ Options(c).transport = "streaming" /\ ajax[c].seen > 0
              => Options(c).lastIndex = ajax[c].seen
BY DEF ClientInv, Reading, Fresh, GoesOn, Listens, Asks, Suspends, Options, Alive

\* What a chunk changes.
LEMMA ChunkFacts ==
  ASSUME ClientInv, NEW c \in 1 .. Len(ajax), NEW seen \in Nat, Chunk(c, seen)
  PROVE  /\ ajax[c].written # << >> /\ seen \in 1 .. Len(ajax[c].written)
         /\ seen > ajax[c].seen
         /\ Len(ajax') = Len(ajax) /\ Len(request') = Len(request)
         /\ ajax'[c].seen = seen
         /\ \A d \in 1 .. Len(ajax) :
              /\ d # c => ajax'[d] = ajax[d]
              /\ ajax'[d].request = ajax[d].request /\ ajax'[d].state = ajax[d].state
              /\ ajax'[d].written = ajax[d].written
              /\ ajax'[d].request \in 1 .. Len(request)
         /\ \A q \in 1 .. Len(request) :
              /\ q # ajax[c].request => request'[q] = request[q]
              /\ request'[q].transport = request[q].transport
              /\ request'[q].suspend = request[q].suspend
              /\ request'[q].id = request[q].id
              /\ request'[q].requestCount = request[q].requestCount
         /\ Options(c).transport = "streaming" =>
              request'[ajax[c].request].lastIndex = seen
<1> DEFINE r == ajax[c].request
           index == IF Options(c).transport = "streaming" THEN seen ELSE request[r].lastIndex
           options == [request[r] EXCEPT !.lastIndex = index]
           new == [ajax[c] EXCEPT !.seen = seen]
<1>1. /\ request \in Seq(RequestObject) /\ ajax \in Seq(XMLHttpRequest)
      /\ r \in 1 .. Len(request) /\ ajax[c] \in XMLHttpRequest
      /\ ajax[c].seen \in Nat /\ Len(ajax[c].written) \in Nat
      /\ \A d \in 1 .. Len(ajax) : ajax[d].request \in 1 .. Len(request)
  BY Connections DEF ClientInv
<1>2. request' = [request EXCEPT ![r] = options] /\ ajax' = [ajax EXCEPT ![c] = new]
  BY DEF Chunk
<1>3. /\ seen \in ajax[c].seen + 1 .. Len(ajax[c].written)
  BY DEF Chunk, Arrives
<1>4. request[r] \in RequestObject
  BY <1>1, ObjectFields
<1>5. /\ options \in RequestObject /\ options.suspend = request[r].suspend
      /\ options.transport = request[r].transport
      /\ options.id = request[r].id /\ options.requestCount = request[r].requestCount
      /\ options.lastIndex = index
  <2>1. index \in Nat
    BY <1>4 DEF RequestObject
  <2> HIDE DEF index
  <2> QED BY <1>4, <2>1 DEF RequestObject
<1>6. /\ new \in XMLHttpRequest /\ new.request = r /\ new.state = ajax[c].state
      /\ new.written = ajax[c].written /\ new.seen = seen
  BY <1>1 DEF XMLHttpRequest
<1>7. Options(c).transport = "streaming" => index = seen
  OBVIOUS
<1> HIDE DEF options, new, index
<1>8. /\ Len(request') = Len(request) /\ request'[r] = options
      /\ \A q \in 1 .. Len(request) : q # r => request'[q] = request[q]
  BY <1>1, <1>2, <1>5, ExceptSeq
<1>9. /\ Len(ajax') = Len(ajax) /\ ajax'[c] = new
      /\ \A d \in 1 .. Len(ajax) : d # c => ajax'[d] = ajax[d]
  BY <1>1, <1>2, <1>6, ExceptSeq
<1>10. ajax[c].written # << >> /\ seen \in 1 .. Len(ajax[c].written) /\ seen > ajax[c].seen
  BY <1>1, <1>3
<1>11. \A d \in 1 .. Len(ajax) :
         /\ ajax'[d].request = ajax[d].request /\ ajax'[d].state = ajax[d].state
         /\ ajax'[d].written = ajax[d].written
         /\ ajax'[d].request \in 1 .. Len(request)
  BY <1>1, <1>6, <1>9
<1>12. \A q \in 1 .. Len(request) :
         /\ request'[q].transport = request[q].transport
         /\ request'[q].suspend = request[q].suspend
         /\ request'[q].id = request[q].id
         /\ request'[q].requestCount = request[q].requestCount
  BY <1>5, <1>8
<1> QED BY <1>5, <1>6, <1>7, <1>8, <1>9, <1>10, <1>11, <1>12

LEMMA ChunkReads ==
  ASSUME ClientInv, NEW c \in 1 .. Len(ajax), NEW seen \in Nat, Chunk(c, seen)
  PROVE  Typed' /\ Reading'
<1>1. IInv /\ Typed /\ UNCHANGED <<current, timer, calls, pushed>>
  BY DEF ClientInv, Chunk
<1>2. Typed'
  <2>1. \A q \in 1 .. Len(request) : Possible(request'[q])
    BY ChunkFacts, <1>1 DEF Typed, Possible
  <2>2. current' \in 0 .. Len(request)
    BY <1>1 DEF Typed
  <2> QED BY <1>1, <2>1, <2>2, ChunkFacts, KeepTypes
<1>3. ASSUME NEW d \in 1 .. Len(ajax)
      PROVE  /\ Suspends(d)' <=> Suspends(d)
             /\ Options(d)'.transport = Options(d).transport
  BY ChunkFacts DEF Suspends, Options
<1>4. ASSUME NEW d \in 1 .. Len(ajax), d # c, ajax[d].written # << >>
      PROVE  Options(d)'.lastIndex = Options(d).lastIndex
  <2>1. ajax[d].request # ajax[c].request
    BY <1>1, <1>4, ChunkFacts, TextGoesOn, OneOfAnObject
  <2> QED BY <1>4, <2>1, ChunkFacts DEF Options
<1>5. ASSUME NEW d \in 1 .. Len(ajax)
      PROVE  \/ Fresh(ajax'[d])
             \/ /\ ajax'[d].state = "open" /\ ~ Suspends(d)'
                /\ ajax'[d].written = << >> /\ ajax'[d].seen = 0
             \/ /\ ajax'[d].state = "open" /\ Suspends(d)'
                /\ Stream(ajax'[d].written, pushed')
                /\ Options(d)'.transport = "streaming" /\ ajax'[d].seen > 0
                     => Options(d)'.lastIndex = ajax'[d].seen
  <2>1. CASE d = c
    <3>1. ajax[c].state = "open" /\ Suspends(c) /\ Stream(ajax[c].written, pushed)
      BY ChunkFacts, TextGoesOn
    <3>2. Options(c).transport = "streaming" => Options(c)'.lastIndex = seen
      BY ChunkFacts DEF Options
    <3> QED BY <2>1, <3>1, <3>2, <1>1, <1>3, ChunkFacts
  <2>2. CASE d # c /\ ajax[d].written = << >>
    <3>1. ajax'[d] = ajax[d]
      BY <2>2, ChunkFacts
    <3>2. ~ Stream(ajax[d].written, pushed)
      BY <2>2 DEF Stream
    <3> QED BY <2>2, <3>1, <3>2, <1>3 DEF ClientInv, Reading
  <2>3. CASE d # c /\ ajax[d].written # << >>
    <3>1. ajax'[d] = ajax[d]
      BY <2>3, ChunkFacts
    <3> QED BY <2>3, <3>1, <1>1, <1>3, <1>4, TextGoesOn
  <2> QED BY <2>1, <2>2, <2>3
<1>6. Reading'
  BY <1>5, ChunkFacts DEF Reading
<1> QED BY <1>2, <1>6

\* The callbacks get the first message of what is new, which is above all that
\* they got before.
LEMMA ChunkOrders ==
  ASSUME ClientInv, NEW c \in 1 .. Len(ajax), NEW seen \in Nat, Chunk(c, seen)
  PROVE  Ordered'
<1> DEFINE w == ajax[c].written
           li == Options(c).lastIndex
           handed == Handed("streaming", SubSeq(w, 1, seen), li)
<1>1. /\ IInv /\ Typed /\ Ordered /\ UNCHANGED <<current, timer, calls, pushed>>
      /\ w \in Seq(Nat) /\ li \in Nat /\ ajax[c].seen \in Nat /\ pushed \in Nat
      /\ Options(c) = request[ajax[c].request] /\ ajax[c].request \in 1 .. Len(request)
      /\ Len(w) \in Nat
  BY Connections DEF ClientInv, Chunk
<1>2. /\ w # << >> /\ seen \in 1 .. Len(w) /\ seen > ajax[c].seen
      /\ ajax[c].state = "open" /\ Suspends(c) /\ GoesOn(request, ajax, timer, c)
      /\ Stream(w, pushed)
      /\ Options(c).transport = "streaming" /\ ajax[c].seen > 0 => li = ajax[c].seen
  BY ChunkFacts, TextGoesOn
<1> SUFFICES ASSUME OneStream'
             PROVE  /\ heard' \in Seq(Nat)
                    /\ \A i, j \in 1 .. Len(heard') :
                         i < j /\ Garbled \notin {heard'[i], heard'[j]} => heard'[i] < heard'[j]
                    /\ \A i \in 1 .. Len(heard') : heard'[i] <= pushed'
                    /\ \A d \in 1 .. Len(ajax') :
                         \A i \in 1 .. Len(heard'), k \in 2 .. Len(ajax'[d].written) :
                           k > ajax'[d].seen => 2 * heard'[i] < ajax'[d].written[k]
  BY DEF Ordered
<1>3. OneStream
  BY <1>1, ChunkFacts DEF OneStream
<1>4. Options(c).transport = "streaming" /\ ajax[c].seen <= li
  <2>1. Options(c).transport = "streaming"
    <3>1. Possible(Options(c)) /\ Options(c).suspend /\ Options(c).transport # "long-polling"
      BY <1>1, <1>2, <1>3 DEF Typed, OneStream, Suspends
    <3> QED BY <3>1, ClientAssumption DEF Possible
  <2> QED BY <2>1, <1>1, <1>2
<1>5. heard' = heard \o handed
  BY <1>4 DEF Chunk
<1>6. /\ heard \in Seq(Nat)
      /\ \A i \in 1 .. Len(heard) : heard[i] \in Nat /\ heard[i] <= pushed
      /\ \A i, j \in 1 .. Len(heard) :
           i < j /\ Garbled \notin {heard[i], heard[j]} => heard[i] < heard[j]
      /\ \A i \in 1 .. Len(heard), k \in 2 .. Len(w) :
           k > ajax[c].seen => 2 * heard[i] < w[k]
  <2>1. heard \in Seq(Nat)
    BY <1>1, <1>3 DEF Ordered
  <2>2. \A i \in 1 .. Len(heard) : heard[i] \in Nat
    BY <2>1, ElementOfSeq
  <2>3. \A i \in 1 .. Len(heard), k \in 2 .. Len(w) :
          k > ajax[c].seen => 2 * heard[i] < w[k]
    BY <1>1, <1>3 DEF Ordered
  <2>4. /\ \A i \in 1 .. Len(heard) : heard[i] <= pushed
        /\ \A i, j \in 1 .. Len(heard) :
             i < j /\ Garbled \notin {heard[i], heard[j]} => heard[i] < heard[j]
    BY <1>1, <1>3 DEF Ordered
  <2> HIDE DEF w
  <2> QED BY <2>1, <2>2, <2>3, <2>4
<1>7. /\ \A k \in 1 .. Len(w) : w[k] \in Nat /\ w[k] <= 2 * pushed
      /\ w[1] = 0 /\ 1 \in 1 .. Len(w)
      /\ \A k, l \in 1 .. Len(w) : k < l => w[k] < w[l]
  <2>1. /\ w # << >> /\ w[1] = 0
        /\ \A k \in 1 .. Len(w) : w[k] <= 2 * pushed
        /\ \A k, l \in 1 .. Len(w) : k < l => w[k] < w[l]
    BY <1>2 DEF Stream, Pad
  <2>2. w \in Seq(Nat)
    BY <1>1
  <2> HIDE DEF w
  <2>3. \A k \in 1 .. Len(w) : w[k] \in Nat
    BY <2>2, ElementOfSeq
  <2>4. 1 \in 1 .. Len(w)
    BY <2>1, <2>2, EmptySeq, LenProperties
  <2> QED BY <2>1, <2>3, <2>4
<1>8. \A d \in 1 .. Len(ajax) : d # c => ajax[d].written = << >>
  BY <1>1, <1>2, <1>3, OnlyOne, TextGoesOn DEF OneStream
<1>9. \/ handed = << >>
      \/ \E m \in Nat :
           /\ handed = <<m>> /\ m <= pushed
           /\ m # Garbled => \A i \in 1 .. Len(heard) : heard[i] < m
           /\ \A k \in 2 .. Len(w) : k > seen => 2 * m < w[k]
  <2>1. CASE handed = <<Garbled>>
    <3>1. \A k \in 2 .. Len(w) : 0 < w[k]
      <4> TAKE k \in 2 .. Len(w)
      <4>1. k \in 1 .. Len(w) /\ 1 < k
        BY <1>1
      <4> QED BY <4>1, <1>7
    <3>2. 0 <= pushed /\ 2 * 0 = 0
      BY <1>1
    <3>3. handed = <<0>>
      BY <2>1 DEF Garbled
    <3>4. \A k \in 2 .. Len(w) : k > seen => 2 * 0 < w[k]
      BY <3>1, <3>2
    <3> HIDE DEF handed, w
    <3> QED BY <3>2, <3>3, <3>4 DEF Garbled
  <2>2. CASE 0 < li /\ li + 2 <= seen /\ handed = <<w[li + 2] \div 2>>
    <3>1. /\ li + 1 \in 2 .. Len(w) /\ li + 1 \in 1 .. Len(w) /\ li + 2 \in 1 .. Len(w)
          /\ li + 1 > ajax[c].seen /\ li + 1 < li + 2
      <4>1. /\ li \in Nat /\ Len(w) \in Nat /\ seen \in 1 .. Len(w)
            /\ 0 < li /\ li + 2 <= seen /\ ajax[c].seen \in Nat /\ ajax[c].seen <= li
        BY <2>2, <1>1, <1>2, <1>4
      <4> HIDE DEF li, w
      <4> QED BY <4>1
    <3> DEFINE a == w[li + 1]
               b == w[li + 2]
               m == b \div 2
    <3>2. a \in Nat /\ b \in Nat /\ a < b /\ b <= 2 * pushed
      <4> HIDE DEF li, w
      <4> QED BY <3>1, <1>7
    <3>3. m \in Nat /\ 2 * m <= b /\ b < 2 * m + 2
      <4> HIDE DEF b
      <4> QED BY <3>2
    <3>4. m <= pushed
      <4> HIDE DEF b, m
      <4> QED BY <3>2, <3>3, <1>1
    <3>5. ASSUME NEW i \in 1 .. Len(heard) PROVE heard[i] < m
      <4>1. 2 * heard[i] < a /\ heard[i] \in Nat
        BY <3>1, <1>6
      <4> HIDE DEF a, b, m
      <4> QED BY <4>1, <3>2, <3>3
    <3>6. ASSUME NEW k \in 2 .. Len(w), k > seen PROVE 2 * m < w[k]
      <4>1. k \in 1 .. Len(w) /\ li + 2 < k
        BY <3>6, <2>2, <1>1, <1>2
      <4>2. b < w[k] /\ w[k] \in Nat
        BY <4>1, <3>1, <1>7
      <4> HIDE DEF b, m
      <4> QED BY <4>2, <3>2, <3>3
    <3>7. handed = <<m>>
      BY <2>2
    <3> HIDE DEF m, handed
    <3> QED BY <3>3, <3>4, <3>5, <3>6, <3>7
  <2> QED BY <2>1, <2>2, <1>1, <1>2, HandedIs
<1>10. \A d \in 1 .. Len(ajax') :
         \A i \in 1 .. Len(heard), k \in 2 .. Len(ajax'[d].written) :
           k > ajax'[d].seen => 2 * heard[i] < ajax'[d].written[k]
  <2> TAKE d \in 1 .. Len(ajax')
  <2> TAKE i \in 1 .. Len(heard), k \in 2 .. Len(ajax'[d].written)
  <2>1. d \in 1 .. Len(ajax) /\ ajax'[d].written = ajax[d].written
    BY ChunkFacts
  <2>2. CASE d = c
    BY <2>1, <2>2, <1>1, <1>2, <1>6, ChunkFacts
  <2>3. CASE d # c
    BY <2>1, <2>3, <1>8
  <2> QED BY <2>2, <2>3
<1> HIDE DEF handed
<1>11. CASE handed = << >>
  <2>1. heard' = heard
    BY <1>5, <1>6, <1>11
  <2> QED BY <2>1, <1>1, <1>6, <1>10
<1>12. CASE handed # << >>
  <2>1. PICK m \in Nat :
           /\ handed = <<m>> /\ m <= pushed
           /\ m # Garbled => \A i \in 1 .. Len(heard) : heard[i] < m
           /\ \A k \in 2 .. Len(w) : k > seen => 2 * m < w[k]
    BY <1>9, <1>12
  <2>2. heard' = Append(heard, m)
    BY <2>1, <1>5, <1>6
  <2> DEFINE l == Len(heard)
  <2>3. /\ heard' \in Seq(Nat) /\ Len(heard') = l + 1 /\ heard'[l + 1] = m
        /\ \A i \in 1 .. l : heard'[i] = heard[i]
    BY <2>2, <1>6, AppendProperties
  <2>4. l \in Nat /\ \A i \in 1 .. l + 1 : i \in 1 .. l \/ i = l + 1
    BY <1>6
  <2> HIDE DEF l, w
  <2>5. ASSUME NEW i \in 1 .. l + 1, NEW j \in 1 .. l + 1, i < j,
               Garbled \notin {heard'[i], heard'[j]}
        PROVE  heard'[i] < heard'[j]
    <3>1. i \in 1 .. l
      BY <2>4, <2>5
    <3>2. CASE j \in 1 .. l
      BY <3>1, <3>2, <2>3, <2>5, <1>6 DEF l
    <3>3. CASE j = l + 1
      <4>1. heard'[i] = heard[i] /\ heard'[j] = m /\ i \in 1 .. Len(heard)
        BY <3>1, <3>3, <2>3 DEF l
      <4>2. m # Garbled
        BY <4>1, <2>5
      <4> QED BY <4>1, <4>2, <2>1
    <3> QED BY <3>2, <3>3, <2>4
  <2>6. \A i \in 1 .. l + 1 : heard'[i] <= pushed
    BY <2>1, <2>3, <2>4, <1>6 DEF l
  <2>7. ASSUME NEW d \in 1 .. Len(ajax'), NEW i \in 1 .. l + 1,
               NEW k \in 2 .. Len(ajax'[d].written), k > ajax'[d].seen
        PROVE  2 * heard'[i] < ajax'[d].written[k]
    <3>1. CASE i \in 1 .. l
      BY <3>1, <2>3, <2>7, <1>10 DEF l
    <3>2. CASE i = l + 1
      <4>1. d \in 1 .. Len(ajax) /\ ajax'[d].written = ajax[d].written
        BY ChunkFacts
      <4>2. d = c
        BY <4>1, <2>7, <1>8
      <4>3. ajax'[d].seen = seen /\ ajax'[d].written = w
        BY <4>1, <4>2, ChunkFacts DEF w
      <4>4. 2 * m < w[k]
        BY <4>3, <2>1, <2>7
      <4> QED BY <3>2, <4>3, <4>4, <2>3
    <3> QED BY <3>1, <3>2, <2>4
  <2>8. pushed' = pushed
    BY <1>1
  <2> QED BY <2>3, <2>5, <2>6, <2>7, <2>8
<1> QED BY <1>11, <1>12

---------------------------------------------------------------------------
(* The client's invariant, and what follows.                               *)

LEMMA ClientInitially == PageInit => ClientInv
<1> SUFFICES ASSUME PageInit PROVE ClientInv
  OBVIOUS
<1>1. /\ request = << >> /\ ajax = << >> /\ heard = << >> /\ current = 0
      /\ Len(request) = 0 /\ Len(ajax) = 0 /\ Len(heard) = 0 /\ 1 .. 0 = {}
  BY DEF PageInit, Init, None
<1>2. Typed
  BY <1>1 DEF Typed, Remembered, Going
<1>3. Reading
  BY <1>1 DEF Reading
<1>4. Ordered
  <2>1. << >> \in Seq(Nat)
    BY EmptySeq
  <2> QED BY <1>1, <2>1 DEF Ordered
<1> QED BY <1>2, <1>3, <1>4, InitInv DEF ClientInv

\* What an action on connections and objects does: it makes, closes and copies,
\* or it is one of the three that change texts.
LEMMA ClientActions ==
  ASSUME ClientInv, ClientNext
  PROVE  \/ /\ Typed' /\ Shape /\ heard' = heard /\ pushed' = pushed
            /\ calls'.subscribe \in Nat /\ calls.subscribe <= calls'.subscribe
         \/ Broadcast
         \/ \E c \in 1 .. Len(ajax) :
              \/ Headers(c) \/ Refuse(c)
              \/ \E seen \in Nat : Chunk(c, seen)
<1>1. /\ IInv /\ Typed /\ DOMAIN ajax = 1 .. Len(ajax)
      /\ calls \in [subscribe : Nat, publish : Nat] /\ calls.subscribe \in Nat
  BY Connections DEF ClientInv
<1>2. calls.subscribe + 1 \in Nat /\ calls.subscribe <= calls.subscribe + 1
      /\ calls.subscribe <= calls.subscribe
  BY <1>1
<1>3. ASSUME NEW transport \in Transport, Subscribe(transport)
      PROVE  /\ Typed' /\ Shape /\ heard' = heard /\ pushed' = pushed
             /\ calls'.subscribe \in Nat /\ calls.subscribe <= calls'.subscribe
  BY <1>1, <1>2, <1>3, SubscribeQuiet DEF Subscribe
<1>4. ASSUME Publish
      PROVE  /\ Typed' /\ Shape /\ heard' = heard /\ pushed' = pushed
             /\ calls'.subscribe \in Nat /\ calls.subscribe <= calls'.subscribe
  BY <1>1, <1>2, <1>4, PublishQuiet DEF Publish
<1>5. ASSUME NEW c \in 1 .. Len(ajax), End(c) \/ Fail(c) \/ Timeout(c)
      PROVE  /\ Typed' /\ Shape /\ heard' = heard /\ pushed' = pushed
             /\ calls'.subscribe \in Nat /\ calls.subscribe <= calls'.subscribe
  <2>1. heard' = heard /\ pushed' = pushed /\ calls' = calls
    BY <1>5 DEF End, Fail, Timeout
  <2> QED BY <2>1, <1>1, <1>2, <1>5, EndQuiet, FailQuiet, TimeoutQuiet
<1>6. MaxMessage \in Nat /\ \A seen \in 1 .. 1 + 2 * MaxMessage : seen \in Nat
  BY ClientAssumption
<1> QED BY <1>1, <1>3, <1>4, <1>5, <1>6 DEF ClientNext, Page, Response

LEMMA ClientStep == ClientInv /\ [Next]_vars => ClientInv'
<1> SUFFICES ASSUME ClientInv, [Next]_vars PROVE ClientInv'
  OBVIOUS
<1>1. IInv'
  BY StepInv DEF ClientInv
<1>2. CASE ClientNext
  <2>1. ASSUME NEW c \in 1 .. Len(ajax), NEW seen \in Nat, Chunk(c, seen)
        PROVE  Typed' /\ Reading' /\ Ordered'
    BY <2>1, ChunkReads, ChunkOrders
  <2>2. Typed' /\ Reading' /\ Ordered'
    BY <1>2, <2>1, ClientActions, QuietKeeps, BroadcastReads, HeadersRead, RefuseKeeps
  <2> QED BY <1>1, <2>2 DEF ClientInv
<1>3. CASE UNCHANGED clientVars
  <2>1. Typed'
    BY <1>3 DEF ClientInv, clientVars, Typed
  <2>2. \A c \in 1 .. Len(ajax) : (Suspends(c)' <=> Suspends(c)) /\ Options(c)' = Options(c)
    BY <1>3 DEF clientVars, Suspends, Options
  <2>3. Reading'
    BY <1>3, <2>2 DEF ClientInv, clientVars, Reading
  <2>4. Ordered'
    BY <1>3 DEF ClientInv, clientVars, Ordered, OneStream
  <2> QED BY <1>1, <2>1, <2>3, <2>4 DEF ClientInv
<1> QED BY <1>2, <1>3 DEF Next, vars, clientVars

LEMMA ClientAlways == Spec => []ClientInv
<1>1. PageInit => ClientInv
  BY ClientInitially
<1>2. ClientInv /\ [Next]_vars => ClientInv'
  BY ClientStep
<1> QED BY <1>1, <1>2, PTL DEF Spec

LEMMA ClientTypes == ClientInv => ClientTypeOK
<1> SUFFICES ASSUME ClientInv PROVE ClientTypeOK
  OBVIOUS
<1>1. /\ DOMAIN ajax = 1 .. Len(ajax) /\ DOMAIN request = 1 .. Len(request)
      /\ ajax \in Seq(XMLHttpRequest) /\ Len(ajax) \in Nat /\ Len(request) \in Nat
      /\ IInv /\ Typed
  BY Connections DEF ClientInv
<1>2. ASSUME NEW r \in DOMAIN request
      PROVE  /\ request[r].transport \in Transport \cup {"polling"}
             /\ request[r].requestCount \in 1 .. MaxRequest + 1
             /\ request[r].suspend <=> request[r].transport # "polling"
             /\ request[r].id # None => Suspends(request[r].id)
  BY <1>1, <1>2 DEF Typed, Possible, Remembered, Asks, Suspends, Options
<1>3. timer \subseteq {c \in DOMAIN ajax : Suspends(c)}
  BY <1>1 DEF IInv, ChainInv, Good, Sane, Watched, Asks, Suspends, Options
<1>4. /\ {current, activeRequest} \subseteq Nat
      /\ current \in DOMAIN request \cup {None} /\ activeRequest \in DOMAIN ajax \cup {None}
  BY <1>1 DEF Typed, IInv, Others, None
<1> QED BY <1>1, <1>2, <1>3, <1>4 DEF ClientTypeOK

LEMMA HeardStep ==
  ASSUME ClientInv, [Next]_vars, NEW c \in DOMAIN ajax,
         ajax[c].state = "open", ajax[c].seen > 0, Options(c).transport = "streaming",
         ajax'[c].seen = ajax[c].seen + 2,
         IsHead(ajax[c].written[ajax[c].seen + 1])
  PROVE  heard' = Append(heard, ajax[c].written[ajax'[c].seen] \div 2)
<1>1. /\ c \in 1 .. Len(ajax) /\ ajax[c].seen \in Nat /\ Len(ajax) \in Nat
      /\ DOMAIN ajax = 1 .. Len(ajax) /\ ajax \in Seq(XMLHttpRequest)
      /\ ajax[c].written \in Seq(Nat) /\ pushed \in Nat
  BY Connections DEF ClientInv
<1>2. ajax'[c].seen # ajax[c].seen /\ ajax'[c].seen # 0
  BY <1>1
<1>3. ClientNext
  BY <1>2 DEF Next, vars, clientVars
<1>4. ~ Shape
  <2>1. ASSUME Shape PROVE FALSE
    <3>1. c \in 1 .. Len(ajax')
      <4>1. Len(ajax) <= Len(ajax')
        BY <2>1 DEF Shape
      <4>2. Len(ajax') \in Nat
        BY ClientStep DEF ClientInv, IInv, ChainInv, Good, Sane
      <4> QED BY <4>1, <4>2, <1>1
    <3> QED BY <3>1, <2>1, <1>1, <1>2 DEF Shape, Fresh
  <2> QED BY <2>1
<1>5. ~ Broadcast
  <2>1. ASSUME Broadcast PROVE FALSE
    <3>1. ajax'[c].seen = ajax[c].seen
      <4>1. ajax[c] \in XMLHttpRequest
        BY <1>1
      <4> QED BY <4>1, <2>1 DEF Broadcast, XMLHttpRequest
    <3> QED BY <3>1, <1>2
  <2> QED BY <2>1
<1>6. ASSUME NEW d \in 1 .. Len(ajax), Headers(d) \/ Refuse(d) PROVE FALSE
  <2>1. d # c
    BY <1>6 DEF Headers, Refuse
  <2>2. ajax'[c] = ajax[c]
    <3> DEFINE text == IF Suspends(d) THEN <<Pad>> ELSE << >>
    <3>1. \/ ajax' = [ajax EXCEPT ![d].state = "open", ![d].written = text]
          \/ ajax' = [ajax EXCEPT ![d].state = "refused"]
      BY <1>6 DEF Headers, Refuse
    <3> HIDE DEF text
    <3> QED BY <3>1, <2>1, <1>1
  <2> QED BY <2>2, <1>2
<1>7. PICK d \in 1 .. Len(ajax), seen \in Nat : Chunk(d, seen)
  BY <1>3, <1>4, <1>5, <1>6, ClientActions
<1>8. d = c
  BY <1>1, <1>2, <1>7, ChunkFacts
<1> DEFINE w == ajax[c].written
           li == Options(c).lastIndex
           handed == Handed("streaming", SubSeq(w, 1, seen), li)
<1>9. /\ seen = ajax[c].seen + 2 /\ seen \in 1 .. Len(w) /\ Stream(w, pushed)
      /\ li = ajax[c].seen
  BY <1>1, <1>7, <1>8, ChunkFacts, TextGoesOn
<1>10. heard' = heard \o handed
  BY <1>7, <1>8 DEF Chunk
<1>11. handed = <<w[seen] \div 2>>
  <2>1. 0 < li /\ li + 2 = seen /\ IsHead(w[li + 1]) /\ li \in Nat
    BY <1>1, <1>9
  <2> HIDE DEF li, w
  <2>2. w \in Seq(Nat)
    BY <1>1 DEF w
  <2> QED BY <2>1, <2>2, <1>1, <1>9, HandedIs
<1>12. heard \o <<w[seen] \div 2>> = Append(heard, w[seen] \div 2)
  OBVIOUS
<1>13. ajax'[c].seen = seen
  BY <1>9
<1> HIDE DEF handed, w
<1> QED BY <1>10, <1>11, <1>12, <1>13 DEF w

\* jquery.atmosphere.js, lines 201-221: a page that has subscribed once, for a
\* stream, hands its callbacks no message twice and none after a later one,
\* whatever is cut, merged, refused, timed out or made again.
THEOREM OrderTheorem == Spec => []HeardInOrder
<1>1. ClientInv => HeardInOrder
  <2> SUFFICES ASSUME ClientInv, calls.subscribe <= 1,
                      \A r \in DOMAIN request : request[r].transport # "long-polling"
               PROVE  \A i, j \in DOMAIN heard :
                        i < j /\ Garbled \notin {heard[i], heard[j]} => heard[i] < heard[j]
    BY DEF HeardInOrder
  <2>1. OneStream
    BY Connections DEF ClientInv, OneStream
  <2>2. DOMAIN heard = 1 .. Len(heard)
    BY <2>1 DEF ClientInv, Ordered
  <2> QED BY <2>1, <2>2 DEF ClientInv, Ordered
<1> QED BY <1>1, ClientAlways, PTL

\* jquery.atmosphere.js, lines 206-214: a message that arrives in a chunk of its
\* own, which is not the first of its response, is handed on at once, for any
\* number of subscriptions and of streams beside this one.
THEOREM HeardTheorem == Spec => NothingUnheard
<1>1. ClientInv /\ [Next]_vars =>
        [\A c \in DOMAIN ajax :
           /\ ajax[c].state = "open" /\ ajax[c].seen > 0 /\ Options(c).transport = "streaming"
           /\ ajax'[c].seen = ajax[c].seen + 2
           /\ IsHead(ajax[c].written[ajax[c].seen + 1])
           => heard' = Append(heard, ajax[c].written[ajax'[c].seen] \div 2)]_clientVars
  BY HeardStep
<1> QED BY <1>1, ClientAlways, PTL DEF Spec, NothingUnheard

---------------------------------------------------------------------------
(* The chart: the bounds of its points.                                    *)

\* What lo and hi, the bounds of the first n points, are: those of the values
\* after the last that was not a number, and a String only right after such a
\* one.
Scale(points, n, lo, hi) ==
  /\ lo \in Value /\ hi \in Value
  /\ IF n = 0 \/ IsNaN(points[n].value)
       THEN lo = NaN /\ hi = NaN
       ELSE /\ ~ IsNaN(lo) /\ ~ IsNaN(hi)
            /\ \A i \in 1 .. n :
                 (\A k \in i .. n : ~ IsNaN(points[k].value))
                   => lo.n <= points[i].value.n /\ points[i].value.n <= hi.n
            /\ lo.string => n = 1 \/ IsNaN(points[n - 1].value)

ChartInv == ChartTypeOK /\ Scale(data, Len(data), minValue, maxValue)

\* What a value is.
LEMMA ValueIs ==
  /\ NaN \in Value /\ IsNaN(NaN) /\ ~ NaN.string
  /\ \A v \in Value : /\ v.n \in Int /\ v.string \in BOOLEAN
                      /\ IsNaN(v) => v = NaN
                      /\ ~ IsNaN(v) => v.n \in Number /\ v.n \in Nat
  /\ \A n \in Number : /\ AsNumber(n) \in Value /\ AsNumber(n).n = n /\ ~ AsNumber(n).string
                       /\ AsString(n) \in Value /\ AsString(n).n = n
                       /\ ~ IsNaN(AsNumber(n)) /\ ~ IsNaN(AsString(n))
<1>1. NaN \in Value /\ NaN.n = -1 /\ NaN.string = FALSE
  BY DEF Value, NaN
<1>2. ASSUME NEW v \in Value
      PROVE  v = NaN \/ (v.n \in Number /\ v.n \in Nat /\ v.string \in BOOLEAN)
  BY ChartAssumption DEF Value
<1>3. \A v \in Value : /\ v.n \in Int /\ v.string \in BOOLEAN
                       /\ IsNaN(v) => v = NaN
                       /\ ~ IsNaN(v) => v.n \in Number /\ v.n \in Nat
  <2> TAKE v \in Value
  <2>1. CASE v = NaN
    <3>1. v.n \in Int
      BY <1>1, <2>1
    <3>2. v.string \in BOOLEAN
      BY <1>1, <2>1
    <3>3. IsNaN(v)
      BY <2>1 DEF IsNaN
    <3> QED BY <2>1, <3>1, <3>2, <3>3
  <2>2. CASE v.n \in Number /\ v.n \in Nat /\ v.string \in BOOLEAN
    <3>1. ~ IsNaN(v) /\ v.n \in Int
      BY <1>1, <2>2 DEF IsNaN
    <3> QED BY <2>2, <3>1
  <2> QED BY <1>2, <2>1, <2>2
<1>4. ASSUME NEW n \in Number
      PROVE  /\ AsNumber(n) \in Value /\ AsNumber(n).n = n /\ ~ AsNumber(n).string
             /\ AsString(n) \in Value /\ AsString(n).n = n
  BY DEF AsNumber, AsString, Value
<1>5. \A n \in Number : ~ IsNaN(AsNumber(n)) /\ ~ IsNaN(AsString(n))
  BY <1>1, <1>4, ChartAssumption DEF IsNaN
<1> QED BY <1>1, <1>3, <1>4, <1>5 DEF IsNaN

\* What a value does to a lower and to an upper bound.
LEMMA NarrowIs ==
  ASSUME NEW lo \in Value, NEW value \in Value
  PROVE  /\ Narrow(lo, value) \in Value
         /\ IsNaN(lo) => Narrow(lo, value) = value
         /\ IsNaN(value) => Narrow(lo, value) = NaN
         /\ ~ IsNaN(lo) /\ ~ IsNaN(value) =>
              /\ ~ IsNaN(Narrow(lo, value)) /\ ~ Narrow(lo, value).string
              /\ Narrow(lo, value).n <= lo.n /\ Narrow(lo, value).n <= value.n
<1>1. CASE IsNaN(lo)
  BY <1>1, ValueIs DEF Narrow
<1>2. CASE ~ IsNaN(lo) /\ IsNaN(value)
  BY <1>2, ValueIs DEF Narrow, MathMin
<1>3. CASE ~ IsNaN(lo) /\ ~ IsNaN(value)
  <2> DEFINE n == IF lo.n < value.n THEN lo.n ELSE value.n
  <2>1. n \in Number /\ n <= lo.n /\ n <= value.n
    <3>1. lo.n \in Nat /\ value.n \in Nat /\ lo.n \in Number /\ value.n \in Number
      BY <1>3, ValueIs
    <3> QED BY <3>1
  <2>2. Narrow(lo, value) = AsNumber(n)
    BY <1>3 DEF Narrow, MathMin
  <2> HIDE DEF n
  <2> QED BY <1>3, <2>1, <2>2, ValueIs
<1> QED BY <1>1, <1>2, <1>3

LEMMA WidenIs ==
  ASSUME NEW hi \in Value, NEW value \in Value
  PROVE  /\ Widen(hi, value) \in Value
         /\ IsNaN(hi) => Widen(hi, value) = value
         /\ IsNaN(value) => Widen(hi, value) = NaN
         /\ ~ IsNaN(hi) /\ ~ IsNaN(value) =>
              /\ ~ IsNaN(Widen(hi, value))
              /\ hi.n <= Widen(hi, value).n /\ value.n <= Widen(hi, value).n
<1>1. CASE IsNaN(hi)
  BY <1>1, ValueIs DEF Widen
<1>2. CASE ~ IsNaN(hi) /\ IsNaN(value)
  BY <1>2, ValueIs DEF Widen, MathMax
<1>3. CASE ~ IsNaN(hi) /\ ~ IsNaN(value)
  <2> DEFINE n == IF hi.n > value.n THEN hi.n ELSE value.n
  <2>1. n \in Number /\ hi.n <= n /\ value.n <= n
    <3>1. hi.n \in Nat /\ value.n \in Nat /\ hi.n \in Number /\ value.n \in Number
      BY <1>3, ValueIs
    <3> QED BY <3>1
  <2>2. Widen(hi, value) = AsNumber(n)
    BY <1>3 DEF Widen, MathMax
  <2> HIDE DEF n
  <2> QED BY <1>3, <2>1, <2>2, ValueIs
<1> QED BY <1>1, <1>2, <1>3

\* One more value, appended or met by the loop of resetBounds.
LEMMA ScaleGrows ==
  ASSUME NEW points, NEW n \in Nat, NEW lo, NEW hi, Scale(points, n, lo, hi),
         \A i \in 1 .. n + 1 : points[i].value \in Value
  PROVE  Scale(points, n + 1, Narrow(lo, points[n + 1].value),
               Widen(hi, points[n + 1].value))
<1> DEFINE value == points[n + 1].value
           low == Narrow(lo, value)
           high == Widen(hi, value)
<1>1. /\ n + 1 \in 1 .. n + 1 /\ n + 1 # 0 /\ n + 1 - 1 = n
      /\ \A i \in 1 .. n + 1 : i \in 1 .. n \/ i = n + 1
      /\ \A i \in 1 .. n : i \in 1 .. n + 1 /\ i .. n \subseteq i .. n + 1
      /\ \A i \in 1 .. n + 1 : n + 1 \in i .. n + 1
      /\ \A i \in 1 .. n : n \in i .. n + 1 /\ n \in 1 .. n
  OBVIOUS
<1>2. /\ value \in Value /\ lo \in Value /\ hi \in Value
      /\ \A i \in 1 .. n + 1 : points[i].value.n \in Int
  BY <1>1, ValueIs DEF Scale
<1>3. /\ low \in Value /\ high \in Value
      /\ IsNaN(lo) => low = value
      /\ IsNaN(hi) => high = value
      /\ IsNaN(value) => low = NaN /\ high = NaN
      /\ ~ IsNaN(lo) /\ ~ IsNaN(value) =>
           ~ IsNaN(low) /\ ~ low.string /\ low.n <= lo.n /\ low.n <= value.n
      /\ ~ IsNaN(hi) /\ ~ IsNaN(value) =>
           ~ IsNaN(high) /\ hi.n <= high.n /\ value.n <= high.n
  BY <1>2, NarrowIs, WidenIs
<1>4. /\ lo.n \in Int /\ hi.n \in Int /\ low.n \in Int /\ high.n \in Int /\ value.n \in Int
  BY <1>2, <1>3, ValueIs
<1> HIDE DEF low, high
<1>5. CASE IsNaN(value)
  BY <1>1, <1>3, <1>5 DEF Scale, low, high
<1>6. CASE ~ IsNaN(value) /\ (n = 0 \/ IsNaN(points[n].value))
  <2>1. low = value /\ high = value
    BY <1>3, <1>6, ValueIs DEF Scale
  <2>2. ASSUME NEW i \in 1 .. n + 1, \A k \in i .. n + 1 : ~ IsNaN(points[k].value)
        PROVE  low.n <= points[i].value.n /\ points[i].value.n <= high.n
    <3>1. i = n + 1
      BY <1>1, <1>6, <2>2
    <3> QED BY <2>1, <3>1, <1>4
  <2> QED BY <1>1, <1>2, <1>3, <1>6, <2>1, <2>2 DEF Scale, low, high
<1>7. CASE ~ IsNaN(value) /\ n # 0 /\ ~ IsNaN(points[n].value)
  <2>1. /\ ~ IsNaN(lo) /\ ~ IsNaN(hi)
        /\ \A i \in 1 .. n : (\A k \in i .. n : ~ IsNaN(points[k].value))
              => lo.n <= points[i].value.n /\ points[i].value.n <= hi.n
    BY <1>7 DEF Scale
  <2>2. ASSUME NEW i \in 1 .. n + 1, \A k \in i .. n + 1 : ~ IsNaN(points[k].value)
        PROVE  low.n <= points[i].value.n /\ points[i].value.n <= high.n
    <3>1. CASE i = n + 1
      BY <3>1, <2>1, <1>3, <1>7
    <3>2. CASE i \in 1 .. n
      <4>1. lo.n <= points[i].value.n /\ points[i].value.n <= hi.n
        BY <3>2, <2>1, <2>2, <1>1
      <4>2. low.n <= lo.n /\ hi.n <= high.n
        BY <2>1, <1>3, <1>7
      <4> QED BY <4>1, <4>2, <1>2, <1>4
    <3> QED BY <3>1, <3>2, <1>1
  <2>3. ~ IsNaN(low) /\ ~ IsNaN(high) /\ ~ low.string
    BY <2>1, <1>3, <1>7
  <2> QED BY <1>1, <1>3, <1>7, <2>2, <2>3 DEF Scale, low, high
<1> QED BY <1>5, <1>6, <1>7

\* The first points are the same.
LEMMA ScaleOfSame ==
  ASSUME NEW points, NEW more, NEW n \in Nat, NEW lo, NEW hi, Scale(points, n, lo, hi),
         \A i \in 1 .. n : more[i].value = points[i].value
  PROVE  Scale(more, n, lo, hi)
<1>1. n # 0 => n \in 1 .. n
  OBVIOUS
<1>2. n # 0 /\ n # 1 => n - 1 \in 1 .. n
  OBVIOUS
<1>3. \A i \in 1 .. n : i .. n \subseteq 1 .. n
  OBVIOUS
<1>4. CASE n = 0 \/ IsNaN(points[n].value)
  BY <1>1, <1>4 DEF Scale
<1>5. CASE n # 0 /\ ~ IsNaN(points[n].value)
  <2>1. \A i \in 1 .. n : (\A k \in i .. n : ~ IsNaN(more[k].value))
              => (\A k \in i .. n : ~ IsNaN(points[k].value))
    BY <1>3
  <2> QED BY <1>1, <1>2, <1>5, <2>1 DEF Scale
<1> QED BY <1>4, <1>5

\* The last points, when the first are deleted.
LEMMA ScaleOfRest ==
  ASSUME NEW points, NEW rest, NEW n \in Nat, NEW p \in 1 .. n, NEW lo, NEW hi,
         Scale(points, n, lo, hi), \A i \in 1 .. n - p + 1 : rest[i] = points[p + i - 1]
  PROVE  Scale(rest, n - p + 1, lo, hi)
<1> DEFINE m == n - p + 1
<1>1. /\ m \in Nat \ {0} /\ m \in 1 .. m /\ n # 0 /\ p + m - 1 = n
      /\ m # 1 => m - 1 \in 1 .. m /\ p + (m - 1) - 1 = n - 1
      /\ n = 1 => m = 1
  OBVIOUS
<1>2. rest[m] = points[n] /\ (m # 1 => rest[m - 1] = points[n - 1])
  <2> HIDE DEF m
  <2> QED BY <1>1 DEF m
<1>3. CASE IsNaN(points[n].value)
  BY <1>1, <1>2, <1>3 DEF Scale
<1>4. CASE ~ IsNaN(points[n].value)
  <2>1. /\ ~ IsNaN(lo) /\ ~ IsNaN(hi) /\ lo \in Value /\ hi \in Value
        /\ \A i \in 1 .. n : (\A k \in i .. n : ~ IsNaN(points[k].value))
              => lo.n <= points[i].value.n /\ points[i].value.n <= hi.n
        /\ lo.string => n = 1 \/ IsNaN(points[n - 1].value)
    BY <1>1, <1>4 DEF Scale
  <2>2. ASSUME NEW i \in 1 .. m, \A k \in i .. m : ~ IsNaN(rest[k].value)
        PROVE  lo.n <= rest[i].value.n /\ rest[i].value.n <= hi.n
    <3>1. p + i - 1 \in 1 .. n /\ rest[i] = points[p + i - 1]
      OBVIOUS
    <3>2. ASSUME NEW k \in p + i - 1 .. n PROVE ~ IsNaN(points[k].value)
      <4>1. k - p + 1 \in i .. m /\ k - p + 1 \in 1 .. n - p + 1 /\ p + (k - p + 1) - 1 = k
        OBVIOUS
      <4>2. rest[k - p + 1] = points[k]
        BY <4>1
      <4> QED BY <4>1, <4>2, <2>2
    <3> QED BY <2>1, <3>1, <3>2
  <2>3. lo.string => m = 1 \/ IsNaN(rest[m - 1].value)
    BY <2>1, <1>1, <1>2
  <2> HIDE DEF m
  <2>4. ~ IsNaN(rest[m].value) /\ m # 0
    BY <1>1, <1>2, <1>4
  <2>5. Scale(rest, m, lo, hi)
    BY <2>1, <2>2, <2>3, <2>4 DEF Scale
  <2> QED BY <2>5 DEF m
<1> QED BY <1>3, <1>4

\* A set of places has a last one.
LEMMA LastPlace ==
  ASSUME NEW n \in Nat, NEW S \in SUBSET (1 .. n), S # {}
  PROVE  Max(S) \in S
<1> DEFINE T == {k \in Nat : n - k \in S}
           R == OpToRel(<, Nat)
<1>1. T \subseteq Nat /\ T # {}
  <2>1. PICK x \in S : TRUE
    OBVIOUS
  <2>2. n - x \in Nat /\ n - (n - x) = x
    OBVIOUS
  <2>3. n - x \in T
    BY <2>1, <2>2
  <2> QED BY <2>3
<1>2. IsWellFoundedOn(R, Nat)
  BY NatLessThanWellFounded
<1>3. PICK k \in T : \A l \in T : ~ (<<l, k>> \in R)
  <2> HIDE DEF R, T
  <2> QED BY <1>1, <1>2, WFMin
<1>4. \A l \in T : <<l, k>> \in R <=> l < k
  BY DEF OpToRel
<1>5. n - k \in S
  OBVIOUS
<1>6. \A y \in S : n - k >= y
  <2> TAKE y \in S
  <2>1. n - y \in Nat /\ n - (n - y) = y /\ y \in Nat /\ k \in Nat
    BY <1>1
  <2>2. n - y \in T
    BY <2>1
  <2>3. ~ (n - y < k)
    BY <2>2, <1>3, <1>4
  <2> HIDE DEF T
  <2> QED BY <2>1, <2>3
<1> QED BY <1>5, <1>6 DEF Max

\* render keeps a part of the points, from the last that has left the chart on.
LEMMA OnChartIs ==
  ASSUME data \in Seq(Point), data # << >>
  PROVE  \E p \in 1 .. Len(data) :
           /\ OnChart \in Seq(Point) /\ Len(OnChart) = Len(data) - p + 1
           /\ \A i \in 1 .. Len(data) - p + 1 : OnChart[i] = data[p + i - 1]
           /\ (\E i \in DOMAIN data : data[i].age = Left) => data[p].age = Left
<1> DEFINE left == {i \in DOMAIN data : data[i].age = Left}
           n == Len(data)
           p == IF left = {} THEN 1 ELSE Max(left)
<1>1. n \in Nat \ {0} /\ DOMAIN data = 1 .. n
  OBVIOUS
<1>2. p \in 1 .. n /\ (left # {} => p \in left)
  <2>1. CASE left = {}
    BY <1>1, <2>1
  <2>2. CASE left # {}
    <3>1. left \in SUBSET (1 .. n)
      BY <1>1
    <3>2. Max(left) \in left
      <4> HIDE DEF left, n
      <4> QED BY <1>1, <2>2, <3>1, LastPlace
    <3> QED BY <2>2, <3>1, <3>2
  <2> QED BY <2>1, <2>2
<1>3. OnChart = SubSeq(data, p, n)
  BY DEF OnChart
<1>4. left # {} => data[p].age = Left
  BY <1>2
<1> HIDE DEF p, n
<1>5. p \in Nat \ {0} /\ n \in Nat /\ n <= Len(data) /\ p <= n
  BY <1>1, <1>2 DEF n
<1>6. /\ SubSeq(data, p, n) \in Seq(Point) /\ Len(SubSeq(data, p, n)) = n - p + 1
      /\ \A i \in 1 .. n - p + 1 : SubSeq(data, p, n)[i] = data[p + i - 1]
  BY <1>5, PartIs
<1> QED BY <1>2, <1>3, <1>4, <1>6 DEF n

\* The loop of resetBounds.
LEMMA LoopIs ==
  ASSUME Len(data) \in Nat
  PROVE  /\ Highest = [i \in 0 .. Len(data) |->
                         IF i = 0 THEN NaN ELSE Widen(Highest[i - 1], data[i].value)]
         /\ Lowest = [i \in 0 .. Len(data) |->
                         IF i = 0 THEN NaN ELSE Narrow(Lowest[i - 1], data[i].value)]
<1> DEFINE High(f, n) == f = [i \in 0 .. n |->
                                IF i = 0 THEN NaN ELSE Widen(f[i - 1], data[i].value)]
           Low(f, n) == f = [i \in 0 .. n |->
                                IF i = 0 THEN NaN ELSE Narrow(f[i - 1], data[i].value)]
           T == {n \in Nat : ~ ((\E f : High(f, n)) /\ (\E f : Low(f, n)))}
           R == OpToRel(<, Nat)
<1>1. (\E f : High(f, 0)) /\ (\E f : Low(f, 0))
  <2>1. High([i \in 0 .. 0 |-> NaN], 0) /\ Low([i \in 0 .. 0 |-> NaN], 0)
    OBVIOUS
  <2> QED BY <2>1
<1>2. ASSUME NEW n \in Nat \ {0}, NEW f, High(f, n - 1) PROVE \E g : High(g, n)
  <2> DEFINE g == [i \in 0 .. n |-> IF i = n THEN Widen(f[n - 1], data[n].value) ELSE f[i]]
  <2>1. \A i \in 0 .. n : i # n => i \in 0 .. n - 1 /\ g[i] = f[i]
    OBVIOUS
  <2>2. \A i \in 0 .. n : i # 0 => i - 1 \in 0 .. n - 1 /\ g[i - 1] = f[i - 1]
    OBVIOUS
  <2>3. ASSUME NEW i \in 0 .. n
        PROVE  g[i] = IF i = 0 THEN NaN ELSE Widen(g[i - 1], data[i].value)
    <3>1. CASE i = n
      <4>1. g[n] = Widen(f[n - 1], data[n].value)
        OBVIOUS
      <4> HIDE DEF g
      <4> QED BY <3>1, <4>1, <2>2
    <3>2. CASE i # n
      <4>1. f[i] = IF i = 0 THEN NaN ELSE Widen(f[i - 1], data[i].value)
        BY <1>2, <2>1, <3>2
      <4> HIDE DEF g
      <4> QED BY <3>2, <4>1, <2>1, <2>2
    <3> QED BY <3>1, <3>2
  <2>4. g = [i \in 0 .. n |-> g[i]]
    OBVIOUS
  <2> HIDE DEF g
  <2>5. g = [i \in 0 .. n |-> IF i = 0 THEN NaN ELSE Widen(g[i - 1], data[i].value)]
    BY <2>3, <2>4
  <2> QED BY <2>5
<1>3. ASSUME NEW n \in Nat \ {0}, NEW f, Low(f, n - 1) PROVE \E g : Low(g, n)
  <2> DEFINE g == [i \in 0 .. n |-> IF i = n THEN Narrow(f[n - 1], data[n].value) ELSE f[i]]
  <2>1. \A i \in 0 .. n : i # n => i \in 0 .. n - 1 /\ g[i] = f[i]
    OBVIOUS
  <2>2. \A i \in 0 .. n : i # 0 => i - 1 \in 0 .. n - 1 /\ g[i - 1] = f[i - 1]
    OBVIOUS
  <2>3. ASSUME NEW i \in 0 .. n
        PROVE  g[i] = IF i = 0 THEN NaN ELSE Narrow(g[i - 1], data[i].value)
    <3>1. CASE i = n
      <4>1. g[n] = Narrow(f[n - 1], data[n].value)
        OBVIOUS
      <4> HIDE DEF g
      <4> QED BY <3>1, <4>1, <2>2
    <3>2. CASE i # n
      <4>1. f[i] = IF i = 0 THEN NaN ELSE Narrow(f[i - 1], data[i].value)
        BY <1>3, <2>1, <3>2
      <4> HIDE DEF g
      <4> QED BY <3>2, <4>1, <2>1, <2>2
    <3> QED BY <3>1, <3>2
  <2>4. g = [i \in 0 .. n |-> g[i]]
    OBVIOUS
  <2> HIDE DEF g
  <2>5. g = [i \in 0 .. n |-> IF i = 0 THEN NaN ELSE Narrow(g[i - 1], data[i].value)]
    BY <2>3, <2>4
  <2> QED BY <2>5
<1>4. T = {}
  <2> SUFFICES ASSUME T # {} PROVE FALSE
    OBVIOUS
  <2>1. T \subseteq Nat /\ IsWellFoundedOn(R, Nat)
    BY NatLessThanWellFounded
  <2>2. PICK n \in T : \A m \in T : ~ (<<m, n>> \in R)
    <3> HIDE DEF R, T
    <3> QED BY <2>1, WFMin
  <2>3. \A m \in T : ~ (m < n)
    BY <2>1, <2>2 DEF OpToRel
  <2>4. n \in Nat /\ ~ ((\E f : High(f, n)) /\ (\E f : Low(f, n)))
    OBVIOUS
  <2>5. n # 0
    <3> HIDE DEF High, Low
    <3> QED BY <2>4, <1>1
  <2>6. n - 1 \in Nat /\ n - 1 < n
    BY <2>4, <2>5
  <2>7. n - 1 \notin T
    <3> HIDE DEF T
    <3> QED BY <2>3, <2>6
  <2>8. (\E f : High(f, n - 1)) /\ (\E f : Low(f, n - 1))
    <3> HIDE DEF High, Low
    <3> QED BY <2>6, <2>7
  <2> HIDE DEF High, Low, T
  <2> QED BY <2>4, <2>5, <2>8, <1>2, <1>3
<1>5. (\E f : High(f, Len(data))) /\ (\E f : Low(f, Len(data)))
  <2> HIDE DEF High, Low
  <2> QED BY <1>4
<1>6. \E f : f = [i \in 0 .. Len(data) |->
                    IF i = 0 THEN NaN ELSE Widen(f[i - 1], data[i].value)]
  BY <1>5
<1>7. \E f : f = [i \in 0 .. Len(data) |->
                    IF i = 0 THEN NaN ELSE Narrow(f[i - 1], data[i].value)]
  BY <1>5
<1>8. Highest = [i \in 0 .. Len(data) |->
                   IF i = 0 THEN NaN ELSE Widen(Highest[i - 1], data[i].value)]
  BY <1>6 DEF Highest
<1>9. Lowest = [i \in 0 .. Len(data) |->
                   IF i = 0 THEN NaN ELSE Narrow(Lowest[i - 1], data[i].value)]
  BY <1>7 DEF Lowest
<1> QED BY <1>8, <1>9

\* What a turn of the loop does.
LEMMA LoopTurns ==
  ASSUME Len(data) \in Nat
  PROVE  /\ Highest[0] = NaN /\ Lowest[0] = NaN
         /\ \A i \in 1 .. Len(data) :
              /\ Highest[i] = Widen(Highest[i - 1], data[i].value)
              /\ Lowest[i] = Narrow(Lowest[i - 1], data[i].value)
<1> DEFINE h == Highest
           l == Lowest
<1>1. /\ h = [i \in 0 .. Len(data) |->
                IF i = 0 THEN NaN ELSE Widen(h[i - 1], data[i].value)]
      /\ l = [i \in 0 .. Len(data) |->
                IF i = 0 THEN NaN ELSE Narrow(l[i - 1], data[i].value)]
  BY LoopIs
<1> HIDE DEF h, l
<1>2. 0 \in 0 .. Len(data) /\ \A i \in 1 .. Len(data) : i \in 0 .. Len(data) /\ i # 0
  OBVIOUS
<1>3. h[0] = NaN /\ l[0] = NaN
  BY <1>1, <1>2
<1>4. ASSUME NEW i \in 1 .. Len(data)
      PROVE  h[i] = Widen(h[i - 1], data[i].value) /\ l[i] = Narrow(l[i - 1], data[i].value)
  BY <1>1, <1>2
<1> QED BY <1>3, <1>4 DEF h, l

\* The loop comes to the bounds of the first n points, and of all.
LEMMA LoopScales ==
  ASSUME data \in Seq(Point)
  PROVE  /\ \A n \in Nat : n <= Len(data) => Scale(data, n, Lowest[n], Highest[n])
         /\ Scale(data, Len(data), Lowest[Len(data)], Highest[Len(data)])
<1> DEFINE T == {n \in Nat : n <= Len(data) /\ ~ Scale(data, n, Lowest[n], Highest[n])}
           R == OpToRel(<, Nat)
<1>1. Len(data) \in Nat /\ \A i \in 1 .. Len(data) : data[i].value \in Value
  <2>1. \A i \in 1 .. Len(data) : data[i] \in Point
    OBVIOUS
  <2> QED BY <2>1 DEF Point
<1>2. /\ Highest[0] = NaN /\ Lowest[0] = NaN
      /\ \A i \in 1 .. Len(data) :
           /\ Highest[i] = Widen(Highest[i - 1], data[i].value)
           /\ Lowest[i] = Narrow(Lowest[i - 1], data[i].value)
  BY <1>1, LoopTurns
<1>3. T = {}
  <2> SUFFICES ASSUME T # {} PROVE FALSE
    OBVIOUS
  <2>1. T \subseteq Nat /\ IsWellFoundedOn(R, Nat)
    BY NatLessThanWellFounded
  <2>2. PICK n \in T : \A m \in T : ~ (<<m, n>> \in R)
    <3> HIDE DEF R, T
    <3> QED BY <2>1, WFMin
  <2>3. \A m \in T : ~ (m < n)
    BY <2>1, <2>2 DEF OpToRel
  <2>4. n \in Nat /\ n <= Len(data) /\ ~ Scale(data, n, Lowest[n], Highest[n])
    OBVIOUS
  <2>5. n # 0
    BY <1>2, <2>4, ValueIs DEF Scale
  <2>6. n - 1 \in Nat /\ n - 1 < n /\ n - 1 <= Len(data) /\ n - 1 + 1 = n /\ n \in 1 .. Len(data)
    BY <2>4, <2>5, <1>1
  <2>7. Scale(data, n - 1, Lowest[n - 1], Highest[n - 1])
    BY <2>3, <2>6
  <2>8. Scale(data, n - 1 + 1, Narrow(Lowest[n - 1], data[n - 1 + 1].value),
              Widen(Highest[n - 1], data[n - 1 + 1].value))
    <3>1. \A i \in 1 .. n - 1 + 1 : data[i].value \in Value
      BY <1>1, <2>6
    <3> QED BY <2>6, <2>7, <3>1, ScaleGrows
  <2> QED BY <2>4, <2>6, <2>8, <1>2
<1> QED BY <1>1, <1>3

\* Each bound of the first n points is the value of one of them after the last
\* that was not a number.
Reached(points, n, lo, hi) ==
  IsNaN(points[n].value) \/
    /\ \E i \in 1 .. n : /\ lo.n = points[i].value.n
                         /\ \A k \in i .. n : ~ IsNaN(points[k].value)
    /\ \E i \in 1 .. n : /\ hi.n = points[i].value.n
                         /\ \A k \in i .. n : ~ IsNaN(points[k].value)

\* A bound that takes a value is one of the two.
LEMMA EitherOne ==
  ASSUME NEW bound \in Value, NEW value \in Value, ~ IsNaN(value)
  PROVE  /\ IsNaN(bound) => Narrow(bound, value).n = value.n /\ Widen(bound, value).n = value.n
         /\ ~ IsNaN(bound) => /\ Narrow(bound, value).n \in {bound.n, value.n}
                              /\ Widen(bound, value).n \in {bound.n, value.n}
<1>1. CASE IsNaN(bound)
  BY <1>1, NarrowIs, WidenIs
<1>2. CASE ~ IsNaN(bound)
  <2> DEFINE least == IF bound.n < value.n THEN bound.n ELSE value.n
             most == IF bound.n > value.n THEN bound.n ELSE value.n
  <2>1. Narrow(bound, value) = AsNumber(least) /\ Widen(bound, value) = AsNumber(most)
    BY <1>2 DEF Narrow, Widen, MathMin, MathMax
  <2>2. least \in {bound.n, value.n} /\ most \in {bound.n, value.n}
    OBVIOUS
  <2>3. AsNumber(least).n = least /\ AsNumber(most).n = most
    BY DEF AsNumber
  <2> HIDE DEF least, most
  <2>4. Narrow(bound, value).n = least /\ Widen(bound, value).n = most
    BY <2>1, <2>3
  <2> QED BY <1>2, <2>2, <2>4
<1> QED BY <1>1, <1>2

LEMMA ReachedGrows ==
  ASSUME NEW points, NEW n \in Nat, NEW lo, NEW hi, Scale(points, n, lo, hi),
         n # 0 => Reached(points, n, lo, hi),
         \A i \in 1 .. n + 1 : points[i].value \in Value
  PROVE  Reached(points, n + 1, Narrow(lo, points[n + 1].value),
                 Widen(hi, points[n + 1].value))
<1> DEFINE value == points[n + 1].value
           low == Narrow(lo, value)
           high == Widen(hi, value)
           Kept(i, m) == \A k \in i .. m : ~ IsNaN(points[k].value)
<1> SUFFICES ASSUME ~ IsNaN(value)
             PROVE  /\ \E i \in 1 .. n + 1 : low.n = points[i].value.n /\ Kept(i, n + 1)
                    /\ \E i \in 1 .. n + 1 : high.n = points[i].value.n /\ Kept(i, n + 1)
  BY DEF Reached
<1>1. /\ n + 1 \in 1 .. n + 1 /\ \A k \in n + 1 .. n + 1 : k = n + 1
      /\ \A i \in 1 .. n : i \in 1 .. n + 1 /\ \A k \in i .. n + 1 : k \in i .. n \/ k = n + 1
  OBVIOUS
<1>2. value \in Value /\ lo \in Value /\ hi \in Value
  BY <1>1 DEF Scale
<1>3. Kept(n + 1, n + 1) /\ \A i \in 1 .. n : Kept(i, n) => Kept(i, n + 1)
  BY <1>1
<1>4. /\ ~ IsNaN(lo) => low.n \in {lo.n, value.n}
      /\ IsNaN(lo) => low.n = value.n
      /\ ~ IsNaN(hi) => high.n \in {hi.n, value.n}
      /\ IsNaN(hi) => high.n = value.n
  <2> HIDE DEF value
  <2> QED BY <1>2, EitherOne
<1>5. ~ IsNaN(lo) \/ ~ IsNaN(hi) =>
        /\ \E i \in 1 .. n : lo.n = points[i].value.n /\ Kept(i, n)
        /\ \E i \in 1 .. n : hi.n = points[i].value.n /\ Kept(i, n)
  <2> SUFFICES ASSUME ~ IsNaN(lo) \/ ~ IsNaN(hi)
               PROVE  /\ \E i \in 1 .. n : lo.n = points[i].value.n /\ Kept(i, n)
                      /\ \E i \in 1 .. n : hi.n = points[i].value.n /\ Kept(i, n)
    OBVIOUS
  <2>1. n # 0 /\ ~ IsNaN(points[n].value)
    BY ValueIs DEF Scale
  <2> QED BY <2>1 DEF Reached
<1> HIDE DEF Kept, low, high
<1>6. \E i \in 1 .. n + 1 : low.n = points[i].value.n /\ Kept(i, n + 1)
  <2>1. CASE low.n = value.n
    BY <2>1, <1>1, <1>3
  <2>2. CASE low.n # value.n
    <3>1. ~ IsNaN(lo) /\ low.n = lo.n
      BY <2>2, <1>4
    <3> QED BY <3>1, <1>1, <1>3, <1>5
  <2> QED BY <2>1, <2>2
<1>7. \E i \in 1 .. n + 1 : high.n = points[i].value.n /\ Kept(i, n + 1)
  <2>1. CASE high.n = value.n
    BY <2>1, <1>1, <1>3
  <2>2. CASE high.n # value.n
    <3>1. ~ IsNaN(hi) /\ high.n = hi.n
      BY <2>2, <1>4
    <3> QED BY <3>1, <1>1, <1>3, <1>5
  <2> QED BY <2>1, <2>2
<1> QED BY <1>6, <1>7

\* The loop comes to bounds that are values.
LEMMA LoopReaches ==
  ASSUME data \in Seq(Point), data # << >>
  PROVE  Reached(data, Len(data), Lowest[Len(data)], Highest[Len(data)])
<1> DEFINE T == {n \in Nat : /\ n # 0 /\ n <= Len(data)
                             /\ ~ Reached(data, n, Lowest[n], Highest[n])}
           R == OpToRel(<, Nat)
<1>1. Len(data) \in Nat \ {0} /\ \A i \in 1 .. Len(data) : data[i].value \in Value
  <2>1. \A i \in 1 .. Len(data) : data[i] \in Point
    OBVIOUS
  <2> QED BY <2>1 DEF Point
<1>2. T = {}
  <2> SUFFICES ASSUME T # {} PROVE FALSE
    OBVIOUS
  <2>1. T \subseteq Nat /\ IsWellFoundedOn(R, Nat)
    BY NatLessThanWellFounded
  <2>2. PICK n \in T : \A m \in T : ~ (<<m, n>> \in R)
    <3> HIDE DEF R, T
    <3> QED BY <2>1, WFMin
  <2>3. \A m \in T : ~ (m < n)
    BY <2>1, <2>2 DEF OpToRel
  <2>4. n \in Nat /\ n # 0 /\ n <= Len(data) /\ ~ Reached(data, n, Lowest[n], Highest[n])
    OBVIOUS
  <2>5. n - 1 \in Nat /\ n - 1 < n /\ n - 1 <= Len(data) /\ n - 1 + 1 = n /\ n \in 1 .. Len(data)
    BY <2>4, <1>1
  <2>6. n - 1 # 0 => Reached(data, n - 1, Lowest[n - 1], Highest[n - 1])
    BY <2>3, <2>5
  <2>7. Reached(data, n - 1 + 1, Narrow(Lowest[n - 1], data[n - 1 + 1].value),
                Widen(Highest[n - 1], data[n - 1 + 1].value))
    <3>1. \A i \in 1 .. n - 1 + 1 : data[i].value \in Value
      BY <1>1, <2>5
    <3>2. Scale(data, n - 1, Lowest[n - 1], Highest[n - 1])
      BY <2>5, LoopScales
    <3> QED BY <2>5, <2>6, <3>1, <3>2, ReachedGrows
  <2> QED BY <2>4, <2>5, <2>7, LoopTurns
<1> QED BY <1>1, <1>2

\* What the types of the chart say.
LEMMA ChartFacts ==
  ASSUME ChartInv
  PROVE  /\ data \in Seq(Point) /\ data # << >> /\ Len(data) \in Nat \ {0}
         /\ DOMAIN data = 1 .. Len(data) /\ Left \in Nat
         /\ \A i \in 1 .. Len(data) :
              data[i] \in Point /\ data[i].age \in 0 .. Left /\ data[i].value \in Value
         /\ \A i, j \in 1 .. Len(data) : i < j => data[i].age >= data[j].age
         /\ minValue \in Value /\ maxValue \in Value /\ drawing \in BOOLEAN
         /\ Scale(data, Len(data), minValue, maxValue)
<1>1. /\ data \in Seq(Point) /\ data # << >> /\ Len(data) \in Nat \ {0}
      /\ DOMAIN data = 1 .. Len(data)
  BY DEF ChartInv, ChartTypeOK
<1>2. \A i \in 1 .. Len(data) : data[i] \in Point
  BY <1>1
<1>3. \A i \in 1 .. Len(data) : data[i].age \in 0 .. Left /\ data[i].value \in Value
  BY <1>2 DEF Point
<1>4. Left \in Nat
  BY ChartAssumption DEF Left
<1> QED BY <1>1, <1>2, <1>3, <1>4 DEF ChartInv, ChartTypeOK

LEMMA ChartInitially == ChartInit => ChartInv
<1> SUFFICES ASSUME ChartInit PROVE ChartInv
  OBVIOUS
<1> DEFINE p == [age |-> 0, value |-> AsNumber(0)]
<1>1. p \in Point /\ p.age = 0 /\ p.value = AsNumber(0)
  <2>1. 0 \in 0 .. Left /\ AsNumber(0) \in Value
    BY ChartAssumption, ValueIs DEF Left
  <2> QED BY <2>1 DEF Point
<1>2. AsNumber(0) \in Value /\ AsNumber(0).n = 0 /\ ~ IsNaN(AsNumber(0))
  BY ChartAssumption, ValueIs
<1>3. /\ data = <<p>> /\ minValue = AsNumber(0) /\ maxValue = AsNumber(0) /\ drawing = TRUE
  BY DEF ChartInit
<1> HIDE DEF p
<1>4. data \in Seq(Point) /\ data # << >> /\ Len(data) = 1 /\ data[1] = p /\ DOMAIN data = 1 .. 1
  BY <1>1, <1>3
<1>5. ChartTypeOK
  <2>1. \A i, j \in DOMAIN data : i < j => data[i].age >= data[j].age
    BY <1>4
  <2> QED BY <1>2, <1>3, <1>4, <2>1 DEF ChartTypeOK
<1>6. Scale(data, 1, minValue, maxValue)
  <2>1. \A i \in 1 .. 1 : i = 1
    OBVIOUS
  <2>2. \A i \in 1 .. 1 : minValue.n <= data[i].value.n /\ data[i].value.n <= maxValue.n
    BY <2>1, <1>1, <1>2, <1>3, <1>4
  <2> QED BY <1>1, <1>2, <1>3, <1>4, <2>2 DEF Scale
<1> QED BY <1>4, <1>5, <1>6 DEF ChartInv

LEMMA AppendKeepsScale ==
  ASSUME ChartInv, NEW value \in Value, AppendPoint(value)
  PROVE  ChartInv'
<1> DEFINE p == [age |-> 0, value |-> value]
           n == Len(data)
<1>1. p \in Point /\ p.age = 0 /\ p.value = value
  <2>1. 0 \in 0 .. Left
    BY ChartFacts
  <2> QED BY <2>1 DEF Point
<1>2. /\ data' = Append(data, p) /\ minValue' = Narrow(minValue, value)
      /\ maxValue' = Widen(maxValue, value) /\ drawing' = drawing
  BY DEF AppendPoint
<1> HIDE DEF p
<1>3. /\ data' \in Seq(Point) /\ Len(data') = n + 1 /\ data'[n + 1] = p
      /\ \A i \in 1 .. n : data'[i] = data[i]
  BY <1>1, <1>2, ChartFacts, AppendProperties
<1>4. /\ n \in Nat /\ n + 1 # 0 /\ DOMAIN data' = 1 .. n + 1
      /\ \A i \in 1 .. n + 1 : i \in 1 .. n \/ i = n + 1
      /\ \A i, j \in 1 .. n + 1 : i < j => i \in 1 .. n
  BY <1>3, ChartFacts
<1>5. \A i, j \in 1 .. n + 1 : i < j => data'[i].age >= data'[j].age
  <2> TAKE i, j \in 1 .. n + 1
  <2> HAVE i < j
  <2>1. i \in 1 .. n /\ data'[i] = data[i] /\ data[i].age \in Nat
    BY <1>3, <1>4, ChartFacts
  <2>2. CASE j \in 1 .. n
    BY <2>1, <2>2, <1>3, ChartFacts
  <2>3. CASE j = n + 1
    BY <2>1, <2>3, <1>1, <1>3
  <2> QED BY <2>2, <2>3, <1>4
<1>6. minValue' \in Value /\ maxValue' \in Value /\ drawing' \in BOOLEAN
  BY <1>2, ChartFacts, NarrowIs, WidenIs
<1>7. data' # << >>
  BY <1>3, <1>4
<1>8. ChartTypeOK'
  BY <1>3, <1>4, <1>5, <1>6, <1>7 DEF ChartTypeOK
<1>9. Scale(data', n + 1, minValue', maxValue')
  <2>1. Scale(data, n, minValue, maxValue)
    BY ChartFacts
  <2>2. Scale(data', n, minValue, maxValue)
    <3> HIDE DEF n
    <3> QED BY <2>1, <1>3, <1>4, ScaleOfSame
  <2>3. \A i \in 1 .. n + 1 : data'[i].value \in Value
    BY <1>1, <1>3, <1>4, ChartFacts
  <2> HIDE DEF n
  <2>4. Scale(data', n + 1, Narrow(minValue, data'[n + 1].value),
              Widen(maxValue, data'[n + 1].value))
    BY <2>2, <2>3, <1>4, ScaleGrows
  <2> QED BY <2>4, <1>1, <1>2, <1>3
<1> QED BY <1>3, <1>8, <1>9 DEF ChartInv

LEMMA ResetKeepsScale ==
  ASSUME ChartInv, ResetBounds
  PROVE  ChartInv'
<1>1. /\ data' = data /\ drawing' = drawing
      /\ maxValue' = Highest[Len(data)] /\ minValue' = Lowest[Len(data)]
  BY DEF ResetBounds
<1>2. Scale(data, Len(data), minValue', maxValue')
  BY <1>1, ChartFacts, LoopScales
<1>3. minValue' \in Value /\ maxValue' \in Value
  BY <1>2 DEF Scale
<1> QED BY <1>1, <1>2, <1>3 DEF ChartInv, ChartTypeOK

LEMMA RenderKeepsScale ==
  ASSUME ChartInv, Render
  PROVE  ChartInv'
<1>1. UNCHANGED <<maxValue, minValue>>
  BY DEF Render
<1>2. CASE UNCHANGED <<data, drawing>>
  BY <1>1, <1>2 DEF ChartInv, ChartTypeOK
<1>3. CASE ~ UNCHANGED <<data, drawing>>
  <2>1. data' = OnChart /\ drawing' = ~ minValue.string
    BY <1>3 DEF Render
  <2>2. PICK p \in 1 .. Len(data) :
          /\ OnChart \in Seq(Point) /\ Len(OnChart) = Len(data) - p + 1
          /\ \A i \in 1 .. Len(data) - p + 1 : OnChart[i] = data[p + i - 1]
    BY ChartFacts, OnChartIs
  <2> DEFINE n == Len(data)
             m == n - p + 1
  <2>3. /\ n \in Nat /\ m \in Nat \ {0} /\ p \in Nat
        /\ \A i \in 1 .. m : p + i - 1 \in 1 .. n
        /\ \A i, j \in 1 .. m : i < j => p + i - 1 < p + j - 1
    BY ChartFacts
  <2>4. /\ data' \in Seq(Point) /\ Len(data') = m /\ data' # << >> /\ DOMAIN data' = 1 .. m
        /\ \A i \in 1 .. m : data'[i] = data[p + i - 1]
    BY <2>1, <2>2, <2>3
  <2>5. \A i, j \in 1 .. m : i < j => data'[i].age >= data'[j].age
    <3> HIDE DEF m
    <3> QED BY <2>3, <2>4, ChartFacts
  <2>6. drawing' \in BOOLEAN
    BY <2>1
  <2>7. ChartTypeOK'
    <3> HIDE DEF m
    <3> QED BY <2>4, <2>5, <2>6, <1>1, ChartFacts DEF ChartTypeOK
  <2>8. Scale(data', m, minValue, maxValue)
    <3>1. Scale(data, n, minValue, maxValue)
      BY ChartFacts
    <3>2. \A i \in 1 .. n - p + 1 : data'[i] = data[p + i - 1]
      BY <2>4
    <3> HIDE DEF n
    <3>3. p \in 1 .. n
      BY DEF n
    <3> QED BY <3>1, <3>2, <3>3, <2>3, ScaleOfRest
  <2> HIDE DEF m
  <2> QED BY <1>1, <2>4, <2>7, <2>8 DEF ChartInv
<1> QED BY <1>2, <1>3

LEMMA TickKeepsScale ==
  ASSUME ChartInv, Tick
  PROVE  ChartInv'
<1> DEFINE n == Len(data)
           older(i) == IF data[i].age = Left THEN Left ELSE data[i].age + 1
<1>1. /\ data' = [i \in DOMAIN data |-> [data[i] EXCEPT !.age = older(i)]]
      /\ UNCHANGED <<maxValue, minValue, drawing>>
  BY DEF Tick
<1>2. n \in Nat \ {0} /\ DOMAIN data = 1 .. n /\ Left \in Nat
  BY ChartFacts
<1>3. ASSUME NEW i \in 1 .. n
      PROVE  older(i) \in 0 .. Left /\ data[i].age \in 0 .. Left /\ data[i] \in Point
  BY ChartFacts
<1>4. ASSUME NEW i \in 1 .. n, NEW j \in 1 .. n, i < j PROVE older(i) >= older(j)
  <2>1. data[i].age >= data[j].age
    BY <1>4, ChartFacts
  <2> QED BY <2>1, <1>2, <1>3
<1> HIDE DEF older
<1>5. ASSUME NEW i \in 1 .. n
      PROVE  /\ data'[i] = [data[i] EXCEPT !.age = older(i)] /\ data'[i] \in Point
             /\ data'[i].age = older(i) /\ data'[i].value = data[i].value
  <2>1. data'[i] = [data[i] EXCEPT !.age = older(i)]
    BY <1>1, <1>2
  <2>2. data[i] \in Point /\ older(i) \in 0 .. Left
    BY <1>3
  <2> QED BY <2>1, <2>2 DEF Point
<1>6. data' = [i \in 1 .. n |-> data'[i]]
  BY <1>1, <1>2
<1> HIDE DEF n
<1>7. data' \in Seq(Point) /\ Len(data') = n /\ DOMAIN data' = 1 .. n /\ data' # << >>
  BY <1>2, <1>5, <1>6
<1>8. \A i, j \in 1 .. n : i < j => data'[i].age >= data'[j].age
  BY <1>4, <1>5
<1>9. ChartTypeOK'
  BY <1>1, <1>7, <1>8, ChartFacts DEF ChartTypeOK
<1>10. Scale(data', n, minValue, maxValue)
  <2>1. Scale(data, n, minValue, maxValue)
    BY ChartFacts DEF n
  <2> QED BY <2>1, <1>2, <1>5, ScaleOfSame
<1> QED BY <1>1, <1>7, <1>9, <1>10 DEF ChartInv

LEMMA ChartStays ==
  ASSUME ChartInv, UNCHANGED chartVars
  PROVE  ChartInv'
BY DEF ChartInv, ChartTypeOK, chartVars

\* The scale covers what is drawn.
LEMMA ScaleIsWide == ChartInv => ScaleCovers
<1> SUFFICES ASSUME ChartInv PROVE ScaleCovers
  OBVIOUS
<1> DEFINE n == Len(data)
<1>1. n \in Nat \ {0} /\ DOMAIN data = 1 .. n /\ Scale(data, n, minValue, maxValue)
  BY ChartFacts
<1>2. n \in 1 .. n /\ n # 0 /\ (\A k \in n .. n : k = n) /\ \A i \in 1 .. n : n \in i .. n
  BY <1>1
<1> HIDE DEF n
<1>3. CASE IsNaN(data[n].value)
  <2>1. Scaled = {}
    BY <1>1, <1>2, <1>3 DEF Scaled, n
  <2>2. IsNaN(maxValue) /\ IsNaN(minValue)
    BY <1>1, <1>3, ValueIs DEF Scale
  <2> QED BY <2>1, <2>2 DEF ScaleCovers
<1>4. CASE ~ IsNaN(data[n].value)
  <2>1. data[n].value.n \in Scaled
    BY <1>1, <1>2, <1>4 DEF Scaled, n
  <2>2. ASSUME NEW x \in Scaled PROVE minValue.n <= x /\ x <= maxValue.n
    <3>1. PICK i \in 1 .. n : /\ x = data[i].value.n
                              /\ \A k \in i .. n : ~ IsNaN(data[k].value)
      BY <1>1 DEF Scaled, n
    <3> QED BY <3>1, <1>1, <1>2, <1>4 DEF Scale
  <2> QED BY <2>1, <2>2 DEF ScaleCovers
<1> QED BY <1>3, <1>4

---------------------------------------------------------------------------
(* The page: what the callbacks hand to the chart.                         *)

\* Every message that the callbacks got was broadcast.
Known ==
  /\ pushed <= MaxMessage
  /\ heard \in Seq(Nat)
  /\ \A i \in 1 .. Len(heard) : heard[i] <= pushed

PageInv == ClientInv /\ Known /\ ChartInv

LEMMA HandedKnown ==
  ASSUME NEW w \in Seq(Nat), NEW n \in Nat, Stream(w, n),
         NEW seen \in 1 .. Len(w), NEW li \in Nat, NEW transport
  PROVE  LET handed == Handed(transport, SubSeq(w, 1, seen), li)
         IN  handed = << >> \/ \E m \in Nat : m <= n /\ handed = <<m>>
<1> DEFINE text == SubSeq(w, 1, seen)
           handed == Handed(transport, text, li)
<1>1. /\ \A i \in 1 .. Len(w) : w[i] \in Nat /\ w[i] <= 2 * n
      /\ w[1] = Pad /\ Len(w) \in Nat
  <2>1. \A i \in 1 .. Len(w) : w[i] \in Nat
    BY ElementOfSeq
  <2> QED BY <2>1 DEF Stream
<1>2. ASSUME NEW i \in 1 .. Len(w)
      PROVE  w[i] \div 2 \in Nat /\ w[i] \div 2 <= n
  <2> DEFINE b == w[i]
             m == b \div 2
  <2>1. b \in Nat /\ b <= 2 * n
    BY <1>1
  <2> HIDE DEF b
  <2>2. m \in Nat /\ 2 * m <= b
    BY <2>1
  <2> HIDE DEF m
  <2>3. m <= n
    BY <2>1, <2>2
  <2> QED BY <2>2, <2>3 DEF m, b
<1>3. Garbled \in Nat /\ Garbled <= n
  BY DEF Garbled
<1>4. CASE transport = "streaming"
  <2>1. \/ handed = << >> \/ handed = <<Garbled>>
        \/ 0 < li /\ li + 2 <= seen /\ handed = <<w[li + 2] \div 2>>
    BY <1>4, HandedIs
  <2>2. 0 < li /\ li + 2 <= seen => li + 2 \in 1 .. Len(w)
    BY <1>1
  <2> HIDE DEF handed
  <2>3. handed = << >> \/ \E m \in Nat : m <= n /\ handed = <<m>>
    BY <2>1, <2>2, <1>2, <1>3
  <2> QED BY <2>3 DEF handed
<1>5. CASE transport # "streaming"
  <2>1. /\ text \in Seq(Nat) /\ Len(text) = seen /\ seen \in Nat \ {0}
        /\ \A i \in 1 .. seen : text[i] = w[i]
    <3>1. 1 \in Nat \ {0} /\ seen \in Nat /\ seen <= Len(w) /\ 1 <= seen
      BY <1>1
    <3>2. /\ text \in Seq(Nat) /\ Len(text) = seen - 1 + 1
          /\ \A i \in 1 .. seen - 1 + 1 : text[i] = w[1 + i - 1]
      BY <3>1, PartIs
    <3>3. seen - 1 + 1 = seen /\ \A i \in 1 .. seen : 1 + i - 1 = i
      BY <3>1
    <3> HIDE DEF text
    <3> QED BY <3>1, <3>2, <3>3
  <2> DEFINE rest == Tail(text)
  <2>2. handed = <<FirstMessage(IF Head(text) = Pad THEN Tail(text) ELSE text)>>
    BY <1>5 DEF Handed
  <2> HIDE DEF text
  <2>3. /\ Head(text) = Pad
        /\ Len(rest) = seen - 1
        /\ Len(rest) > 1 => rest[2] = w[3] /\ 3 \in 1 .. Len(w)
    <3>1. 1 \in 1 .. seen /\ text # << >>
      BY <2>1
    <3>2. Head(text) = text[1] /\ text[1] = w[1]
      BY <2>1, <3>1
    <3>3. Len(rest) = seen - 1 /\ \A i \in 1 .. seen - 1 : rest[i] = text[i + 1]
      BY <2>1, <3>1
    <3>4. seen - 1 > 1 => 2 \in 1 .. seen - 1 /\ 2 + 1 = 3 /\ 3 \in 1 .. seen /\ 3 \in 1 .. Len(w)
      BY <2>1, <1>1
    <3> HIDE DEF rest
    <3> QED BY <3>2, <3>3, <3>4, <1>1, <2>1
  <2>4. handed = <<FirstMessage(rest)>>
    BY <2>2, <2>3
  <2> HIDE DEF handed, rest
  <2>5. FirstMessage(rest) = Garbled \/ (Len(rest) > 1 /\ FirstMessage(rest) = rest[2] \div 2)
    BY DEF FirstMessage
  <2>6. handed = << >> \/ \E m \in Nat : m <= n /\ handed = <<m>>
    BY <2>3, <2>4, <2>5, <1>2, <1>3
  <2> QED BY <2>6 DEF handed, text
<1> QED BY <1>4, <1>5

\* What the client's steps do to what was heard.
LEMMA HeardGrows ==
  ASSUME ClientInv, Known, ClientNext
  PROVE  /\ Known'
         /\ heard' # heard => /\ Last(heard') \in Nat
                              /\ Last(heard') # Garbled => Last(heard') \in 1 .. MaxMessage
<1>1. pushed \in Nat /\ MaxMessage \in Nat /\ heard \in Seq(Nat) /\ Len(heard) \in Nat
  BY Connections, ClientAssumption DEF ClientInv, Known
<1>2. \A i \in 1 .. Len(heard) : heard[i] \in Nat /\ heard[i] <= pushed
  <2>1. \A i \in 1 .. Len(heard) : heard[i] \in Nat
    BY <1>1, ElementOfSeq
  <2> QED BY <2>1 DEF Known
<1>3. CASE heard' = heard /\ pushed' = pushed
  BY <1>3 DEF Known
<1>4. CASE Broadcast
  <2>1. heard' = heard /\ pushed' = pushed + 1 /\ pushed < MaxMessage
    BY <1>4 DEF Broadcast
  <2>2. pushed' <= MaxMessage /\ \A i \in 1 .. Len(heard') : heard'[i] <= pushed'
    BY <2>1, <1>1, <1>2
  <2> QED BY <2>1, <2>2, <1>1 DEF Known
<1>5. ASSUME NEW c \in 1 .. Len(ajax), NEW seen \in Nat, Chunk(c, seen)
      PROVE  /\ Known'
             /\ heard' # heard => /\ Last(heard') \in Nat
                                  /\ Last(heard') # Garbled => Last(heard') \in 1 .. MaxMessage
  <2> DEFINE w == ajax[c].written
             li == Options(c).lastIndex
             transport == Options(c).transport
             handed == Handed(transport, SubSeq(w, 1, seen), li)
             l == Len(heard)
  <2>1. /\ w \in Seq(Nat) /\ li \in Nat /\ seen \in 1 .. Len(w) /\ Stream(w, pushed)
        /\ pushed' = pushed /\ heard' = heard \o handed
    <3>1. /\ w \in Seq(Nat)
          /\ Options(c) = request[ajax[c].request] /\ ajax[c].request \in 1 .. Len(request)
          /\ request \in Seq(RequestObject)
      BY Connections DEF ClientInv, Options
    <3>2. li \in Nat
      BY <3>1, ObjectFields
    <3>3. pushed' = pushed /\ heard' = heard \o handed
      BY <1>5 DEF Chunk
    <3> QED BY <3>1, <3>2, <3>3, <1>5, ChunkFacts, TextGoesOn
  <2> HIDE DEF w, li, transport
  <2>2. handed = << >> \/ \E m \in Nat : m <= pushed /\ handed = <<m>>
    BY <2>1, <1>1, HandedKnown
  <2> HIDE DEF handed
  <2>3. CASE handed = << >>
    <3>1. heard' = heard
      BY <2>1, <2>3, <1>1
    <3> QED BY <3>1, <2>1, <1>3
  <2>4. CASE handed # << >>
    <3>1. PICK m \in Nat : m <= pushed /\ handed = <<m>>
      BY <2>2, <2>4
    <3>2. heard' = Append(heard, m)
      BY <2>1, <3>1, <1>1
    <3>3. /\ heard' \in Seq(Nat) /\ Len(heard') = l + 1 /\ heard'[l + 1] = m
          /\ \A i \in 1 .. l : heard'[i] = heard[i]
      BY <3>2, <1>1, AppendProperties
    <3>4. l \in Nat /\ \A i \in 1 .. l + 1 : i \in 1 .. l \/ i = l + 1
      BY <1>1
    <3>5. Last(heard') = m
      BY <3>3 DEF Last
    <3>6. \A i \in 1 .. l + 1 : heard'[i] <= pushed
      BY <3>1, <3>3, <3>4, <1>2
    <3>7. pushed <= MaxMessage
      BY DEF Known
    <3>8. m # Garbled => m \in 1 .. MaxMessage
      BY <3>1, <3>7, <1>1 DEF Garbled
    <3> HIDE DEF l
    <3> QED BY <2>1, <3>3, <3>5, <3>6, <3>7, <3>8 DEF Known
  <2> QED BY <2>3, <2>4
<1>6. ASSUME NEW c \in 1 .. Len(ajax), Headers(c) \/ Refuse(c)
      PROVE  heard' = heard /\ pushed' = pushed
  BY <1>6 DEF Headers, Refuse
<1> QED BY <1>3, <1>4, <1>5, <1>6, ClientActions

\* The steps of the page as the chart sees them.
LEMMA ChartSees ==
  ASSUME ClientInv, Known, [Next]_vars
  PROVE  \/ UNCHANGED chartVars
         \/ \E value \in Value : AppendPoint(value)
         \/ ChartNext
<1>1. CASE ClientNext /\ Callback
  <2>1. CASE heard' = heard
    BY <2>1, <1>1 DEF Callback
  <2>2. CASE heard' # heard /\ Last(heard') = Garbled
    BY <2>2, <1>1, ValueIs DEF Callback
  <2>3. CASE heard' # heard /\ Last(heard') # Garbled
    <3>1. Last(heard') \in 1 .. MaxMessage
      BY <2>3, <1>1, HeardGrows
    <3>2. AsString(Field[Last(heard')]) \in Value
      BY <3>1, PageAssumption, ValueIs
    <3> QED BY <2>3, <3>2, <1>1 DEF Callback
  <2> QED BY <2>1, <2>2, <2>3
<1> QED BY <1>1 DEF Next, vars

LEMMA ChartStep ==
  ASSUME ClientInv, Known, ChartInv, [Next]_vars
  PROVE  ChartInv'
BY ChartSees, AppendKeepsScale, ResetKeepsScale, RenderKeepsScale, TickKeepsScale, ChartStays
   DEF ChartNext

LEMMA PageInitially == PageInit => PageInv
<1> SUFFICES ASSUME PageInit PROVE PageInv
  OBVIOUS
<1>1. Known
  <2>1. heard = << >> /\ pushed = 0 /\ << >> \in Seq(Nat) /\ Len(heard) = 0 /\ 1 .. 0 = {}
    BY EmptySeq DEF PageInit, Init
  <2> QED BY <2>1, ClientAssumption DEF Known
<1> QED BY <1>1, ClientInitially, ChartInitially DEF PageInv, PageInit

LEMMA PageStep == PageInv /\ [Next]_vars => PageInv'
<1> SUFFICES ASSUME PageInv, [Next]_vars PROVE PageInv'
  OBVIOUS
<1>1. ClientInv' /\ ChartInv'
  BY ClientStep, ChartStep DEF PageInv
<1>2. Known'
  <2>1. CASE ClientNext
    BY <2>1, HeardGrows DEF PageInv
  <2>2. CASE UNCHANGED clientVars
    BY <2>2 DEF PageInv, Known, clientVars
  <2> QED BY <2>1, <2>2 DEF Next, vars, clientVars
<1> QED BY <1>1, <1>2 DEF PageInv

LEMMA PageAlways == Spec => []PageInv
<1>1. PageInit => PageInv
  BY PageInitially
<1>2. PageInv /\ [Next]_vars => PageInv'
  BY PageStep
<1> QED BY <1>1, <1>2, PTL DEF Spec

\* index.gsp: client and chart keep their types.  In particular the chart is
\* never empty, its points are ordered by age, and every field that is asked
\* for belongs to a message that was broadcast.
THEOREM TypeTheorem == Spec => []TypeOK
<1>1. PageInv => TypeOK
  BY ClientTypes DEF PageInv, ChartInv, TypeOK
<1> QED BY <1>1, PageAlways, PTL

\* smoothie.js, lines 53-79: whatever is appended, deleted and worked out again,
\* the scale covers every point after the last that was not a number.
THEOREM ScaleTheorem == Spec => []ScaleCovers
<1>1. PageInv => ScaleCovers
  BY ScaleIsWide DEF PageInv
<1> QED BY <1>1, PageAlways, PTL

LEMMA LineStep ==
  ASSUME PageInv, [Next]_vars, NEW i \in DOMAIN data, data[i].age = Left
  PROVE  \E j \in DOMAIN data' : data'[j].age = Left
<1>1. /\ data \in Seq(Point) /\ data # << >> /\ DOMAIN data = 1 .. Len(data)
      /\ data' \in Seq(Point) /\ DOMAIN data' = 1 .. Len(data') /\ Len(data') \in Nat
      /\ Len(data) \in Nat
  <2>1. ChartInv /\ ChartInv'
    BY PageStep DEF PageInv
  <2>2. data' \in Seq(Point)
    BY <2>1 DEF ChartInv, ChartTypeOK
  <2> QED BY <2>1, <2>2, ChartFacts
<1>2. CASE data' = data
  BY <1>2
<1>3. ASSUME NEW value \in Value, AppendPoint(value)
      PROVE  \E j \in DOMAIN data' : data'[j].age = Left
  <2> DEFINE p == [age |-> 0, value |-> value]
  <2>1. p \in Point
    <3>1. 0 \in 0 .. Left
      BY ChartAssumption DEF Left
    <3> QED BY <3>1 DEF Point
  <2>2. data' = Append(data, p)
    BY <1>3 DEF AppendPoint
  <2> HIDE DEF p
  <2>3. Len(data') = Len(data) + 1 /\ data'[i] = data[i]
    BY <2>1, <2>2, <1>1, AppendProperties
  <2>4. i \in 1 .. Len(data')
    BY <2>3, <1>1
  <2> QED BY <2>3, <2>4, <1>1
<1>4. CASE data' = OnChart
  <2>1. PICK p \in 1 .. Len(data) :
          /\ Len(OnChart) = Len(data) - p + 1
          /\ \A k \in 1 .. Len(data) - p + 1 : OnChart[k] = data[p + k - 1]
          /\ data[p].age = Left
    BY <1>1, OnChartIs
  <2>2. 1 \in 1 .. Len(data) - p + 1 /\ p + 1 - 1 = p
    BY <1>1
  <2>3. 1 \in DOMAIN data' /\ data'[1] = data[p]
    BY <2>1, <2>2, <1>1, <1>4
  <2> QED BY <2>1, <2>3
<1>5. CASE Tick
  <2>1. i \in DOMAIN data' /\ data'[i] = [data[i] EXCEPT !.age = Left]
    BY <1>5 DEF Tick
  <2>2. data[i] \in Point
    BY <1>1
  <2>3. data'[i].age = Left
    BY <2>1, <2>2 DEF Point
  <2> QED BY <2>1, <2>3
<1>6. ASSUME ChartNext PROVE data' = data \/ data' = OnChart \/ Tick
  BY <1>6 DEF ChartNext, ResetBounds, Render
<1> QED BY <1>2, <1>3, <1>4, <1>5, <1>6, ChartSees DEF PageInv, chartVars

\* smoothie.js, lines 229-238: once a point has left the chart there always is
\* one from which the line comes in.
THEOREM LineTheorem == Spec => LineComesIn
<1>1. PageInv /\ [Next]_vars =>
        [(\E i \in DOMAIN data : data[i].age = Left) =>
            \E i \in DOMAIN data' : data'[i].age = Left]_chartVars
  BY LineStep
<1> QED BY <1>1, PageAlways, PTL DEF Spec, LineComesIn

LEMMA StopStep ==
  ASSUME PageInv, [Next]_vars, drawing, ~ drawing'
  PROVE  Len(data') = 1 \/ \E i \in DOMAIN data : IsNaN(data[i].value)
<1> DEFINE n == Len(data)
<1>1. /\ data \in Seq(Point) /\ data # << >> /\ n \in Nat \ {0} /\ DOMAIN data = 1 .. n
      /\ Scale(data, n, minValue, maxValue)
  BY ChartFacts DEF PageInv
<1>2. Render /\ data' = OnChart /\ drawing' = ~ minValue.string
  <2>1. ~ UNCHANGED chartVars
    BY DEF chartVars
  <2>2. ASSUME NEW value \in Value, AppendPoint(value) PROVE FALSE
    BY <2>2 DEF AppendPoint
  <2>3. ~ ResetBounds /\ ~ Tick
    BY DEF ResetBounds, Tick
  <2>4. Render
    BY <2>1, <2>2, <2>3, ChartSees DEF PageInv, ChartNext
  <2> QED BY <2>4 DEF Render
<1>3. minValue.string
  BY <1>2
<1>4. n \in 1 .. n /\ n # 0 /\ (n # 1 => n - 1 \in 1 .. n)
  BY <1>1
<1>5. CASE IsNaN(data[n].value)
  BY <1>1, <1>4, <1>5
<1>6. CASE ~ IsNaN(data[n].value)
  <2>1. n = 1 \/ IsNaN(data[n - 1].value)
    BY <1>3, <1>4, <1>6, <1>1 DEF Scale
  <2>2. CASE n = 1
    <3>1. PICK p \in 1 .. Len(data) : Len(OnChart) = Len(data) - p + 1
      BY <1>1, OnChartIs
    <3>2. p = 1
      BY <3>1, <2>2
    <3> QED BY <3>1, <3>2, <2>2, <1>2
  <2>3. CASE n # 1
    BY <2>1, <2>3, <1>1, <1>4
  <2> QED BY <2>2, <2>3
<1> QED BY <1>5, <1>6

\* smoothie.js, lines 66-69 and 113-119: the lower bound is a String only next
\* to a value that is not a number, or for a point that is alone.
THEOREM StopTheorem == Spec => StopsOnlyAlone
<1>1. PageInv /\ [Next]_vars =>
        [drawing /\ ~ drawing' =>
           Len(data') = 1 \/ \E i \in DOMAIN data : IsNaN(data[i].value)]_chartVars
  BY StopStep
<1> QED BY <1>1, PageAlways, PTL DEF Spec, StopsOnlyAlone

LEMMA ResetIsTight ==
  ASSUME PageInv, ResetBounds
  PROVE  Tight'
<1> DEFINE n == Len(data)
<1>1. /\ data' = data /\ data \in Seq(Point) /\ data # << >> /\ n \in Nat \ {0}
      /\ DOMAIN data = 1 .. n
      /\ maxValue' = Highest[n] /\ minValue' = Lowest[n]
  BY ChartFacts DEF PageInv, ResetBounds
<1>2. Reached(data, n, minValue', maxValue')
  BY <1>1, LoopReaches
<1> HIDE DEF n
<1>3. Scaled' = {data[i].value.n : i \in {j \in 1 .. n :
                   \A k \in j .. n : ~ IsNaN(data[k].value)}}
  BY <1>1 DEF Scaled, n
<1>4. n \in 1 .. n /\ \A i \in 1 .. n : n \in i .. n
  BY <1>1
<1>5. IsNaN(data[n].value) => Scaled' = {}
  BY <1>3, <1>4
<1>6. ~ IsNaN(data[n].value) => maxValue'.n \in Scaled' /\ minValue'.n \in Scaled'
  BY <1>2, <1>3 DEF Reached
<1> QED BY <1>5, <1>6 DEF Tight

\* smoothie.js, lines 53-71: every run of the interval timer leaves a scale that
\* is no wider than the values it covers, which is why the chart rescales.
THEOREM TightTheorem == Spec => [][ResetBounds => Tight']_chartVars
<1>1. PageInv /\ [Next]_vars => [ResetBounds => Tight']_chartVars
  BY ResetIsTight
<1> QED BY <1>1, PageAlways, PTL DEF Spec
=============================================================================
