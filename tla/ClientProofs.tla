---------------------------- MODULE ClientProofs ----------------------------
(***************************************************************************)
(* The push client's connections, for any number of subscriptions, of      *)
(* requests for each and of messages.  Every request object that is made   *)
(* for a call of subscribe, by the page or by a timeout, belongs to the    *)
(* chain of that call, and every connection has a place in its chain       *)
(* (Chained): at most one connection or timeout of a chain can go on, and  *)
(* whichever does has used up as many of the chain's MaxRequest places as  *)
(* its request object has counted.                                         *)
(***************************************************************************)
EXTENDS MonitorPage, FiniteSetTheorems, SequenceTheorems, TLAPS

RequestObject == [transport : {"streaming", "long-polling", "polling"}, suspend : BOOLEAN,
                  requestCount : Nat, lastIndex : Nat, id : Nat]

Closed == {"ended", "rejected", "failed", "cut", "aborted"}

\* What follows is said of three values, those of request, ajax and timer, at a
\* state or within a step.
Asks(requests, connections, c) == requests[connections[c].request].suspend

Listens(requests, connections, c) ==
  Asks(requests, connections, c) /\ connections[c].state \in Alive

GoesOn(requests, connections, timers, c) ==
  Listens(requests, connections, c) \/ c \in timers

\* The types.
Sane(requests, connections, timers) ==
  /\ requests \in Seq(RequestObject)
  /\ connections \in Seq(XMLHttpRequest)
  /\ \A c \in 1 .. Len(connections) : connections[c].request \in 1 .. Len(requests)
  /\ timers \subseteq 1 .. Len(connections)

\* A connection without headers has a timeout, one with headers has none, and
\* the request object remembers it.
Watched(requests, connections, timers) ==
  /\ \A r \in 1 .. Len(requests) : ~ requests[r].suspend => requests[r].id = None
  /\ \A c \in timers : Asks(requests, connections, c)
  /\ \A c \in 1 .. Len(connections) :
       Listens(requests, connections, c) =>
         /\ requests[connections[c].request].id = c
         /\ c \in timers <=> connections[c].state = "sent"

\* Chains and places, when the page has subscribed n times.
Chained(requests, connections, timers, n, chain, place) ==
  /\ chain \in Seq(Nat) /\ Len(chain) = Len(requests)
  /\ place \in Seq(Nat) /\ Len(place) = Len(connections)
  /\ \A c \in 1 .. Len(connections) :
       Asks(requests, connections, c) =>
         chain[connections[c].request] \in 1 .. n /\ place[c] \in 1 .. MaxRequest
  /\ \A c, d \in 1 .. Len(connections) :
       /\ Asks(requests, connections, c) /\ Asks(requests, connections, d)
       /\ chain[connections[c].request] = chain[connections[d].request]
       => /\ place[c] = place[d] => c = d
          /\ GoesOn(requests, connections, timers, c)
               => /\ place[d] <= requests[connections[c].request].requestCount
                  /\ GoesOn(requests, connections, timers, d) => c = d

Good(requests, connections, timers, n, chain, place) ==
  /\ Sane(requests, connections, timers)
  /\ Watched(requests, connections, timers)
  /\ Chained(requests, connections, timers, n, chain, place)

\* The reasons to fall silent.
Reason(requests, connections) ==
  \/ \E r \in 1 .. Len(requests) : requests[r].requestCount > MaxRequest
  \/ \E c \in 1 .. Len(connections) :
       Asks(requests, connections, c) /\ connections[c].state \in {"cut", "rejected"}

Silent(requests, connections, timers) ==
  /\ timers = {}
  /\ \A c \in 1 .. Len(connections) : ~ Listens(requests, connections, c)

Others ==
  /\ activeRequest \in 0 .. Len(ajax)
  /\ calls \in [subscribe : Nat, publish : Nat]
  /\ pushed \in Nat

ChainInv ==
  \E chain, place : Good(request, ajax, timer, calls.subscribe, chain, place)

Spoken ==
  calls.subscribe > 0 /\ Silent(request, ajax, timer) => Reason(request, ajax)

IInv == Others /\ ChainInv /\ Spoken

---------------------------------------------------------------------------
(* How the parts of a handler keep chains and places.                      *)

\* A new request object, which no connection belongs to.
LEMMA AddObject ==
  ASSUME NEW requests, NEW connections, NEW timers, NEW n \in Nat, NEW m \in Nat, n <= m,
         NEW chain, NEW place, Good(requests, connections, timers, n, chain, place),
         NEW options \in RequestObject, ~ options.suspend => options.id = None,
         NEW k \in Nat
  PROVE  Good(Append(requests, options), connections, timers, m, Append(chain, k), place)
<1> DEFINE more == Append(requests, options)
           links == Append(chain, k)
<1>1. /\ more \in Seq(RequestObject) /\ Len(more) = Len(requests) + 1
      /\ \A r \in 1 .. Len(requests) : more[r] = requests[r]
      /\ more[Len(requests) + 1] = options
  BY AppendProperties DEF Good, Sane
<1>2. /\ links \in Seq(Nat) /\ Len(links) = Len(requests) + 1
      /\ \A r \in 1 .. Len(requests) : links[r] = chain[r]
  BY AppendProperties DEF Good, Sane, Chained
<1>3. Len(requests) \in Nat /\ Len(connections) \in Nat
  BY DEF Good, Sane
<1>4. \A c \in 1 .. Len(connections) :
        /\ connections[c].request \in 1 .. Len(requests)
        /\ connections[c].request \in 1 .. Len(more)
        /\ more[connections[c].request] = requests[connections[c].request]
        /\ links[connections[c].request] = chain[connections[c].request]
        /\ Asks(more, connections, c) <=> Asks(requests, connections, c)
        /\ Listens(more, connections, c) <=> Listens(requests, connections, c)
        /\ GoesOn(more, connections, timers, c) <=> GoesOn(requests, connections, timers, c)
  BY <1>1, <1>2, <1>3 DEF Good, Sane, Asks, Listens, GoesOn
<1> HIDE DEF more, links
<1>5. Sane(more, connections, timers)
  BY <1>1, <1>4 DEF Good, Sane
<1>6. Watched(more, connections, timers)
  <2>1. \A r \in 1 .. Len(more) : ~ more[r].suspend => more[r].id = None
    BY <1>1, <1>3 DEF Good, Watched
  <2>2. \A c \in timers : c \in 1 .. Len(connections)
    BY DEF Good, Sane
  <2> QED BY <2>1, <2>2, <1>4 DEF Good, Watched
<1>7. Chained(more, connections, timers, m, links, place)
  <2>1. \A c \in 1 .. Len(connections) :
          Asks(more, connections, c) =>
            links[connections[c].request] \in 1 .. m /\ place[c] \in 1 .. MaxRequest
    <3>1. \A i \in 1 .. n : i \in 1 .. m
      OBVIOUS
    <3>2. \A c \in 1 .. Len(connections) :
            Asks(requests, connections, c) =>
              chain[connections[c].request] \in 1 .. n /\ place[c] \in 1 .. MaxRequest
      BY DEF Good, Chained
    <3> QED BY <3>1, <3>2, <1>4
  <2> QED BY <2>1, <1>1, <1>2, <1>4 DEF Good, Chained
<1> QED BY <1>5, <1>6, <1>7 DEF Good, more, links

\* A connection changes its state.
LEMMA ChangeState ==
  ASSUME NEW requests, NEW connections, NEW timers, NEW n \in Nat,
         NEW chain, NEW place, Good(requests, connections, timers, n, chain, place),
         NEW c \in 1 .. Len(connections), NEW new \in XMLHttpRequest,
         new.request = connections[c].request,
         NEW less, less \subseteq timers, timers \subseteq less \cup {c},
         new.state \in Alive => connections[c].state \in Alive,
         new.state \in Alive /\ Asks(requests, connections, c)
           => (c \in less <=> new.state = "sent")
  PROVE  Good(requests, [connections EXCEPT ![c] = new], less, n, chain, place)
<1> DEFINE changed == [connections EXCEPT ![c] = new]
<1>1. /\ changed \in Seq(XMLHttpRequest) /\ Len(changed) = Len(connections)
      /\ changed[c] = new
      /\ \A d \in 1 .. Len(connections) : d # c => changed[d] = connections[d]
  BY ExceptSeq DEF Good, Sane
<1>2. \A d \in 1 .. Len(connections) : changed[d].request = connections[d].request
  BY <1>1
<1> HIDE DEF changed
<1>3. \A d \in 1 .. Len(connections) :
        /\ Asks(requests, changed, d) <=> Asks(requests, connections, d)
        /\ Listens(requests, changed, d) => Listens(requests, connections, d)
        /\ GoesOn(requests, changed, less, d) => GoesOn(requests, connections, timers, d)
  BY <1>1, <1>2 DEF Asks, Listens, GoesOn
<1>4. Sane(requests, changed, less)
  BY <1>1, <1>2 DEF Good, Sane
<1>5. Watched(requests, changed, less)
  <2>1. \A d \in less : Asks(requests, changed, d)
    BY <1>3 DEF Good, Watched, Sane
  <2>2. ASSUME NEW d \in 1 .. Len(changed), Listens(requests, changed, d)
        PROVE  /\ requests[changed[d].request].id = d
               /\ d \in less <=> changed[d].state = "sent"
    <3>1. Listens(requests, connections, d) /\ requests[changed[d].request].id = d
      BY <2>2, <1>1, <1>2, <1>3 DEF Good, Watched
    <3>2. CASE d = c
      BY <3>1, <3>2, <2>2, <1>1, <1>3 DEF Listens
    <3>3. CASE d # c
      BY <3>1, <3>3, <2>2, <1>1 DEF Good, Watched
    <3> QED BY <3>1, <3>2, <3>3
  <2> QED BY <2>1, <2>2 DEF Good, Watched
<1>6. Chained(requests, changed, less, n, chain, place)
  BY <1>1, <1>2, <1>3 DEF Good, Chained
<1> QED BY <1>4, <1>5, <1>6 DEF Good, changed

\* What executeRequest needs of an object that asks for a suspended response:
\* nothing goes on in its chain, and it has counted the places of the chain.
Free(r, requests, connections, timers, n, chain, place) ==
  requests[r].suspend =>
    /\ chain[r] \in 1 .. n
    /\ \A d \in 1 .. Len(connections) :
         Asks(requests, connections, d) /\ chain[connections[d].request] = chain[r] =>
           /\ ~ GoesOn(requests, connections, timers, d)
           /\ place[d] <= requests[r].requestCount

\* executeRequest when it makes a request.
LEMMA ExecuteAgain ==
  ASSUME NEW requests, NEW connections, NEW timers, NEW n \in Nat,
         NEW chain, NEW place, Good(requests, connections, timers, n, chain, place),
         NEW r \in 1 .. Len(requests),
         Free(r, requests, connections, timers, n, chain, place),
         requests[r].requestCount < MaxRequest,
         Execute(r, requests, connections, timers)
  PROVE  /\ \E p : Good(request', ajax', timer', n, chain, p)
         /\ requests[r].suspend => ~ Silent(request', ajax', timer')
<1> DEFINE c == Len(connections) + 1
           suspend == requests[r].suspend
           new == [request |-> r, state |-> "sent", written |-> << >>, seen |-> 0]
           counted == [requests[r] EXCEPT !.requestCount = @ + 1,
                                          !.id = IF suspend THEN c ELSE @]
           p == Append(place, IF suspend THEN requests[r].requestCount + 1 ELSE 0)
<1>1. /\ Len(requests) \in Nat /\ Len(connections) \in Nat
      /\ requests[r] \in RequestObject /\ requests[r].requestCount \in Nat
      /\ suspend \in BOOLEAN /\ MaxRequest \in Nat
  <2>1. requests \in Seq(RequestObject) /\ connections \in Seq(XMLHttpRequest)
    BY DEF Good, Sane
  <2>2. Len(requests) \in Nat /\ Len(connections) \in Nat
    BY <2>1
  <2>3. requests[r] \in RequestObject
    BY <2>1
  <2>4. requests[r].requestCount \in Nat /\ suspend \in BOOLEAN
    BY <2>3 DEF RequestObject
  <2>5. MaxRequest \in Nat
    BY ClientAssumption
  <2> QED BY <2>2, <2>3, <2>4, <2>5
<1>2. /\ ajax' = Append(connections, new)
      /\ timer' = IF suspend THEN timers \cup {c} ELSE timers
      /\ request' = [requests EXCEPT ![r].requestCount = @ + 1,
                                     ![r].id = IF suspend THEN c ELSE @]
  BY DEF Execute
<1>3. /\ request' \in Seq(RequestObject) /\ Len(request') = Len(requests)
      /\ request'[r] = counted
      /\ \A q \in 1 .. Len(requests) : q # r => request'[q] = requests[q]
  <2>1. counted \in RequestObject
    <3>1. (IF suspend THEN c ELSE requests[r].id) \in Nat
      BY <1>1 DEF RequestObject
    <3>2. requests[r].requestCount + 1 \in Nat
      BY <1>1
    <3> HIDE DEF suspend, c
    <3> QED BY <1>1, <3>1, <3>2 DEF RequestObject
  <2>2. request' = [requests EXCEPT ![r] = counted]
    <3>1. \A q \in DOMAIN requests : request'[q] = IF q = r THEN counted ELSE requests[q]
      BY <1>2 DEF Good, Sane
    <3>2. request' = [q \in DOMAIN requests |-> request'[q]]
      BY <1>2
    <3> HIDE DEF counted
    <3>3. [requests EXCEPT ![r] = counted] =
            [q \in DOMAIN requests |-> IF q = r THEN counted ELSE requests[q]]
      OBVIOUS
    <3>4. [q \in DOMAIN requests |-> request'[q]] =
            [q \in DOMAIN requests |-> IF q = r THEN counted ELSE requests[q]]
      BY <3>1
    <3> QED BY <3>2, <3>3, <3>4
  <2>3. requests \in Seq(RequestObject)
    BY DEF Good, Sane
  <2> HIDE DEF counted
  <2> QED BY <2>1, <2>2, <2>3, ExceptSeq
<1>4. /\ counted.suspend = suspend
      /\ counted.requestCount = requests[r].requestCount + 1
      /\ counted.id = IF suspend THEN c ELSE requests[r].id
  BY <1>1 DEF RequestObject
<1>5. new \in XMLHttpRequest /\ new.request = r /\ new.state = "sent"
  BY <1>1 DEF XMLHttpRequest, Alive
<1> HIDE DEF new, counted
<1>6. /\ ajax' \in Seq(XMLHttpRequest) /\ Len(ajax') = c /\ ajax'[c] = new
      /\ \A d \in 1 .. Len(connections) : ajax'[d] = connections[d]
  BY <1>2, <1>5, AppendProperties DEF Good, Sane
<1>7. /\ p \in Seq(Nat) /\ Len(p) = c
      /\ p[c] = IF suspend THEN requests[r].requestCount + 1 ELSE 0
      /\ \A d \in 1 .. Len(connections) : p[d] = place[d]
  <2>1. place \in Seq(Nat) /\ Len(place) = Len(connections)
    BY DEF Good, Chained
  <2>2. (IF suspend THEN requests[r].requestCount + 1 ELSE 0) \in Nat
    BY <1>1
  <2> QED BY <2>1, <2>2, AppendProperties
<1> HIDE DEF p
<1>8. 1 .. c = (1 .. Len(connections)) \cup {c} /\ c \notin 1 .. Len(connections)
  BY <1>1
<1>9. \A d \in 1 .. Len(connections) :
        /\ connections[d].request \in 1 .. Len(requests)
        /\ ajax'[d].request = connections[d].request
        /\ Asks(request', ajax', d) <=> Asks(requests, connections, d)
        /\ Listens(request', ajax', d) <=> Listens(requests, connections, d)
        /\ GoesOn(request', ajax', timer', d) <=> GoesOn(requests, connections, timers, d)
  BY <1>2, <1>3, <1>4, <1>6, <1>8 DEF Good, Sane, Asks, Listens, GoesOn
<1>10. /\ ajax'[c].request = r
       /\ Asks(request', ajax', c) <=> suspend
       /\ Listens(request', ajax', c) <=> suspend
       /\ GoesOn(request', ajax', timer', c) <=> suspend
  BY <1>1, <1>2, <1>3, <1>4, <1>5, <1>6, <1>8 DEF Good, Sane, Asks, Listens, GoesOn, Alive
<1>11. Sane(request', ajax', timer')
  <2>1. \A d \in 1 .. Len(ajax') : ajax'[d].request \in 1 .. Len(request')
    BY <1>3, <1>6, <1>8, <1>9, <1>10
  <2>2. timer' \subseteq 1 .. Len(ajax')
    BY <1>2, <1>6, <1>8 DEF Good, Sane
  <2> QED BY <1>3, <1>6, <2>1, <2>2 DEF Sane
<1>12. Watched(request', ajax', timer')
  <2>1. \A q \in 1 .. Len(request') : ~ request'[q].suspend => request'[q].id = None
    BY <1>3, <1>4 DEF Good, Watched
  <2>2. \A d \in timer' : Asks(request', ajax', d)
    BY <1>2, <1>9, <1>10 DEF Good, Sane, Watched
  <2>3. ASSUME NEW d \in 1 .. Len(ajax'), Listens(request', ajax', d)
        PROVE  /\ request'[ajax'[d].request].id = d
               /\ d \in timer' <=> ajax'[d].state = "sent"
    <3>1. CASE d = c
      BY <3>1, <2>3, <1>2, <1>3, <1>4, <1>5, <1>6, <1>10
    <3>2. CASE d # c
      <4>1. d \in 1 .. Len(connections) /\ Listens(requests, connections, d)
        BY <3>2, <2>3, <1>6, <1>8, <1>9
      <4>2. ~ (suspend /\ connections[d].request = r)
        BY <4>1 DEF Free, Listens, GoesOn
      <4>3. connections[d].request = r => suspend
        BY <4>1 DEF Listens, Asks
      <4>4. /\ requests[connections[d].request].id = d
            /\ d \in timers <=> connections[d].state = "sent"
        BY <4>1 DEF Good, Watched
      <4> QED BY <4>1, <4>2, <4>3, <4>4, <3>2, <1>2, <1>3, <1>6, <1>9
    <3> QED BY <3>1, <3>2
  <2> QED BY <2>1, <2>2, <2>3 DEF Watched
<1>13. Chained(request', ajax', timer', n, chain, p)
  <2>1. chain \in Seq(Nat) /\ Len(chain) = Len(request')
    BY <1>3 DEF Good, Chained
  <2>2. \A d \in 1 .. Len(ajax') :
          Asks(request', ajax', d) =>
            chain[ajax'[d].request] \in 1 .. n /\ p[d] \in 1 .. MaxRequest
    <3>1. \A d \in 1 .. Len(connections) :
            Asks(request', ajax', d) =>
              chain[ajax'[d].request] \in 1 .. n /\ p[d] \in 1 .. MaxRequest
      BY <1>7, <1>9 DEF Good, Chained
    <3>2. suspend => chain[r] \in 1 .. n /\ p[c] \in 1 .. MaxRequest
      BY <1>1, <1>7 DEF Free
    <3> QED BY <3>1, <3>2, <1>6, <1>8, <1>10
  <2>3. ASSUME NEW d \in 1 .. Len(ajax'), NEW e \in 1 .. Len(ajax'),
               Asks(request', ajax', d), Asks(request', ajax', e),
               chain[ajax'[d].request] = chain[ajax'[e].request]
        PROVE  /\ p[d] = p[e] => d = e
               /\ GoesOn(request', ajax', timer', d)
                    => /\ p[e] <= request'[ajax'[d].request].requestCount
                       /\ GoesOn(request', ajax', timer', e) => d = e
    <3>1. CASE d = c /\ e = c
      BY <3>1, <2>3, <1>1, <1>3, <1>4, <1>7, <1>10
    <3>2. CASE d = c /\ e # c
      <4>1. e \in 1 .. Len(connections) /\ suspend
        BY <3>2, <2>3, <1>6, <1>8, <1>10
      <4>2. ~ GoesOn(requests, connections, timers, e) /\ place[e] <= requests[r].requestCount
        BY <4>1, <3>2, <2>3, <1>9, <1>10 DEF Free
      <4>3. place[e] \in Nat
        BY <4>1 DEF Good, Chained
      <4>4. p[e] = place[e] /\ p[d] = requests[r].requestCount + 1
        BY <4>1, <3>2, <1>7
      <4>5. request'[ajax'[d].request].requestCount = requests[r].requestCount + 1
        BY <3>2, <1>3, <1>4, <1>10
      <4> QED BY <4>1, <4>2, <4>3, <4>4, <4>5, <3>2, <1>1, <1>9
    <3>3. CASE d # c /\ e = c
      <4>1. d \in 1 .. Len(connections) /\ suspend
        BY <3>3, <2>3, <1>6, <1>8, <1>10
      <4>2. ~ GoesOn(requests, connections, timers, d) /\ place[d] <= requests[r].requestCount
        BY <4>1, <3>3, <2>3, <1>9, <1>10 DEF Free
      <4>3. place[d] \in Nat
        BY <4>1 DEF Good, Chained
      <4>4. p[d] = place[d] /\ p[e] = requests[r].requestCount + 1
        BY <4>1, <3>3, <1>7
      <4> QED BY <4>1, <4>2, <4>3, <4>4, <1>1, <1>9
    <3>4. CASE d # c /\ e # c
      <4>1. d \in 1 .. Len(connections) /\ e \in 1 .. Len(connections)
        BY <3>4, <1>6, <1>8
      <4>2. /\ place[d] = place[e] => d = e
            /\ GoesOn(requests, connections, timers, d)
                 => /\ place[e] <= requests[connections[d].request].requestCount
                    /\ GoesOn(requests, connections, timers, e) => d = e
        BY <4>1, <2>3, <1>9 DEF Good, Chained
      <4>3. GoesOn(requests, connections, timers, d) => connections[d].request # r
        BY <4>1, <2>3, <1>9 DEF Free, Asks
      <4>4. p[d] = place[d] /\ p[e] = place[e]
        BY <4>1, <1>7
      <4> QED BY <4>1, <4>2, <4>3, <4>4, <1>3, <1>9
    <3> QED BY <3>1, <3>2, <3>3, <3>4
  <2> QED BY <2>1, <2>2, <2>3, <1>6, <1>7 DEF Chained
<1>14. suspend => ~ Silent(request', ajax', timer')
  BY <1>6, <1>8, <1>10 DEF Silent
<1> QED BY <1>11, <1>12, <1>13, <1>14 DEF Good

\* executeRequest when the object has made all its requests.
LEMMA ExecuteNoMore ==
  ASSUME NEW requests, NEW connections, NEW timers, NEW n \in Nat,
         NEW chain, NEW place, Good(requests, connections, timers, n, chain, place),
         NEW r \in 1 .. Len(requests),
         ~ (requests[r].requestCount < MaxRequest),
         Execute(r, requests, connections, timers)
  PROVE  /\ Good(request', ajax', timer', n, chain, place)
         /\ Reason(request', ajax')
<1> DEFINE counted == [requests[r] EXCEPT !.requestCount = @ + 1]
<1>1. requests \in Seq(RequestObject) /\ Len(requests) \in Nat /\ requests[r] \in RequestObject
  BY DEF Good, Sane
<1>2. requests[r].requestCount \in Nat /\ MaxRequest \in Nat
  BY <1>1, ClientAssumption DEF RequestObject
<1>3. /\ ajax' = connections /\ timer' = timers
      /\ request' = [requests EXCEPT ![r] = counted]
  BY DEF Execute
<1>4. /\ counted \in RequestObject
      /\ counted.suspend = requests[r].suspend /\ counted.id = requests[r].id
      /\ counted.requestCount = requests[r].requestCount + 1
  <2>1. requests[r].requestCount + 1 \in Nat
    BY <1>2
  <2> QED BY <1>1, <2>1 DEF RequestObject
<1> HIDE DEF counted
<1>5. /\ request' \in Seq(RequestObject) /\ Len(request') = Len(requests)
      /\ request'[r] = counted
      /\ \A q \in 1 .. Len(requests) : q # r => request'[q] = requests[q]
  BY <1>1, <1>3, <1>4, ExceptSeq
<1>6. \A q \in 1 .. Len(requests) :
        /\ request'[q].suspend = requests[q].suspend /\ request'[q].id = requests[q].id
        /\ requests[q].requestCount \in Nat
        /\ request'[q].requestCount \in Nat
        /\ requests[q].requestCount <= request'[q].requestCount
  <2>1. \A q \in 1 .. Len(requests) : requests[q].requestCount \in Nat
    <3>1. \A q \in 1 .. Len(requests) : requests[q] \in RequestObject
      BY <1>1
    <3> QED BY <3>1 DEF RequestObject
  <2> QED BY <2>1, <1>2, <1>4, <1>5
<1>7. \A c \in 1 .. Len(connections) :
        /\ connections[c].request \in 1 .. Len(requests)
        /\ Asks(request', connections, c) <=> Asks(requests, connections, c)
        /\ Listens(request', connections, c) <=> Listens(requests, connections, c)
        /\ GoesOn(request', connections, timers, c) <=> GoesOn(requests, connections, timers, c)
  BY <1>6 DEF Good, Sane, Asks, Listens, GoesOn
<1>8. Sane(request', connections, timers)
  BY <1>5 DEF Good, Sane
<1>9. Watched(request', connections, timers)
  <2>1. \A c \in timers : c \in 1 .. Len(connections)
    BY DEF Good, Sane
  <2> QED BY <2>1, <1>5, <1>6, <1>7 DEF Good, Watched
<1>10. Chained(request', connections, timers, n, chain, place)
  <2>1. ASSUME NEW c \in 1 .. Len(connections), NEW d \in 1 .. Len(connections),
               Asks(request', connections, c), Asks(request', connections, d),
               chain[connections[c].request] = chain[connections[d].request]
        PROVE  /\ place[c] = place[d] => c = d
               /\ GoesOn(request', connections, timers, c)
                    => /\ place[d] <= request'[connections[c].request].requestCount
                       /\ GoesOn(request', connections, timers, d) => c = d
    <3>1. /\ place[c] = place[d] => c = d
          /\ GoesOn(requests, connections, timers, c)
               => /\ place[d] <= requests[connections[c].request].requestCount
                  /\ GoesOn(requests, connections, timers, d) => c = d
      BY <2>1, <1>7 DEF Good, Chained
    <3>2. place[d] \in Nat
      BY DEF Good, Chained
    <3> QED BY <3>1, <3>2, <1>6, <1>7
  <2>2. \A c \in 1 .. Len(connections) :
          Asks(request', connections, c) =>
            chain[connections[c].request] \in 1 .. n /\ place[c] \in 1 .. MaxRequest
    BY <1>7 DEF Good, Chained
  <2> QED BY <2>1, <2>2, <1>5 DEF Good, Chained
<1>11. Reason(request', ajax')
  BY <1>2, <1>4, <1>5 DEF Reason
<1> QED BY <1>3, <1>8, <1>9, <1>10, <1>11 DEF Good

\* executeRequest, either way: the chain goes on with one more request, or has a
\* reason to end.
LEMMA ExecuteKeeps ==
  ASSUME NEW requests, NEW connections, NEW timers, NEW n \in Nat,
         NEW chain, NEW place, Good(requests, connections, timers, n, chain, place),
         NEW r \in 1 .. Len(requests),
         Free(r, requests, connections, timers, n, chain, place),
         Execute(r, requests, connections, timers)
  PROVE  /\ \E p : Good(request', ajax', timer', n, chain, p)
         /\ requests[r].suspend /\ Silent(request', ajax', timer') => Reason(request', ajax')
<1>1. CASE requests[r].requestCount < MaxRequest
  BY <1>1, ExecuteAgain
<1>2. CASE ~ (requests[r].requestCount < MaxRequest)
  BY <1>2, ExecuteNoMore
<1> QED BY <1>1, <1>2

\* A connection finishes.
LEMMA FinishedTypes ==
  ASSUME NEW connection \in XMLHttpRequest, NEW state \in Closed
  PROVE  /\ Finished(connection, state) \in XMLHttpRequest
         /\ Finished(connection, state).request = connection.request
         /\ Finished(connection, state).state = state
         /\ state \notin Alive
<1>1. << >> \in Seq(Nat) /\ 0 \in Nat
  BY EmptySeq
<1>2. state \in Alive \cup {"ended", "rejected", "failed", "cut", "aborted"} /\ state \notin Alive
  BY DEF Closed, Alive
<1> QED BY <1>1, <1>2 DEF Finished, XMLHttpRequest

\* The page listens to no other connections than before, and not to c.
Without(c, requests, connections, closed) ==
  /\ Len(closed) = Len(connections)
  /\ \A d \in 1 .. Len(connections) :
       /\ closed[d].request = connections[d].request
       /\ Listens(requests, closed, d) => Listens(requests, connections, d) /\ d # c

Ended(connections, c, state) == [connections EXCEPT ![c] = Finished(@, state)]

LEMMA FinishEffect ==
  ASSUME NEW requests, NEW connections \in Seq(XMLHttpRequest),
         NEW c \in 1 .. Len(connections), NEW state \in Closed
  PROVE  Without(c, requests, connections, Ended(connections, c, state))
<1> DEFINE new == Finished(connections[c], state)
           finished == [connections EXCEPT ![c] = new]
<1>1. connections[c] \in XMLHttpRequest
  OBVIOUS
<1>2. /\ new \in XMLHttpRequest /\ new.request = connections[c].request
      /\ new.state = state /\ state \notin Alive
  BY <1>1, FinishedTypes
<1> HIDE DEF new
<1>3. /\ Len(finished) = Len(connections) /\ finished[c] = new
      /\ \A d \in 1 .. Len(connections) : d # c => finished[d] = connections[d]
  BY <1>2, ExceptSeq
<1>4. Ended(connections, c, state) = finished
  BY DEF new, Ended
<1> HIDE DEF finished
<1>5. \A d \in 1 .. Len(connections) :
        /\ finished[d].request = connections[d].request
        /\ Listens(requests, finished, d) => Listens(requests, connections, d) /\ d # c
  BY <1>2, <1>3 DEF Listens, Asks
<1> QED BY <1>3, <1>4, <1>5 DEF Without

LEMMA FinishKeeps ==
  ASSUME NEW requests, NEW connections, NEW timers, NEW n \in Nat,
         NEW chain, NEW place, Good(requests, connections, timers, n, chain, place),
         NEW c \in 1 .. Len(connections), NEW state \in Closed
  PROVE  /\ Good(requests, Ended(connections, c, state), timers, n, chain, place)
         /\ connections \in Seq(XMLHttpRequest)
<1> DEFINE new == Finished(connections[c], state)
<1>1. connections \in Seq(XMLHttpRequest) /\ connections[c] \in XMLHttpRequest
  BY DEF Good, Sane
<1>2. /\ new \in XMLHttpRequest /\ new.request = connections[c].request
      /\ new.state = state /\ state \notin Alive
  BY <1>1, FinishedTypes
<1>3. Ended(connections, c, state) = [connections EXCEPT ![c] = new]
  BY DEF Ended
<1> HIDE DEF new
<1>4. Good(requests, [connections EXCEPT ![c] = new], timers, n, chain, place)
  BY <1>2, ChangeState
<1> QED BY <1>1, <1>3, <1>4

\* abort() of a connection, or of none.
LEMMA AbortKeeps ==
  ASSUME NEW requests, NEW connections, NEW timers, NEW n \in Nat,
         NEW chain, NEW place, Good(requests, connections, timers, n, chain, place),
         NEW c \in 0 .. Len(connections)
  PROVE  /\ Good(requests, Aborted(c, connections), timers, n, chain, place)
         /\ Without(c, requests, connections, Aborted(c, connections))
<1>1. Len(connections) \in Nat
  BY DEF Good, Sane
<1>2. CASE c # None /\ connections[c].state \in Alive
  <2>1. c \in 1 .. Len(connections) /\ "aborted" \in Closed
    BY <1>1, <1>2 DEF None, Closed
  <2>2. Aborted(c, connections) = Ended(connections, c, "aborted")
    BY <1>2 DEF Aborted, Ended
  <2>3. Good(requests, Aborted(c, connections), timers, n, chain, place)
    BY <2>1, <2>2, FinishKeeps
  <2>4. connections \in Seq(XMLHttpRequest)
    BY DEF Good, Sane
  <2> QED BY <2>1, <2>2, <2>3, <2>4, FinishEffect
<1>3. CASE c = None
  BY <1>1, <1>3 DEF Aborted, None, Without
<1>4. CASE connections[c].state \notin Alive
  BY <1>4 DEF Aborted, Listens, Without
<1> QED BY <1>2, <1>3, <1>4

\* A timeout is over.
LEMMA DropTimer ==
  ASSUME NEW requests, NEW connections, NEW timers, NEW n \in Nat,
         NEW chain, NEW place, Good(requests, connections, timers, n, chain, place),
         NEW c, ~ Listens(requests, connections, c)
  PROVE  Good(requests, connections, timers \ {c}, n, chain, place)
<1>1. \A d : GoesOn(requests, connections, timers \ {c}, d)
               => GoesOn(requests, connections, timers, d)
  BY DEF GoesOn
<1>2. Sane(requests, connections, timers \ {c})
  BY DEF Good, Sane
<1>3. Watched(requests, connections, timers \ {c})
  <2>1. ASSUME NEW d \in 1 .. Len(connections), Listens(requests, connections, d)
        PROVE  /\ requests[connections[d].request].id = d
               /\ d \in timers \ {c} <=> connections[d].state = "sent"
    <3>1. d # c
      BY <2>1
    <3> QED BY <3>1, <2>1 DEF Good, Watched
  <2> QED BY <2>1 DEF Good, Watched
<1>4. Chained(requests, connections, timers \ {c}, n, chain, place)
  BY <1>1 DEF Good, Chained
<1> QED BY <1>2, <1>3, <1>4 DEF Good

\* What does not touch the counts, the timeouts and the states.
LEMMA SameShape ==
  ASSUME NEW requests, NEW connections, NEW timers, NEW n \in Nat,
         NEW chain, NEW place, Good(requests, connections, timers, n, chain, place),
         NEW others \in Seq(RequestObject), Len(others) = Len(requests),
         NEW texts \in Seq(XMLHttpRequest), Len(texts) = Len(connections),
         \A r \in 1 .. Len(requests) :
           /\ others[r].suspend = requests[r].suspend /\ others[r].id = requests[r].id
           /\ others[r].requestCount = requests[r].requestCount,
         \A c \in 1 .. Len(connections) :
           /\ texts[c].request = connections[c].request
           /\ texts[c].state = connections[c].state
  PROVE  /\ Good(others, texts, timers, n, chain, place)
         /\ Silent(others, texts, timers) => Silent(requests, connections, timers)
         /\ Reason(requests, connections) => Reason(others, texts)
<1>1. \A c \in 1 .. Len(connections) :
        /\ connections[c].request \in 1 .. Len(requests)
        /\ Asks(others, texts, c) <=> Asks(requests, connections, c)
        /\ Listens(others, texts, c) <=> Listens(requests, connections, c)
        /\ GoesOn(others, texts, timers, c) <=> GoesOn(requests, connections, timers, c)
  BY DEF Good, Sane, Asks, Listens, GoesOn
<1>2. Sane(others, texts, timers)
  BY DEF Good, Sane
<1>3. Watched(others, texts, timers)
  <2>1. \A c \in timers : c \in 1 .. Len(connections)
    BY DEF Good, Sane
  <2>2. \A c \in timers : Asks(others, texts, c)
    BY <2>1, <1>1 DEF Good, Watched
  <2>3. \A r \in 1 .. Len(others) : ~ others[r].suspend => others[r].id = None
    BY DEF Good, Watched
  <2>4. ASSUME NEW c \in 1 .. Len(texts), Listens(others, texts, c)
        PROVE  /\ others[texts[c].request].id = c
               /\ c \in timers <=> texts[c].state = "sent"
    <3>1. /\ requests[connections[c].request].id = c
          /\ c \in timers <=> connections[c].state = "sent"
      BY <2>4, <1>1 DEF Good, Watched
    <3> QED BY <3>1, <1>1
  <2> QED BY <2>2, <2>3, <2>4 DEF Watched
<1>4. Chained(others, texts, timers, n, chain, place)
  <2>1. \A c \in 1 .. Len(connections) :
          others[texts[c].request].requestCount = requests[connections[c].request].requestCount
    BY <1>1
  <2>2. ASSUME NEW c \in 1 .. Len(texts), NEW d \in 1 .. Len(texts),
               Asks(others, texts, c), Asks(others, texts, d),
               chain[texts[c].request] = chain[texts[d].request]
        PROVE  /\ place[c] = place[d] => c = d
               /\ GoesOn(others, texts, timers, c)
                    => /\ place[d] <= others[texts[c].request].requestCount
                       /\ GoesOn(others, texts, timers, d) => c = d
    <3>1. /\ Asks(requests, connections, c) /\ Asks(requests, connections, d)
          /\ chain[connections[c].request] = chain[connections[d].request]
      BY <2>2, <1>1
    <3> QED BY <3>1, <2>1, <1>1 DEF Good, Chained
  <2>3. \A c \in 1 .. Len(texts) :
          Asks(others, texts, c) =>
            chain[texts[c].request] \in 1 .. n /\ place[c] \in 1 .. MaxRequest
    BY <1>1 DEF Good, Chained
  <2> QED BY <2>2, <2>3 DEF Good, Chained
<1>5. Silent(others, texts, timers) => Silent(requests, connections, timers)
  BY <1>1 DEF Silent
<1>6. Reason(requests, connections) => Reason(others, texts)
  BY <1>1 DEF Reason
<1> QED BY <1>2, <1>3, <1>4, <1>5, <1>6 DEF Good

\* A connection that changes its state is heard of or is a reason.
LEMMA ChangeSpeaks ==
  ASSUME NEW requests, NEW connections \in Seq(XMLHttpRequest), NEW timers,
         NEW c \in 1 .. Len(connections), NEW new \in XMLHttpRequest,
         new.request = connections[c].request, NEW less,
         Silent(requests, connections, timers) => Reason(requests, connections),
         Asks(requests, connections, c) =>
           new.state \in Alive \/ new.state \in {"cut", "rejected"} \/ c \in less,
         ~ Asks(requests, connections, c) => less = timers,
         Silent(requests, [connections EXCEPT ![c] = new], less)
  PROVE  Reason(requests, [connections EXCEPT ![c] = new])
<1> DEFINE changed == [connections EXCEPT ![c] = new]
<1>1. /\ Len(changed) = Len(connections) /\ changed[c] = new
      /\ \A d \in 1 .. Len(connections) : d # c => changed[d] = connections[d]
  BY ExceptSeq
<1> HIDE DEF changed
<1>2. \A d \in 1 .. Len(connections) : Asks(requests, changed, d) <=> Asks(requests, connections, d)
  BY <1>1 DEF Asks
<1>3. Silent(requests, changed, less)
  BY DEF changed
<1>4. CASE Asks(requests, connections, c)
  <2>1. new.state \in {"cut", "rejected"}
    BY <1>1, <1>2, <1>3, <1>4 DEF Silent, Listens
  <2>2. Reason(requests, changed)
    BY <2>1, <1>1, <1>2, <1>4 DEF Reason
  <2> QED BY <2>2 DEF changed
<1>5. CASE ~ Asks(requests, connections, c)
  <2>1. \A d \in 1 .. Len(connections) : ~ Listens(requests, connections, d)
    <3>1. ASSUME NEW d \in 1 .. Len(connections), Listens(requests, connections, d)
          PROVE  FALSE
      <4>1. d # c
        BY <1>5, <3>1 DEF Listens
      <4>2. Listens(requests, changed, d)
        BY <4>1, <3>1, <1>1, <1>2 DEF Listens
      <4> QED BY <4>2, <1>1, <1>3 DEF Silent
    <3> QED BY <3>1
  <2>2. Reason(requests, connections)
    BY <2>1, <1>3, <1>5 DEF Silent
  <2>3. Reason(requests, changed)
    BY <2>2, <1>1, <1>2, <1>5 DEF Reason
  <2> QED BY <2>3 DEF changed
<1> QED BY <1>4, <1>5

LEMMA ExecuteActive ==
  ASSUME NEW requests, NEW connections \in Seq(XMLHttpRequest), NEW timers, NEW r,
         activeRequest \in 0 .. Len(connections),
         Execute(r, requests, connections, timers)
  PROVE  activeRequest' \in 0 .. Len(ajax')
<1> DEFINE new == [request |-> r, state |-> "sent", written |-> << >>, seen |-> 0]
<1>1. Len(connections) \in Nat
  OBVIOUS
<1>2. CASE requests[r].requestCount < MaxRequest
  <2>1. ajax' = Append(connections, new)
        /\ activeRequest' \in {activeRequest, Len(connections) + 1}
    BY <1>2 DEF Execute
  <2>2. Len(ajax') = Len(connections) + 1
    BY <2>1
  <2> QED BY <2>1, <2>2, <1>1
<1>3. CASE ~ (requests[r].requestCount < MaxRequest)
  BY <1>3 DEF Execute
<1> QED BY <1>2, <1>3

---------------------------------------------------------------------------
(* Every action keeps the invariant.                                       *)

\* Nothing goes on in the chain k, and count places of it are taken.
Idle(k, count, requests, connections, timers, chain, place) ==
  \A d \in 1 .. Len(connections) :
    Asks(requests, connections, d) /\ chain[connections[d].request] = k =>
      ~ GoesOn(requests, connections, timers, d) /\ place[d] <= count

\* subscribe with an object of an idle chain.
LEMMA SubscribeKeeps ==
  ASSUME NEW connections, NEW timers, NEW n \in Nat, NEW m \in Nat, n <= m,
         NEW chain, NEW place, Good(request, connections, timers, n, chain, place),
         NEW options \in RequestObject, options.suspend, NEW k \in 1 .. m,
         activeRequest \in 0 .. Len(connections),
         Idle(k, options.requestCount, request, connections, timers, chain, place),
         SubscribeWith(options, connections, timers)
  PROVE  /\ \E ch, p : Good(request', ajax', timer', m, ch, p)
         /\ Silent(request', ajax', timer') => Reason(request', ajax')
         /\ activeRequest' \in 0 .. Len(ajax')
<1> DEFINE r == Len(request) + 1
           closed == IF options.transport # activeTransport
                       THEN Aborted(activeRequest, connections) ELSE connections
           more == Append(request, options)
           links == Append(chain, k)
<1>1. /\ Good(request, closed, timers, n, chain, place)
      /\ Len(closed) = Len(connections)
      /\ \A d \in 1 .. Len(connections) :
           /\ closed[d].request = connections[d].request
           /\ Listens(request, closed, d) => Listens(request, connections, d)
  <2>1. CASE options.transport # activeTransport
    <3>1. /\ Good(request, closed, timers, n, chain, place)
          /\ Without(activeRequest, request, connections, closed)
      BY <2>1, AbortKeeps
    <3> HIDE DEF closed
    <3> QED BY <3>1 DEF Without
  <2>2. CASE options.transport = activeTransport
    BY <2>2
  <2> QED BY <2>1, <2>2
<1>2. Execute(r, more, closed, timers)
  BY DEF SubscribeWith
<1> HIDE DEF closed
<1>3. Good(more, closed, timers, m, links, place)
  <2>1. ~ options.suspend => options.id = None
    OBVIOUS
  <2>2. k \in Nat
    OBVIOUS
  <2> QED BY <1>1, <2>1, <2>2, AddObject
<1>4. /\ request \in Seq(RequestObject) /\ Len(request) \in Nat
      /\ chain \in Seq(Nat) /\ Len(chain) = Len(request)
      /\ closed \in Seq(XMLHttpRequest) /\ Len(closed) \in Nat
      /\ \A d \in 1 .. Len(closed) : closed[d].request \in 1 .. Len(request)
  BY <1>1 DEF Good, Sane, Chained
<1>5. /\ Len(more) = r /\ more[r] = options /\ links[r] = k
      /\ \A q \in 1 .. Len(request) : more[q] = request[q] /\ links[q] = chain[q]
  BY <1>4, AppendProperties
<1>6. r \in 1 .. Len(more)
  BY <1>4, <1>5
<1> HIDE DEF more, links, r
<1>7. Free(r, more, closed, timers, m, links, place)
  <2>1. ASSUME NEW d \in 1 .. Len(closed), Asks(more, closed, d),
               links[closed[d].request] = links[r]
        PROVE  /\ ~ GoesOn(more, closed, timers, d)
               /\ place[d] <= more[r].requestCount
    <3>1. /\ Asks(request, connections, d) /\ chain[connections[d].request] = k
          /\ Listens(more, closed, d) => Listens(request, connections, d)
      BY <2>1, <1>1, <1>4, <1>5 DEF Asks, Listens
    <3> QED BY <3>1, <1>1, <1>5 DEF GoesOn, Idle
  <2> QED BY <2>1, <1>5 DEF Free
<1>8. more[r].suspend
  BY <1>5
<1>9. /\ \E p : Good(request', ajax', timer', m, links, p)
      /\ Silent(request', ajax', timer') => Reason(request', ajax')
  BY <1>2, <1>3, <1>6, <1>7, <1>8, ExecuteKeeps
<1>10. activeRequest' \in 0 .. Len(ajax')
  BY <1>1, <1>2, <1>4, ExecuteActive
<1> QED BY <1>9, <1>10

LEMMA SubscribeStep ==
  ASSUME IInv, NEW transport \in Transport, Subscribe(transport) PROVE IInv'
<1> DEFINE options == NewRequest(transport, TRUE)
           n == calls.subscribe
<1>1. PICK chain, place : Good(request, ajax, timer, n, chain, place)
  BY DEF IInv, ChainInv
<1>2. /\ n \in Nat /\ n + 1 \in Nat /\ n <= n + 1 /\ n + 1 \in 1 .. n + 1
      /\ calls' \in [subscribe : Nat, publish : Nat] /\ calls'.subscribe = n + 1
      /\ pushed' \in Nat
  BY DEF IInv, Others, Subscribe
<1>3. options \in RequestObject /\ options.suspend
  <2>1. transport \in {"streaming", "long-polling", "polling"}
    BY ClientAssumption
  <2> QED BY <2>1 DEF NewRequest, RequestObject, None
<1>4. SubscribeWith(options, ajax, timer) /\ activeRequest \in 0 .. Len(ajax)
  BY DEF Subscribe, IInv, Others
<1> HIDE DEF options, n
<1>5. Idle(n + 1, options.requestCount, request, ajax, timer, chain, place)
  BY <1>1, <1>2 DEF Good, Chained, Idle
<1>6. /\ \E ch, p : Good(request', ajax', timer', n + 1, ch, p)
      /\ Silent(request', ajax', timer') => Reason(request', ajax')
      /\ activeRequest' \in 0 .. Len(ajax')
  BY <1>1, <1>2, <1>3, <1>4, <1>5, SubscribeKeeps
<1> QED BY <1>2, <1>6 DEF IInv, ChainInv, Spoken, Others

LEMMA TimeoutStep ==
  ASSUME IInv, NEW c \in 1 .. Len(ajax), Timeout(c) PROVE IInv'
<1> DEFINE n == calls.subscribe
           closed == Aborted(c, ajax)
<1>1. PICK chain, place : Good(request, ajax, timer, n, chain, place)
  BY DEF IInv, ChainInv
<1> DEFINE k == chain[ajax[c].request]
<1>2. /\ n \in Nat /\ n <= n /\ calls' = calls /\ pushed' \in Nat
      /\ c \in timer /\ Len(ajax) \in Nat /\ c \in 0 .. Len(ajax)
      /\ SubscribeWith(Options(c), closed, timer \ {c})
      /\ activeRequest \in 0 .. Len(ajax)
  BY <1>1 DEF IInv, Others, Timeout, Good, Sane
<1>3. /\ Options(c) = request[ajax[c].request] /\ Options(c).suspend
      /\ Options(c) \in RequestObject
      /\ Asks(request, ajax, c) /\ GoesOn(request, ajax, timer, c)
  <2>1. ajax[c].request \in 1 .. Len(request) /\ request \in Seq(RequestObject)
    BY <1>1 DEF Good, Sane
  <2>2. Asks(request, ajax, c)
    BY <1>1, <1>2 DEF Good, Watched
  <2> QED BY <2>1, <2>2, <1>2 DEF Options, Asks, GoesOn
<1>4. /\ Good(request, closed, timer, n, chain, place)
      /\ Without(c, request, ajax, closed)
  BY <1>1, <1>2, AbortKeeps
<1> HIDE DEF closed, n
<1>5. Good(request, closed, timer \ {c}, n, chain, place)
  <2>1. ~ Listens(request, closed, c)
    BY <1>4 DEF Without, Listens, Asks
  <2> QED BY <1>2, <1>4, <2>1, DropTimer
<1>6. k \in 1 .. n
  BY <1>1, <1>3 DEF Good, Chained
<1>7. ASSUME NEW d \in 1 .. Len(closed),
             Asks(request, closed, d), chain[closed[d].request] = k
      PROVE  /\ ~ GoesOn(request, closed, timer \ {c}, d)
             /\ place[d] <= Options(c).requestCount
  <2>1. Asks(request, ajax, d) /\ chain[ajax[d].request] = k
    BY <1>4, <1>7 DEF Asks, Without
  <2>2. GoesOn(request, closed, timer \ {c}, d) => GoesOn(request, ajax, timer, d) /\ d # c
    BY <1>4 DEF GoesOn, Without
  <2> QED BY <2>1, <2>2, <1>1, <1>3, <1>4 DEF Good, Chained, Without
<1>8. Idle(k, Options(c).requestCount, request, closed, timer \ {c}, chain, place)
  BY <1>7 DEF Idle
<1> HIDE DEF k
<1>9. /\ \E ch, p : Good(request', ajax', timer', n, ch, p)
      /\ Silent(request', ajax', timer') => Reason(request', ajax')
      /\ activeRequest' \in 0 .. Len(ajax')
  BY <1>2, <1>3, <1>4, <1>5, <1>6, <1>8, SubscribeKeeps DEF Without
<1> QED BY <1>2, <1>9 DEF IInv, ChainInv, Spoken, Others, n

LEMMA PublishStep ==
  ASSUME IInv, Publish PROVE IInv'
<1> DEFINE n == calls.subscribe
           options == NewRequest("polling", FALSE)
           r == Len(request) + 1
           more == Append(request, options)
<1>1. PICK chain, place : Good(request, ajax, timer, n, chain, place)
  BY DEF IInv, ChainInv
<1>2. /\ n \in Nat /\ n <= n /\ calls' \in [subscribe : Nat, publish : Nat]
      /\ calls'.subscribe = n /\ pushed' \in Nat
      /\ Execute(r, more, ajax, timer)
      /\ activeRequest \in 0 .. Len(ajax)
  <2>1. Execute(r, more, ajax, timer)
    BY DEF Publish
  <2>2. calls' = [calls EXCEPT !.publish = @ + 1] /\ pushed' = pushed
    BY DEF Publish
  <2> HIDE DEF more
  <2> QED BY <2>1, <2>2 DEF IInv, Others
<1>3. /\ options \in RequestObject /\ ~ options.suspend /\ options.id = None
      /\ options.requestCount = 0
  BY DEF NewRequest, RequestObject, None
<1> HIDE DEF options, n
<1> DEFINE links == Append(chain, 0)
<1>4. /\ request \in Seq(RequestObject) /\ Len(request) \in Nat
      /\ ajax \in Seq(XMLHttpRequest) /\ Len(ajax) \in Nat
      /\ \A d \in 1 .. Len(ajax) : ajax[d].request \in 1 .. Len(request)
  BY <1>1 DEF Good, Sane
<1>5. /\ more \in Seq(RequestObject) /\ Len(more) = r /\ more[r] = options
      /\ \A q \in 1 .. Len(request) : more[q] = request[q]
  BY <1>3, <1>4, AppendProperties
<1>6. Good(more, ajax, timer, n, links, place)
  <2>1. 0 \in Nat
    OBVIOUS
  <2> QED BY <1>1, <1>2, <1>3, <2>1, AddObject
<1>7. r \in 1 .. Len(more)
  BY <1>4, <1>5
<1> HIDE DEF links
<1>8. \E p : Good(request', ajax', timer', n, links, p)
  <2>1. Free(r, more, ajax, timer, n, links, place)
    BY <1>3, <1>5 DEF Free
  <2> HIDE DEF more, r
  <2> QED BY <1>2, <1>6, <1>7, <2>1, ExecuteKeeps
<1>9. activeRequest' \in 0 .. Len(ajax')
  BY <1>2, <1>4, ExecuteActive
<1>10. /\ \A d \in 1 .. Len(ajax) : d \in 1 .. Len(ajax') /\ ajax'[d] = ajax[d]
       /\ timer' = timer
       /\ \A q \in 1 .. Len(request) :
            q \in 1 .. Len(request') /\ request'[q] = request[q]
  <2> DEFINE new == [request |-> r, state |-> "sent", written |-> << >>, seen |-> 0]
  <2>1. MaxRequest > 0
    BY ClientAssumption
  <2>2. more[r].requestCount < MaxRequest /\ ~ more[r].suspend
    BY <1>3, <1>5, <2>1
  <2>3. /\ ajax' = Append(ajax, new) /\ timer' = timer
        /\ request' = [more EXCEPT ![r].requestCount = @ + 1, ![r].id = @]
    BY <1>2, <2>2 DEF Execute
  <2>4. \A d \in 1 .. Len(ajax) : d \in 1 .. Len(ajax') /\ ajax'[d] = ajax[d]
    BY <1>4, <2>3
  <2> HIDE DEF more
  <2>5. /\ DOMAIN request' = DOMAIN more
        /\ \A q \in 1 .. Len(request) : request'[q] = more[q]
    BY <1>4, <1>5, <2>3
  <2>6. \A q \in 1 .. Len(request) : q \in 1 .. Len(request') /\ request'[q] = request[q]
    BY <1>4, <1>5, <1>8, <2>5 DEF Good, Sane
  <2> QED BY <2>3, <2>4, <2>6
<1>11. Silent(request', ajax', timer') => Silent(request, ajax, timer)
  BY <1>4, <1>10 DEF Silent, Listens, Asks
<1>12. Reason(request, ajax) => Reason(request', ajax')
  <2>1. ASSUME NEW q \in 1 .. Len(request), request[q].requestCount > MaxRequest
        PROVE  Reason(request', ajax')
    BY <2>1, <1>10 DEF Reason
  <2>2. ASSUME NEW d \in 1 .. Len(ajax), Asks(request, ajax, d),
               ajax[d].state \in {"cut", "rejected"}
        PROVE  Reason(request', ajax')
    BY <2>2, <1>4, <1>10 DEF Reason, Asks
  <2> QED BY <2>1, <2>2 DEF Reason
<1> QED BY <1>2, <1>8, <1>9, <1>11, <1>12 DEF IInv, ChainInv, Spoken, Others, n

\* Headers, with either status: a connection that is waited for is no longer
\* timed.
LEMMA HeadersKeep ==
  ASSUME IInv, NEW c \in 1 .. Len(ajax), ajax[c].state = "sent",
         NEW new \in XMLHttpRequest, new.request = ajax[c].request,
         new.state \in {"open", "refused"},
         ajax' = [ajax EXCEPT ![c] = new],
         timer' = timer \ {Options(c).id},
         UNCHANGED <<request, activeRequest, calls, pushed>>
  PROVE  IInv'
<1> DEFINE n == calls.subscribe
<1>1. PICK chain, place : Good(request, ajax, timer, n, chain, place)
  BY DEF IInv, ChainInv
<1>2. /\ ajax \in Seq(XMLHttpRequest) /\ ajax[c].request \in 1 .. Len(request)
      /\ timer \subseteq 1 .. Len(ajax) /\ n \in Nat
  BY <1>1 DEF Good, Sane, IInv, Others
<1>3. Asks(request, ajax, c) => Options(c).id = c
  BY <1>1 DEF Good, Watched, Listens, Options, Alive
<1>4. ~ Asks(request, ajax, c) => timer' = timer
  <2>1. ~ Asks(request, ajax, c) => Options(c).id = 0
    BY <1>1, <1>2 DEF Good, Watched, Options, Asks, None
  <2>2. 0 \notin timer
    BY <1>2
  <2> QED BY <2>1, <2>2
<1>5. new.state \in Alive /\ ajax[c].state \in Alive /\ new.state # "sent"
  BY DEF Alive
<1>6. Good(request, [ajax EXCEPT ![c] = new], timer', n, chain, place)
  <2>1. timer' \subseteq timer /\ timer \subseteq timer' \cup {c}
    BY <1>3, <1>4
  <2>2. Asks(request, ajax, c) => c \notin timer'
    BY <1>3
  <2> HIDE DEF n
  <2> QED BY <1>1, <1>2, <1>5, <2>1, <2>2, ChangeState
<1>7. /\ Len(ajax') = Len(ajax)
      /\ Silent(request', ajax', timer') /\ n > 0 => Reason(request', ajax')
  <2>1. Len(ajax') = Len(ajax)
    BY <1>2, ExceptSeq
  <2>2. ASSUME Silent(request, [ajax EXCEPT ![c] = new], timer'), n > 0
        PROVE  Reason(request, [ajax EXCEPT ![c] = new])
    <3>1. Silent(request, ajax, timer) => Reason(request, ajax)
      BY <2>2 DEF IInv, Spoken
    <3> QED BY <3>1, <2>2, <1>2, <1>4, <1>5, ChangeSpeaks
  <2> QED BY <2>1, <2>2
<1> QED BY <1>6, <1>7 DEF IInv, ChainInv, Spoken, Others

LEMMA HeadersStep ==
  ASSUME IInv, NEW c \in 1 .. Len(ajax), Headers(c) \/ Refuse(c) PROVE IInv'
<1>1. ajax \in Seq(XMLHttpRequest) /\ ajax[c] \in XMLHttpRequest
  BY DEF IInv, ChainInv, Good, Sane
<1>2. CASE Headers(c)
  <2> DEFINE text == IF Suspends(c) THEN <<Pad>> ELSE << >>
             new == [ajax[c] EXCEPT !.state = "open", !.written = text]
  <2>1. text \in Seq(Nat)
    BY DEF Pad
  <2>2. /\ ajax[c].state = "sent" /\ timer' = timer \ {Options(c).id}
        /\ UNCHANGED <<request, activeRequest, calls, pushed>>
        /\ ajax' = [ajax EXCEPT ![c].state = "open", ![c].written = text]
    BY <1>2 DEF Headers
  <2> HIDE DEF text
  <2>3. new \in XMLHttpRequest /\ new.request = ajax[c].request /\ new.state = "open"
    BY <1>1, <2>1 DEF XMLHttpRequest, Alive
  <2>4. ajax' = [ajax EXCEPT ![c] = new]
    BY <2>2
  <2> HIDE DEF new
  <2> QED BY <2>2, <2>3, <2>4, HeadersKeep
<1>3. CASE Refuse(c)
  <2> DEFINE new == [ajax[c] EXCEPT !.state = "refused"]
  <2>1. new \in XMLHttpRequest /\ new.request = ajax[c].request /\ new.state = "refused"
    BY <1>1 DEF XMLHttpRequest, Alive
  <2>2. /\ ajax[c].state = "sent" /\ timer' = timer \ {Options(c).id}
        /\ UNCHANGED <<request, activeRequest, calls, pushed>>
        /\ ajax' = [ajax EXCEPT ![c] = new]
    BY <1>3 DEF Refuse
  <2> HIDE DEF new
  <2> QED BY <2>1, <2>2, HeadersKeep
<1> QED BY <1>2, <1>3

LEMMA BroadcastStep ==
  ASSUME IInv, Broadcast PROVE IInv'
<1>1. PICK chain, place : Good(request, ajax, timer, calls.subscribe, chain, place)
  BY DEF IInv, ChainInv
<1>2. /\ request \in Seq(RequestObject) /\ ajax \in Seq(XMLHttpRequest)
      /\ pushed \in Nat /\ calls.subscribe \in Nat /\ pushed' = pushed + 1
      /\ UNCHANGED <<request, activeRequest, timer, calls>>
  BY <1>1 DEF Good, Sane, IInv, Others, Broadcast
<1>3. /\ ajax' \in Seq(XMLHttpRequest) /\ Len(ajax') = Len(ajax)
      /\ \A c \in 1 .. Len(ajax) :
           ajax'[c].request = ajax[c].request /\ ajax'[c].state = ajax[c].state
  <2> DEFINE given(c) == IF ajax[c].state = "open" /\ Suspends(c)
                           THEN [ajax[c] EXCEPT !.written = @ \o Halves(pushed')] ELSE ajax[c]
  <2>1. ajax' = [c \in 1 .. Len(ajax) |-> given(c)]
    BY <1>2 DEF Broadcast
  <2>2. Halves(pushed') \in Seq(Nat)
    <3>1. 2 * pushed' - 1 \in Nat /\ 2 * pushed' \in Nat
      BY <1>2
    <3> QED BY <3>1 DEF Halves
  <2>3. ASSUME NEW c \in 1 .. Len(ajax)
        PROVE  /\ given(c) \in XMLHttpRequest
               /\ given(c).request = ajax[c].request /\ given(c).state = ajax[c].state
    <3>1. ajax[c] \in XMLHttpRequest /\ ajax[c].written \in Seq(Nat)
      <4>1. ajax[c] \in XMLHttpRequest
        BY <1>2
      <4> QED BY <4>1 DEF XMLHttpRequest
    <3>2. ajax[c].written \o Halves(pushed') \in Seq(Nat)
      BY <2>2, <3>1, ConcatProperties
    <3> QED BY <3>1, <3>2 DEF XMLHttpRequest
  <2> HIDE DEF given
  <2>4. Len(ajax) \in Nat
    BY <1>2
  <2>5. ajax' \in Seq(XMLHttpRequest) /\ Len(ajax') = Len(ajax)
    BY <2>1, <2>3, <2>4, IsASeq
  <2> QED BY <2>1, <2>3, <2>5
<1>4. /\ Good(request', ajax', timer', calls.subscribe, chain, place)
      /\ Silent(request', ajax', timer') => Silent(request, ajax, timer)
      /\ Reason(request, ajax) => Reason(request', ajax')
  BY <1>1, <1>2, <1>3, SameShape
<1> QED BY <1>2, <1>3, <1>4 DEF IInv, ChainInv, Spoken, Others

LEMMA ChunkStep ==
  ASSUME IInv, NEW c \in 1 .. Len(ajax), NEW seen \in Nat, Chunk(c, seen) PROVE IInv'
<1>1. PICK chain, place : Good(request, ajax, timer, calls.subscribe, chain, place)
  BY DEF IInv, ChainInv
<1> DEFINE r == ajax[c].request
           index == IF Options(c).transport = "streaming" THEN seen ELSE request[r].lastIndex
           options == [request[r] EXCEPT !.lastIndex = index]
           new == [ajax[c] EXCEPT !.seen = seen]
<1>2. /\ request \in Seq(RequestObject) /\ ajax \in Seq(XMLHttpRequest)
      /\ r \in 1 .. Len(request) /\ calls.subscribe \in Nat
      /\ request[r] \in RequestObject /\ ajax[c] \in XMLHttpRequest
      /\ UNCHANGED <<activeRequest, timer, calls, pushed>>
  BY <1>1 DEF Good, Sane, IInv, Others, Chunk
<1>3. request' = [request EXCEPT ![r] = options] /\ ajax' = [ajax EXCEPT ![c] = new]
  BY DEF Chunk
<1>4. /\ options \in RequestObject /\ options.suspend = request[r].suspend
      /\ options.id = request[r].id /\ options.requestCount = request[r].requestCount
  <2>1. index \in Nat
    BY <1>2 DEF RequestObject
  <2> HIDE DEF index
  <2> QED BY <1>2, <2>1 DEF RequestObject
<1>5. new \in XMLHttpRequest /\ new.request = r /\ new.state = ajax[c].state
  BY <1>2 DEF XMLHttpRequest
<1> HIDE DEF options, new
<1>6. /\ request' \in Seq(RequestObject) /\ Len(request') = Len(request)
      /\ \A q \in 1 .. Len(request) :
           /\ request'[q].suspend = request[q].suspend /\ request'[q].id = request[q].id
           /\ request'[q].requestCount = request[q].requestCount
  <2>1. /\ request' \in Seq(RequestObject) /\ Len(request') = Len(request)
        /\ request'[r] = options
        /\ \A q \in 1 .. Len(request) : q # r => request'[q] = request[q]
    BY <1>2, <1>3, <1>4, ExceptSeq
  <2> QED BY <2>1, <1>4
<1>7. /\ ajax' \in Seq(XMLHttpRequest) /\ Len(ajax') = Len(ajax)
      /\ \A d \in 1 .. Len(ajax) :
           ajax'[d].request = ajax[d].request /\ ajax'[d].state = ajax[d].state
  <2>1. /\ ajax' \in Seq(XMLHttpRequest) /\ Len(ajax') = Len(ajax) /\ ajax'[c] = new
        /\ \A d \in 1 .. Len(ajax) : d # c => ajax'[d] = ajax[d]
    BY <1>2, <1>3, <1>5, ExceptSeq
  <2> QED BY <2>1, <1>5
<1>8. /\ Good(request', ajax', timer', calls.subscribe, chain, place)
      /\ Silent(request', ajax', timer') => Silent(request, ajax, timer)
      /\ Reason(request, ajax) => Reason(request', ajax')
  BY <1>1, <1>2, <1>6, <1>7, SameShape
<1> QED BY <1>2, <1>7, <1>8 DEF IInv, ChainInv, Spoken, Others

LEMMA FailStep ==
  ASSUME IInv, NEW c \in 1 .. Len(ajax), Fail(c) PROVE IInv'
<1>1. PICK chain, place : Good(request, ajax, timer, calls.subscribe, chain, place)
  BY DEF IInv, ChainInv
<1> DEFINE state == IF ajax[c].state = "sent" THEN "failed" ELSE "cut"
           new == Finished(ajax[c], state)
<1>2. /\ ajax \in Seq(XMLHttpRequest) /\ ajax[c] \in XMLHttpRequest
      /\ Len(ajax) \in Nat /\ calls.subscribe \in Nat
      /\ activeRequest' = 0 /\ UNCHANGED <<request, timer, calls, pushed>>
      /\ ajax[c].state \in Alive
  BY <1>1 DEF Good, Sane, IInv, Others, Fail, None
<1>3. ajax' = [ajax EXCEPT ![c] = new]
  BY DEF Fail
<1>4. state \in Closed
  BY DEF Closed
<1>5. Asks(request, ajax, c) => state = "cut" \/ c \in timer
  BY <1>1, <1>2 DEF Good, Watched, Listens
<1> HIDE DEF state
<1>6. new \in XMLHttpRequest /\ new.request = ajax[c].request /\ new.state = state
  BY <1>2, <1>4, FinishedTypes
<1>7. Good(request, ajax', timer, calls.subscribe, chain, place)
  <2>1. ajax' = Ended(ajax, c, state)
    BY DEF Fail, Ended, state
  <2> QED BY <1>1, <1>2, <1>4, <2>1, FinishKeeps
<1> HIDE DEF new
<1>8. Len(ajax') = Len(ajax)
  BY <1>2, <1>3, <1>6, ExceptSeq
<1>9. ASSUME calls.subscribe > 0, Silent(request, [ajax EXCEPT ![c] = new], timer)
      PROVE  Reason(request, [ajax EXCEPT ![c] = new])
  <2>1. Silent(request, ajax, timer) => Reason(request, ajax)
    BY <1>9 DEF IInv, Spoken
  <2> QED BY <1>2, <1>5, <1>6, <1>9, <2>1, ChangeSpeaks
<1> QED BY <1>2, <1>3, <1>7, <1>8, <1>9 DEF IInv, ChainInv, Spoken, Others

LEMMA EndStep ==
  ASSUME IInv, NEW c \in 1 .. Len(ajax), End(c) PROVE IInv'
<1>1. PICK chain, place : Good(request, ajax, timer, calls.subscribe, chain, place)
  BY DEF IInv, ChainInv
<1> DEFINE n == calls.subscribe
           r == ajax[c].request
           state == IF ajax[c].state = "open" THEN "ended" ELSE "rejected"
           new == Finished(ajax[c], state)
           ended == Ended(ajax, c, state)
<1>2. /\ ajax \in Seq(XMLHttpRequest) /\ ajax[c] \in XMLHttpRequest
      /\ Len(ajax) \in Nat /\ n \in Nat /\ r \in 1 .. Len(request)
      /\ UNCHANGED <<calls, pushed>> /\ activeRequest \in 0 .. Len(ajax)
      /\ ajax[c].state \in {"open", "refused"}
  BY <1>1 DEF Good, Sane, IInv, Others, End
<1>3. IF Suspends(c) /\ ajax[c].state = "open"
        THEN Execute(r, request, ended, timer)
        ELSE ajax' = ended /\ UNCHANGED <<request, activeRequest, timer>>
  BY DEF End, Ended
<1>4. state \in Closed /\ state = (IF ajax[c].state = "open" THEN "ended" ELSE "rejected")
  BY DEF Closed
<1> HIDE DEF state
<1>5. Good(request, ended, timer, n, chain, place)
  BY <1>1, <1>2, <1>4, FinishKeeps
<1>6. Without(c, request, ajax, ended)
  BY <1>2, <1>4, FinishEffect
<1>7. CASE Suspends(c) /\ ajax[c].state = "open"
  <2>1. /\ request[r].suspend /\ Asks(request, ajax, c) /\ Listens(request, ajax, c)
        /\ c \notin timer /\ GoesOn(request, ajax, timer, c)
    BY <1>1, <1>2, <1>7 DEF Good, Watched, Suspends, Options, Asks, Listens, Alive, GoesOn
  <2>2. chain[r] \in 1 .. n
    BY <1>1, <2>1 DEF Good, Chained
  <2>3. ASSUME NEW d \in 1 .. Len(ended), Asks(request, ended, d),
               chain[ended[d].request] = chain[r]
        PROVE  /\ ~ GoesOn(request, ended, timer, d)
               /\ place[d] <= request[r].requestCount
    <3>1. Asks(request, ajax, d) /\ chain[ajax[d].request] = chain[r]
      BY <1>6, <2>3 DEF Asks, Without
    <3>2. GoesOn(request, ended, timer, d) => GoesOn(request, ajax, timer, d) /\ d # c
      BY <1>6, <2>1, <2>3 DEF GoesOn, Without
    <3> QED BY <3>1, <3>2, <1>1, <1>6, <2>1 DEF Good, Chained, Without
  <2> HIDE DEF ended, n, r
  <2>4. Free(r, request, ended, timer, n, chain, place)
    BY <2>2, <2>3 DEF Free
  <2>5. Execute(r, request, ended, timer)
    BY <1>3, <1>7
  <2>6. /\ \E p : Good(request', ajax', timer', n, chain, p)
        /\ request[r].suspend /\ Silent(request', ajax', timer') => Reason(request', ajax')
    BY <1>2, <1>5, <2>4, <2>5, ExecuteKeeps
  <2>7. activeRequest' \in 0 .. Len(ajax')
    <3>1. ended \in Seq(XMLHttpRequest)
      BY <1>5 DEF Good, Sane
    <3> QED BY <3>1, <1>2, <1>6, <2>5, ExecuteActive DEF Without
  <2> QED BY <1>2, <2>1, <2>6, <2>7 DEF IInv, ChainInv, Spoken, Others, n
<1>8. CASE ~ (Suspends(c) /\ ajax[c].state = "open")
  <2>1. ajax' = ended /\ UNCHANGED <<request, activeRequest, timer>>
    BY <1>3, <1>8
  <2>2. ended = [ajax EXCEPT ![c] = new]
    BY DEF Ended
  <2>3. new \in XMLHttpRequest /\ new.request = ajax[c].request /\ new.state = state
    BY <1>2, <1>4, FinishedTypes
  <2>4. Asks(request, ajax, c) => state = "rejected"
    BY <1>2, <1>4, <1>8 DEF Asks, Suspends, Options
  <2> HIDE DEF new, ended
  <2>5. ASSUME calls.subscribe > 0, Silent(request, [ajax EXCEPT ![c] = new], timer)
        PROVE  Reason(request, [ajax EXCEPT ![c] = new])
    <3>1. Silent(request, ajax, timer) => Reason(request, ajax)
      BY <2>5 DEF IInv, Spoken
    <3> QED BY <1>2, <2>3, <2>4, <2>5, <3>1, ChangeSpeaks
  <2> QED BY <1>2, <1>5, <1>6, <2>1, <2>2, <2>5 DEF IInv, ChainInv, Spoken, Others, Without
<1> QED BY <1>7, <1>8

LEMMA InitInv == PageInit => IInv
<1> SUFFICES ASSUME Init PROVE IInv
  BY DEF PageInit
<1>1. request = << >> /\ ajax = << >> /\ timer = {} /\ calls.subscribe = 0
  BY DEF Init
<1>2. Len(request) = 0 /\ Len(ajax) = 0 /\ 1 .. 0 = {}
  BY <1>1
<1>3. Good(request, ajax, timer, 0, << >>, << >>)
  BY <1>1, <1>2 DEF Good, Sane, Watched, Chained
<1>4. Others
  BY <1>2 DEF Init, Others, None
<1> QED BY <1>1, <1>3, <1>4 DEF IInv, ChainInv, Spoken

LEMMA StepInv == IInv /\ [Next]_vars => IInv'
<1> SUFFICES ASSUME IInv, [Next]_vars PROVE IInv'
  OBVIOUS
<1>1. DOMAIN ajax = 1 .. Len(ajax)
  BY DEF IInv, ChainInv, Good, Sane
<1>2. CASE ClientNext
  <2>1. ASSUME NEW transport \in Transport, Subscribe(transport) PROVE IInv'
    BY <2>1, SubscribeStep
  <2>2. CASE Publish
    BY <2>2, PublishStep
  <2>3. CASE Broadcast
    BY <2>3, BroadcastStep
  <2>4. ASSUME NEW c \in 1 .. Len(ajax), Response(c) PROVE IInv'
    <3>1. CASE Headers(c) \/ Refuse(c)
      BY <3>1, HeadersStep
    <3>2. CASE End(c)
      BY <3>2, EndStep
    <3>3. CASE Fail(c)
      BY <3>3, FailStep
    <3>4. CASE Timeout(c)
      BY <3>4, TimeoutStep
    <3>5. ASSUME NEW seen \in 1 .. 1 + 2 * MaxMessage, Chunk(c, seen) PROVE IInv'
      <4>1. seen \in Nat
        BY ClientAssumption
      <4> QED BY <4>1, <3>5, ChunkStep
    <3> QED BY <2>4, <3>1, <3>2, <3>3, <3>4, <3>5 DEF Response
  <2> QED BY <1>1, <1>2, <2>1, <2>2, <2>3, <2>4 DEF ClientNext, Page
<1>3. CASE UNCHANGED clientVars
  BY <1>3 DEF clientVars, IInv, ChainInv, Spoken, Others
<1> QED BY <1>2, <1>3 DEF Next, vars, clientVars

LEMMA InvAlways == Spec => []IInv
<1>1. PageInit => IInv
  BY InitInv
<1>2. IInv /\ [Next]_vars => IInv'
  BY StepInv
<1> QED BY <1>1, <1>2, PTL DEF Spec

---------------------------------------------------------------------------
(* The theorems.                                                           *)

LEMMA InvGivesUp == IInv => GivesUp
<1> SUFFICES ASSUME IInv PROVE GivesUp
  OBVIOUS
<1> DEFINE n == calls.subscribe
           asked == {c \in DOMAIN ajax : Suspends(c)}
<1>1. PICK chain, place : Good(request, ajax, timer, n, chain, place)
  BY DEF IInv, ChainInv
<1>2. DOMAIN ajax = 1 .. Len(ajax) /\ n \in Nat /\ MaxRequest \in Nat
  BY <1>1, ClientAssumption DEF Good, Sane, IInv, Others
<1>3. \A c \in asked : c \in 1 .. Len(ajax) /\ Asks(request, ajax, c)
  BY <1>2 DEF Suspends, Options, Asks
<1> HIDE DEF asked, n
<1> DEFINE grid == (1 .. n) \X (1 .. MaxRequest)
           spot == [c \in asked |-> <<chain[ajax[c].request], place[c]>>]
<1>4. spot \in [asked -> grid]
  BY <1>1, <1>3 DEF Good, Chained
<1>5. \A c, d \in asked : spot[c] = spot[d] => c = d
  BY <1>1, <1>3 DEF Good, Chained
<1>6. spot \in Injection(asked, grid)
  BY <1>4, <1>5 DEF Injection, IsInjective
<1>7. /\ IsFiniteSet(1 .. n) /\ Cardinality(1 .. n) = n
      /\ IsFiniteSet(1 .. MaxRequest) /\ Cardinality(1 .. MaxRequest) = MaxRequest
  <2>1. IsFiniteSet(1 .. n) /\ Cardinality(1 .. n) = n
    BY <1>2, FS_Interval
  <2>2. IsFiniteSet(1 .. MaxRequest) /\ Cardinality(1 .. MaxRequest) = MaxRequest
    BY <1>2, FS_Interval
  <2> QED BY <2>1, <2>2
<1>8. IsFiniteSet(grid) /\ Cardinality(grid) = n * MaxRequest
  <2> DEFINE rows == 1 .. n
             columns == 1 .. MaxRequest
  <2>1. IsFiniteSet(rows) /\ IsFiniteSet(columns)
    BY <1>7
  <2> HIDE DEF rows, columns
  <2>2. /\ IsFiniteSet(rows \X columns)
        /\ Cardinality(rows \X columns) = Cardinality(rows) * Cardinality(columns)
    BY <2>1, FS_Product
  <2> QED BY <2>2, <1>7 DEF rows, columns
<1> HIDE DEF grid, spot
<1>9. Cardinality(asked) <= n * MaxRequest
  BY <1>6, <1>8, FS_Injection
<1>10. n * MaxRequest = MaxRequest * n
  BY <1>2
<1> QED BY <1>9, <1>10 DEF GivesUp, asked, n

LEMMA InvOneConnection == IInv => OneConnection
<1> SUFFICES ASSUME IInv, calls.subscribe = 1 PROVE Cardinality(Suspended) <= 1
  BY DEF OneConnection
<1>1. PICK chain, place : Good(request, ajax, timer, 1, chain, place)
  BY DEF IInv, ChainInv
<1>2. DOMAIN ajax = 1 .. Len(ajax)
  BY <1>1 DEF Good, Sane
<1>3. \A c \in Suspended :
        /\ c \in 1 .. Len(ajax) /\ Asks(request, ajax, c)
        /\ GoesOn(request, ajax, timer, c)
  BY <1>2 DEF Suspended, Suspends, Options, Asks, Listens, GoesOn
<1>4. \A c, d \in Suspended : c = d
  <2>1. \A c \in Suspended : chain[ajax[c].request] = 1
    BY <1>1, <1>3 DEF Good, Chained
  <2> QED BY <2>1, <1>1, <1>3 DEF Good, Chained
<1>5. CASE Suspended = {}
  BY <1>5, FS_EmptySet
<1>6. CASE Suspended # {}
  <2>1. PICK c \in Suspended : TRUE
    BY <1>6
  <2>2. Suspended = {c}
    BY <1>4
  <2> QED BY <2>2, FS_Singleton
<1> QED BY <1>5, <1>6

LEMMA InvSilent == IInv => SilentForAReason
<1> SUFFICES ASSUME IInv, calls.subscribe > 0, Suspended = {}, timer = {}
             PROVE  \/ \E r \in DOMAIN request : request[r].requestCount > MaxRequest
                    \/ \E c \in DOMAIN ajax : /\ Suspends(c)
                                              /\ ajax[c].state \in {"cut", "rejected"}
  BY DEF SilentForAReason
<1>1. DOMAIN ajax = 1 .. Len(ajax) /\ DOMAIN request = 1 .. Len(request)
  BY DEF IInv, ChainInv, Good, Sane
<1>2. Silent(request, ajax, timer)
  BY <1>1 DEF Suspended, Suspends, Options, Silent, Listens, Asks
<1>3. Reason(request, ajax)
  BY <1>2 DEF IInv, Spoken
<1> QED BY <1>1, <1>3 DEF Reason, Suspends, Options, Asks

\* jquery.atmosphere.js, executeRequest and subscribe: a page that has
\* subscribed once listens on one connection at most, whatever ends, times out,
\* fails or is published meanwhile, and however often.
THEOREM ConnectionTheorem == Spec => []OneConnection
<1>1. IInv => OneConnection
  BY InvOneConnection
<1> QED BY <1>1, InvAlways, PTL

\* jquery.atmosphere.js, requestCount: no subscription asks more than maxRequest
\* times, although a timeout replaces its request object.
THEOREM GivesUpTheorem == Spec => []GivesUp
<1>1. IInv => GivesUp
  BY InvGivesUp
<1> QED BY <1>1, InvAlways, PTL

\* jquery.atmosphere.js: a page that has subscribed, be it several times, and
\* has neither a connection nor a timeout has used up maxRequest, was refused,
\* or was cut off after the headers.
THEOREM SilenceTheorem == Spec => []SilentForAReason
<1>1. IInv => SilentForAReason
  BY InvSilent
<1> QED BY <1>1, InvAlways, PTL
=============================================================================
