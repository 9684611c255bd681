---------------------------- MODULE PushOrder -----------------------------
(***************************************************************************)
(* The order of the messages on their way to each response; then the whole *)
(* invariant, the safety properties of the push runtime as theorems of its *)
(* specification, and that it implements OrderedFeed.                      *)
(***************************************************************************)
EXTENDS PushProofs

---------------------------------------------------------------------------
(* What the steps that change a queue or the output do to it, in the form  *)
(* the order of messages is proved from.                                   *)

\* The notifier goes on to the next broadcast.
LEMMA NotifierFacts ==
  ASSUME TypeOK, Numbered, NotifierTakes
  PROVE  /\ pushed' = pushed + 1
         /\ broadcasts = pushed' + Len(messages')
         /\ \A k \in DOMAIN messages' : messages'[k].id = pushed' + k
<1>1. /\ messages \in Seq(Entry) /\ messages # << >>
      /\ broadcasts \in Nat /\ pushed \in Nat
  BY ChannelAssumption DEF TypeOK, QueueTypeOK, NotifierTakes
<1>2. /\ Head(messages) = messages[1]
      /\ Len(messages) \in Nat \ {0}
      /\ Len(Tail(messages)) = Len(messages) - 1
      /\ DOMAIN messages = 1 .. Len(messages)
      /\ DOMAIN Tail(messages) = 1 .. Len(messages) - 1
      /\ \A i \in 1 .. Len(messages) - 1 : Tail(messages)[i] = messages[i + 1]
  BY <1>1, TailFacts
<1>3. messages' = Tail(messages) /\ pushed' = messages[1].id
  BY <1>2 DEF NotifierTakes
<1>4. /\ messages[1].id = pushed + 1
      /\ \A k \in 1 .. Len(messages) - 1 : messages[k + 1].id = pushed + 1 + k
      /\ broadcasts = pushed + Len(messages)
  BY <1>1, <1>2 DEF Numbered
<1>5. \A k \in 1 .. Len(messages) - 1 : Tail(messages)[k].id = pushed + 1 + k
  BY <1>2, <1>4
<1> QED
  BY <1>1, <1>2, <1>3, <1>4, <1>5

\* The queue of tokens after asyncWriteQueue.put.
TokenAdded(r) ==
  \E n \in Nat :
    /\ DOMAIN asyncWriteQueue = 1 .. n
    /\ DOMAIN asyncWriteQueue' = 1 .. n + 1
    /\ \A i \in 1 .. n : asyncWriteQueue'[i] = asyncWriteQueue[i]
    /\ asyncWriteQueue'[n + 1].r = r
    /\ asyncWriteQueue'[n + 1].id = pushed

LEMMA PutFacts ==
  ASSUME TypeOK, NEW r \in Resource, PutToken(r)
  PROVE  TokenAdded(r)
<1> DEFINE t == [r |-> r, id |-> pushed]
<1>1. asyncWriteQueue \in Seq(Token) /\ t \in Token
  BY DEF TypeOK, QueueTypeOK, Token
<1>2. asyncWriteQueue' = Append(asyncWriteQueue, t) /\ t.r = r /\ t.id = pushed
  BY DEF PutToken
<1> HIDE DEF t
<1>3. /\ Len(asyncWriteQueue) \in Nat
      /\ DOMAIN asyncWriteQueue = 1 .. Len(asyncWriteQueue)
  BY <1>1
<1>4. /\ DOMAIN asyncWriteQueue' = 1 .. Len(asyncWriteQueue) + 1
      /\ \A i \in 1 .. Len(asyncWriteQueue) : asyncWriteQueue'[i] = asyncWriteQueue[i]
      /\ asyncWriteQueue'[Len(asyncWriteQueue) + 1] = t
  BY <1>1, <1>2, AppendFacts
<1> QED
  BY <1>2, <1>3, <1>4 DEF TokenAdded

\* The leader's token and the queue after asyncWriteQueue.take.
TokenTaken(w) ==
  /\ 1 \in DOMAIN asyncWriteQueue
  /\ asyncWriteQueue[1].r \in Resource
  /\ asyncWriteQueue[1].id \in Nat
  /\ pc' = [pc EXCEPT ![w] = "enter"]
  /\ tokenResource' = [tokenResource EXCEPT ![w] = asyncWriteQueue[1].r]
  /\ tokenMsg' = [tokenMsg EXCEPT ![w] = asyncWriteQueue[1].id]
  /\ \A i \in DOMAIN asyncWriteQueue' :
       /\ i \in Nat \ {0}
       /\ i + 1 \in DOMAIN asyncWriteQueue
       /\ asyncWriteQueue'[i] = asyncWriteQueue[i + 1]

LEMMA TakeFacts ==
  ASSUME TypeOK, NEW w \in Worker, Take(w)
  PROVE  TokenTaken(w)
<1>1. asyncWriteQueue \in Seq(Token) /\ asyncWriteQueue # << >>
  BY DEF TypeOK, QueueTypeOK, Take
<1>2. /\ Head(asyncWriteQueue) = asyncWriteQueue[1]
      /\ Head(asyncWriteQueue) \in Token
      /\ Len(asyncWriteQueue) \in Nat \ {0}
      /\ DOMAIN asyncWriteQueue = 1 .. Len(asyncWriteQueue)
      /\ DOMAIN Tail(asyncWriteQueue) = 1 .. Len(asyncWriteQueue) - 1
      /\ \A i \in 1 .. Len(asyncWriteQueue) - 1 :
            Tail(asyncWriteQueue)[i] = asyncWriteQueue[i + 1]
  BY <1>1, TailFacts
<1>3. asyncWriteQueue[1].r \in Resource /\ asyncWriteQueue[1].id \in Nat
  BY <1>2, ChannelAssumption DEF Token
<1>4. /\ asyncWriteQueue' = Tail(asyncWriteQueue)
      /\ pc' = [pc EXCEPT ![w] = "enter"]
      /\ tokenResource' = [tokenResource EXCEPT ![w] = asyncWriteQueue[1].r]
      /\ tokenMsg' = [tokenMsg EXCEPT ![w] = asyncWriteQueue[1].id]
  BY <1>2 DEF Take
<1> QED
  BY <1>2, <1>3, <1>4 DEF TokenTaken

\* What a service writes to a response is the message of the writer's token.
Written(w) ==
  /\ tokenResource[w] \in Resource
  /\ \A r \in Resource : \A k \in DOMAIN wire'[r] :
       \/ k \in DOMAIN wire[r] /\ wire'[r][k] = wire[r][k]
       \/ r = tokenResource[w] /\ wire'[r][k] = tokenMsg[w]

LEMMA WriteFacts ==
  ASSUME TypeOK, MessageIsToken, NEW w \in Worker, HandlerWrites(w)
  PROVE  Written(w)
<1> DEFINE s == tokenResource[w]
<1>1. /\ s \in Resource /\ message[s] = tokenMsg[w]
      /\ wire \in [Resource -> Seq(0 .. MaxBroadcast)]
      /\ tokenMsg[w] \in 0 .. MaxBroadcast
  BY DEF TypeOK, PoolTypeOK, OutTypeOK, MessageIsToken, HandlerWrites
<1>2. wire' = wire \/ wire' = [wire EXCEPT ![s] = Append(wire[s], tokenMsg[w])]
  BY <1>1 DEF HandlerWrites
<1> HIDE DEF s
<1>3. wire[s] \in Seq(0 .. MaxBroadcast)
  BY <1>1
<1>4. \A k \in DOMAIN Append(wire[s], tokenMsg[w]) :
        \/ k \in DOMAIN wire[s] /\ Append(wire[s], tokenMsg[w])[k] = wire[s][k]
        \/ Append(wire[s], tokenMsg[w])[k] = tokenMsg[w]
  <2>1. DOMAIN wire[s] = 1 .. Len(wire[s]) /\ Len(wire[s]) \in Nat
    BY <1>3
  <2> QED
    BY <1>1, <1>3, <2>1, AppendFacts
<1> QED
  BY <1>1, <1>2, <1>4 DEF s, Written

---------------------------------------------------------------------------
(* The steps that move a message on.                                       *)

\* The token that the notifier queues for a response is the latest for it.
LEMMA PutQueueOrder ==
  ASSUME TypeOK, OrderInv, NEW r \in Resource, PutToken(r),
         UNCHANGED <<pc, tokenResource, tokenMsg, request, wire>>
  PROVE  QueueOrder' /\ PushOrder'
<1>1. /\ r \in iterator /\ iterator' = iterator \ {r}
      /\ pushed \in Nat
      /\ UNCHANGED <<pushed, toAll>>
  BY ChannelAssumption DEF PutToken, TypeOK, QueueTypeOK
<1>2. pushed >= 1 /\ Latest(r, pushed) /\ QueueOrder /\ PushOrder /\ NotYetRegistered
  BY <1>1 DEF OrderInv, Numbered, PushOrder, Awaits
<1>3. TokenAdded(r)
  BY PutFacts
<1>4. QueueOrder'
  <2> SUFFICES ASSUME NEW i \in DOMAIN asyncWriteQueue'
               PROVE  /\ asyncWriteQueue'[i].id >= 1
                      /\ \A j \in DOMAIN asyncWriteQueue' :
                           j < i /\ asyncWriteQueue'[j].r = asyncWriteQueue'[i].r =>
                              asyncWriteQueue'[j].id < asyncWriteQueue'[i].id
                      /\ \A w \in Worker :
                           pc'[w] \in Carrying /\ tokenResource'[w] = asyncWriteQueue'[i].r =>
                              tokenMsg'[w] < asyncWriteQueue'[i].id
                      /\ \A k \in DOMAIN wire'[asyncWriteQueue'[i].r] :
                           wire'[asyncWriteQueue'[i].r][k] < asyncWriteQueue'[i].id
    BY DEF QueueOrder
  <2>1. asyncWriteQueue'[i].id >= 1
    BY <1>1, <1>2, <1>3 DEF QueueOrder, TokenAdded
  <2>2. ASSUME NEW j \in DOMAIN asyncWriteQueue',
               j < i, asyncWriteQueue'[j].r = asyncWriteQueue'[i].r
        PROVE  asyncWriteQueue'[j].id < asyncWriteQueue'[i].id
    BY <1>1, <1>2, <1>3, <2>2 DEF QueueOrder, Latest, TokenAdded
  <2>3. \A w \in Worker :
          pc'[w] \in Carrying /\ tokenResource'[w] = asyncWriteQueue'[i].r =>
             tokenMsg'[w] < asyncWriteQueue'[i].id
    BY <1>1, <1>2, <1>3 DEF QueueOrder, Latest, TokenAdded
  <2>4. \A k \in DOMAIN wire'[asyncWriteQueue'[i].r] :
          wire'[asyncWriteQueue'[i].r][k] < asyncWriteQueue'[i].id
    BY <1>1, <1>2, <1>3 DEF QueueOrder, Latest, TokenAdded
  <2> QED
    BY <2>1, <2>2, <2>3, <2>4
<1>5. PushOrder'
  BY <1>1, <1>2, <1>3 DEF PushOrder, Latest, TokenAdded, Awaits, NotYetRegistered
<1> QED
  BY <1>4, <1>5

\* The next broadcast is later than everything pushed so far.
LEMMA NotifierOrder ==
  ASSUME TypeOK, OrderInv, NotifierTakes,
         UNCHANGED <<asyncWriteQueue, pc, tokenResource, tokenMsg, wire>>
  PROVE  PushOrder'
<1>1. pushed \in Nat /\ pushed' = pushed + 1
  BY NotifierFacts, ChannelAssumption DEF OrderInv, TypeOK, QueueTypeOK
<1>2. \A i \in DOMAIN asyncWriteQueue : asyncWriteQueue[i].id \in Nat
  BY QueuedToken, ChannelAssumption DEF TypeOK
<1>3. \A w \in Worker : tokenMsg[w] \in Nat
  BY ChannelAssumption DEF TypeOK, PoolTypeOK
<1>4. \A r \in Resource : \A i \in DOMAIN wire[r] : wire[r][i] \in Nat
  <2>1. wire \in [Resource -> Seq(0 .. MaxBroadcast)]
    BY DEF TypeOK, OutTypeOK
  <2> QED
    BY <2>1, ChannelAssumption
<1> QED
  BY <1>1, <1>2, <1>3, <1>4 DEF OrderInv, PushOrder, Latest

\* The leader's token leaves the queue: the queue stays in order behind it.
LEMMA TakeQueueOrder ==
  ASSUME TypeOK, OrderInv, NEW w \in Worker, Take(w)
  PROVE  QueueOrder'
<1>1. /\ pc[w] = "take"
      /\ pc \in [Worker -> PC] /\ tokenResource \in [Worker -> Resource \cup {Nil}]
      /\ tokenMsg \in [Worker -> 0 .. MaxBroadcast]
      /\ UNCHANGED <<pushed, iterator, toAll, request, wire>>
  BY DEF Take, TypeOK, PoolTypeOK, eventVars, outVars
<1>2. TokenTaken(w)
  BY TakeFacts
<1> SUFFICES ASSUME NEW i \in DOMAIN asyncWriteQueue'
             PROVE  /\ asyncWriteQueue'[i].id >= 1
                    /\ \A j \in DOMAIN asyncWriteQueue' :
                         j < i /\ asyncWriteQueue'[j].r = asyncWriteQueue'[i].r =>
                            asyncWriteQueue'[j].id < asyncWriteQueue'[i].id
                    /\ \A v \in Worker :
                         pc'[v] \in Carrying /\ tokenResource'[v] = asyncWriteQueue'[i].r =>
                            tokenMsg'[v] < asyncWriteQueue'[i].id
                    /\ \A k \in DOMAIN wire'[asyncWriteQueue'[i].r] :
                         wire'[asyncWriteQueue'[i].r][k] < asyncWriteQueue'[i].id
  BY DEF QueueOrder
<1>3. i + 1 \in DOMAIN asyncWriteQueue /\ asyncWriteQueue'[i] = asyncWriteQueue[i + 1]
      /\ i \in Nat \ {0}
  BY <1>2 DEF TokenTaken
<1>4. asyncWriteQueue'[i].id >= 1
  BY <1>3 DEF OrderInv, QueueOrder
<1>5. \A j \in DOMAIN asyncWriteQueue' :
         j < i /\ asyncWriteQueue'[j].r = asyncWriteQueue'[i].r =>
            asyncWriteQueue'[j].id < asyncWriteQueue'[i].id
  BY <1>2, <1>3 DEF OrderInv, QueueOrder, TokenTaken
<1>6. ASSUME NEW v \in Worker, pc'[v] \in Carrying, tokenResource'[v] = asyncWriteQueue'[i].r
      PROVE  tokenMsg'[v] < asyncWriteQueue'[i].id
  <2>1. CASE v = w
    BY <1>1, <1>2, <1>3, <1>6, <2>1 DEF OrderInv, QueueOrder, TokenTaken
  <2>2. CASE v # w
    BY <1>1, <1>2, <1>3, <1>6, <2>2 DEF OrderInv, QueueOrder, TokenTaken, Carrying
  <2> QED
    BY <2>1, <2>2
<1>7. \A k \in DOMAIN wire'[asyncWriteQueue'[i].r] :
         wire'[asyncWriteQueue'[i].r][k] < asyncWriteQueue'[i].id
  BY <1>1, <1>3 DEF OrderInv, QueueOrder
<1> QED
  BY <1>4, <1>5, <1>6, <1>7

\* There is no other leader, and whoever writes to its response has an
\* earlier token.
LEMMA TakeHeldOrder ==
  ASSUME TypeOK, LeaderInv, OrderInv, NEW w \in Worker, Take(w)
  PROVE  HeldOrder'
<1>1. /\ pc[w] = "take"
      /\ pc \in [Worker -> PC] /\ tokenResource \in [Worker -> Resource \cup {Nil}]
      /\ tokenMsg \in [Worker -> 0 .. MaxBroadcast]
      /\ UNCHANGED <<pushed, iterator, toAll, request, wire>>
  BY DEF Take, TypeOK, PoolTypeOK, eventVars, outVars
<1>2. TokenTaken(w)
  BY TakeFacts
<1>3. \A v \in Worker : pc[v] # "enter"
  BY <1>1 DEF LeaderInv, OneLeader, Leading
<1> QED
  BY <1>1, <1>2, <1>3 DEF TokenTaken, OrderInv, QueueOrder, HeldOrder, Carrying

\* Its token is as late in its hands as it was in the queue.
LEMMA TakePushOrder ==
  ASSUME TypeOK, OrderInv, NEW w \in Worker, Take(w)
  PROVE  PushOrder'
<1>1. /\ pc[w] = "take"
      /\ pc \in [Worker -> PC] /\ tokenResource \in [Worker -> Resource \cup {Nil}]
      /\ tokenMsg \in [Worker -> 0 .. MaxBroadcast]
      /\ UNCHANGED <<pushed, iterator, toAll, request, wire>>
  BY DEF Take, TypeOK, PoolTypeOK, eventVars, outVars
<1>2. TokenTaken(w)
  BY TakeFacts
<1> QED
  BY <1>1, <1>2 DEF TokenTaken, OrderInv, PushOrder, Latest, Awaits, Carrying

\* What is written is earlier than what is queued for the response.
LEMMA WriteQueueOrder ==
  ASSUME TypeOK, OrderInv, NEW w \in Worker, HandlerWrites(w)
  PROVE  QueueOrder'
<1>1. /\ pc[w] = "write" /\ pc' = [pc EXCEPT ![w] = "finish"]
      /\ pc \in [Worker -> PC]
      /\ UNCHANGED <<asyncWriteQueue, pushed, iterator, toAll, tokenResource, tokenMsg, request>>
  BY DEF HandlerWrites, Goto, TypeOK, PoolTypeOK, eventVars, queueVars
<1>2. Written(w)
  BY WriteFacts DEF OrderInv
<1>3. \A i \in DOMAIN asyncWriteQueue : asyncWriteQueue[i].r \in Resource
  BY QueuedToken DEF TypeOK
<1> SUFFICES ASSUME NEW i \in DOMAIN asyncWriteQueue'
             PROVE  /\ asyncWriteQueue'[i].id >= 1
                    /\ \A j \in DOMAIN asyncWriteQueue' :
                         j < i /\ asyncWriteQueue'[j].r = asyncWriteQueue'[i].r =>
                            asyncWriteQueue'[j].id < asyncWriteQueue'[i].id
                    /\ \A v \in Worker :
                         pc'[v] \in Carrying /\ tokenResource'[v] = asyncWriteQueue'[i].r =>
                            tokenMsg'[v] < asyncWriteQueue'[i].id
                    /\ \A k \in DOMAIN wire'[asyncWriteQueue'[i].r] :
                         wire'[asyncWriteQueue'[i].r][k] < asyncWriteQueue'[i].id
  BY DEF QueueOrder
<1>4. asyncWriteQueue[i].id >= 1 /\ asyncWriteQueue[i].r \in Resource
  BY <1>1, <1>3 DEF OrderInv, QueueOrder
<1>5. \A j \in DOMAIN asyncWriteQueue :
         j < i /\ asyncWriteQueue[j].r = asyncWriteQueue[i].r =>
            asyncWriteQueue[j].id < asyncWriteQueue[i].id
  BY <1>1 DEF OrderInv, QueueOrder
<1>6. \A v \in Worker :
         pc'[v] \in Carrying /\ tokenResource[v] = asyncWriteQueue[i].r =>
            tokenMsg[v] < asyncWriteQueue[i].id
  BY <1>1 DEF OrderInv, QueueOrder, Carrying
<1>7. \A k \in DOMAIN wire'[asyncWriteQueue[i].r] :
         wire'[asyncWriteQueue[i].r][k] < asyncWriteQueue[i].id
  BY <1>1, <1>2, <1>4 DEF OrderInv, QueueOrder, Written, Carrying
<1> QED
  BY <1>1, <1>4, <1>5, <1>6, <1>7

\* What is written is earlier than what the leader holds for the response;
\* the monitor keeps a second writer away.
LEMMA WriteHeldOrder ==
  ASSUME TypeOK, WriterOwnsMonitor, OrderInv, NEW w \in Worker, HandlerWrites(w)
  PROVE  HeldOrder'
<1>1. /\ pc[w] = "write" /\ pc' = [pc EXCEPT ![w] = "finish"]
      /\ pc \in [Worker -> PC]
      /\ UNCHANGED <<asyncWriteQueue, pushed, iterator, toAll, tokenResource, tokenMsg, request>>
  BY DEF HandlerWrites, Goto, TypeOK, PoolTypeOK, eventVars, queueVars
<1>2. Written(w)
  BY WriteFacts DEF OrderInv
<1>3. \A v \in Worker :
        pc[v] \in Carrying \ {"enter"} /\ tokenResource[v] = tokenResource[w] => v = w
  BY <1>1 DEF WriterOwnsMonitor, Inside, Carrying
<1>4. \A v \in Worker : pc[v] \in Carrying => tokenResource[v] \in Resource
  BY DEF TypeOK, PoolTypeOK, Carrying
<1> QED
  BY <1>1, <1>2, <1>3, <1>4 DEF Written, OrderInv, HeldOrder, Carrying

\* What is written was pushed before.
LEMMA WritePushOrder ==
  ASSUME TypeOK, OrderInv, NEW w \in Worker, HandlerWrites(w)
  PROVE  PushOrder'
<1>1. /\ pc[w] = "write" /\ pc' = [pc EXCEPT ![w] = "finish"]
      /\ pc \in [Worker -> PC]
      /\ UNCHANGED <<asyncWriteQueue, pushed, iterator, toAll, tokenResource, tokenMsg, request>>
  BY DEF HandlerWrites, Goto, TypeOK, PoolTypeOK, eventVars, queueVars
<1>2. Written(w)
  BY WriteFacts DEF OrderInv
<1> QED
  BY <1>1, <1>2 DEF Written, OrderInv, PushOrder, Latest, Awaits, Carrying

---------------------------------------------------------------------------
(* Every step keeps the order.                                             *)

\* The waiting entries stay the latest broadcasts, in order.
LEMMA NumberedStep ==
  ASSUME TypeOK, OrderInv, [Next]_vars
  PROVE  Numbered'
<1>1. ASSUME NEW to \in Target \cup {All}, Broadcast(to), UNCHANGED closeVars
      PROVE  Numbered'
  <2> DEFINE e == [id |-> broadcasts + 1, to |-> to]
  <2>1. /\ messages \in Seq(Entry) /\ broadcasts \in Nat /\ pushed \in Nat
        /\ e \in Entry /\ e.id = broadcasts + 1
        /\ broadcasts' = broadcasts + 1 /\ messages' = Append(messages, e)
        /\ UNCHANGED <<pushed, iterator>>
    BY <1>1, ChannelAssumption DEF Broadcast, TypeOK, QueueTypeOK, Entry, Message
  <2> HIDE DEF e
  <2>2. Len(messages) \in Nat /\ DOMAIN messages = 1 .. Len(messages)
    BY <2>1
  <2>3. /\ Len(messages') = Len(messages) + 1
        /\ DOMAIN messages' = 1 .. Len(messages) + 1
        /\ \A i \in 1 .. Len(messages) : messages'[i] = messages[i]
        /\ messages'[Len(messages) + 1] = e
    BY <2>1, AppendFacts
  <2>4. broadcasts' = pushed' + Len(messages')
    BY <2>1, <2>2, <2>3 DEF OrderInv, Numbered
  <2>5. ASSUME NEW k \in DOMAIN messages' PROVE messages'[k].id = pushed' + k
    <3>1. CASE k \in 1 .. Len(messages)
      BY <2>1, <2>2, <2>3, <3>1 DEF OrderInv, Numbered
    <3>2. CASE k = Len(messages) + 1
      BY <2>1, <2>2, <2>3, <3>2 DEF OrderInv, Numbered
    <3> QED
      BY <2>2, <2>3, <2>5, <3>1, <3>2
  <2>6. iterator' # {} => pushed' >= 1
    BY <2>1 DEF OrderInv, Numbered
  <2> QED
    BY <2>4, <2>5, <2>6 DEF Numbered
<1>2. ASSUME PushToNobody, UNCHANGED closeVars PROVE Numbered'
  BY <1>2, NotifierFacts, ChannelAssumption DEF PushToNobody, OrderInv, Numbered,
     TypeOK, QueueTypeOK
<1>3. ASSUME PushEntry, UNCHANGED closeVars PROVE Numbered'
  BY <1>3, NotifierFacts, ChannelAssumption DEF PushEntry, OrderInv, Numbered, TypeOK,
     QueueTypeOK
<1>4. ASSUME NEW r \in Resource, PushOne(r), UNCHANGED closeVars PROVE Numbered'
  BY <1>4 DEF PushOne, OrderInv, Numbered, TypeOK, QueueTypeOK, PutToken
<1>5. ASSUME NEW r \in Resource, PushOutOfScope(r), UNCHANGED closeVars PROVE Numbered'
  BY <1>5 DEF PushOutOfScope, OrderInv, Numbered, TypeOK, QueueTypeOK, PutToken
<1>6. ASSUME NEW r \in Resource, PushSkips(r), UNCHANGED closeVars PROVE Numbered'
  BY <1>6 DEF PushSkips, OrderInv, Numbered, TypeOK, QueueTypeOK, PutToken
<1>7. ASSUME NEW w \in Worker, Take(w), UNCHANGED closeVars PROVE Numbered'
  BY <1>7 DEF Take, OrderInv, Numbered
<1>8. ASSUME NEW w \in Worker, NEW f \in Worker, Enter(w, f), UNCHANGED closeVars
      PROVE  Numbered'
  BY <1>8 DEF Enter, OrderInv, Numbered, queueVars
<1>9. ASSUME NEW w \in Worker, DropToken(w), UNCHANGED closeVars PROVE Numbered'
  BY <1>9 DEF DropToken, OrderInv, Numbered, queueVars
<1>10. ASSUME NEW w \in Worker, SetMessage(w), UNCHANGED closeVars PROVE Numbered'
  BY <1>10 DEF SetMessage, OrderInv, Numbered, queueVars
<1>11. ASSUME NEW w \in Worker, Touch(w), UNCHANGED closeVars PROVE Numbered'
  BY <1>11 DEF Touch, OrderInv, Numbered, queueVars
<1>12. ASSUME NEW w \in Worker, Mark(w), UNCHANGED closeVars PROVE Numbered'
  BY <1>12 DEF Mark, OrderInv, Numbered, queueVars
<1>13. ASSUME NEW w \in Worker, MarkFails(w), UNCHANGED closeVars PROVE Numbered'
  BY <1>13 DEF MarkFails, OrderInv, Numbered, queueVars
<1>14. ASSUME NEW w \in Worker, HandlerSkips(w), UNCHANGED closeVars PROVE Numbered'
  BY <1>14 DEF HandlerSkips, OrderInv, Numbered, queueVars
<1>15. ASSUME NEW w \in Worker, HandlerWrites(w), UNCHANGED closeVars PROVE Numbered'
  BY <1>15 DEF HandlerWrites, OrderInv, Numbered, queueVars
<1>16. ASSUME NEW w \in Worker, NEW h \in Worker, HandlerFails(w, h), UNCHANGED closeVars
      PROVE  Numbered'
  BY <1>16 DEF HandlerFails, OrderInv, Numbered, queueVars
<1>17. ASSUME NEW w \in Worker, Finish(w), UNCHANGED closeVars PROVE Numbered'
  BY <1>17 DEF Finish, OrderInv, Numbered, queueVars
<1>18. ASSUME NEW w \in Worker, Resume(w), UNCHANGED closeVars PROVE Numbered'
  BY <1>18 DEF Resume, OrderInv, Numbered, queueVars
<1>19. ASSUME NEW w \in Worker, ResumeAction(w), UNCHANGED closeVars PROVE Numbered'
  BY <1>19 DEF ResumeAction, OrderInv, Numbered, queueVars
<1>20. ASSUME NEW w \in Worker, ResumeLeave(w), UNCHANGED closeVars PROVE Numbered'
  BY <1>20 DEF ResumeLeave, OrderInv, Numbered, queueVars
<1>21. ASSUME NEW r \in Resource, Suspend(r) PROVE Numbered'
  BY <1>21 DEF Suspend, OrderInv, Numbered, queueVars
<1>22. ASSUME NEW r \in Resource, Subscribe(r) PROVE Numbered'
  BY <1>22 DEF Subscribe, OrderInv, Numbered, AddAtmosphereResource
<1>23. ASSUME NEW r \in Resource, CheckSuspended(r) PROVE Numbered'
  BY <1>23 DEF CheckSuspended, OrderInv, Numbered, queueVars
<1>24. ASSUME NEW r \in Resource, PutAlive(r) PROVE Numbered'
  BY <1>24 DEF PutAlive, OrderInv, Numbered, queueVars
<1>25. ASSUME NEW c \in Closer, NEW r \in Resource, NEW kind \in Kind, Guard(c, r, kind)
      PROVE  Numbered'
  BY <1>25 DEF Guard, OrderInv, Numbered, chanVars, queueVars
<1>26. ASSUME NEW c \in Closer, MarkClosed(c) PROVE Numbered'
  BY <1>26 DEF MarkClosed, OrderInv, Numbered, queueVars
<1>27. ASSUME NEW c \in Closer, Flag(c) PROVE Numbered'
  BY <1>27 DEF Flag, OrderInv, Numbered, queueVars
<1>28. ASSUME NEW c \in Closer, InvokeOutOfScope(c) PROVE Numbered'
  BY <1>28 DEF InvokeOutOfScope, OrderInv, Numbered, chanVars, queueVars
<1>29. ASSUME NEW c \in Closer, InvokeSkips(c) PROVE Numbered'
  BY <1>29 DEF InvokeSkips, OrderInv, Numbered, chanVars, queueVars
<1>30. ASSUME NEW c \in Closer, InvokeWrites(c) PROVE Numbered'
  BY <1>30 DEF InvokeWrites, OrderInv, Numbered, chanVars, queueVars
<1>31. ASSUME NEW c \in Closer, Destroy(c) PROVE Numbered'
  BY <1>31 DEF Destroy, OrderInv, Numbered, queueVars
<1>32. ASSUME NEW c \in Closer, RemoveAll(c) PROVE Numbered'
  BY <1>32 DEF RemoveAll, OrderInv, Numbered, queueVars
<1>33. ASSUME NEW c \in Closer, LeaveScope(c) PROVE Numbered'
  BY <1>33 DEF LeaveScope, OrderInv, Numbered, queueVars
<1>34. ASSUME NEW c \in Closer, DestroyAgain(c) PROVE Numbered'
  BY <1>34 DEF DestroyAgain, OrderInv, Numbered, queueVars
<1>35. CASE UNCHANGED vars
  BY <1>35 DEF vars, chanVars, queueVars, poolVars, eventVars, outVars, registryVars,
     OrderInv, Numbered
<1> QED
  BY <1>1, <1>2, <1>3, <1>4, <1>5, <1>6, <1>7, <1>8, <1>9, <1>10, <1>11, <1>12, <1>13,
     <1>14, <1>15, <1>16, <1>17, <1>18, <1>19, <1>20, <1>21, <1>22, <1>23, <1>24, <1>25,
     <1>26, <1>27, <1>28, <1>29, <1>30, <1>31, <1>32, <1>33, <1>34, <1>35 DEF Next,
     Channel, Notifier, Pool, Request, Closing

\* Nobody changes the event's message under a writer: it owns the monitor.
LEMMA MessageStep ==
  ASSUME TypeOK, WriterOwnsMonitor, OrderInv, [Next]_vars
  PROVE  MessageIsToken'
<1>1. ASSUME NEW to \in Target \cup {All}, Broadcast(to), UNCHANGED closeVars
      PROVE  MessageIsToken'
  BY <1>1 DEF Broadcast, OrderInv, MessageIsToken, WriterOwnsMonitor, Inside, TypeOK,
     PoolTypeOK, EventTypeOK, eventVars, Goto, Exit
<1>2. ASSUME PushToNobody, UNCHANGED closeVars PROVE MessageIsToken'
  BY <1>2 DEF PushToNobody, OrderInv, MessageIsToken, poolVars, eventVars
<1>3. ASSUME PushEntry, UNCHANGED closeVars PROVE MessageIsToken'
  BY <1>3 DEF PushEntry, OrderInv, MessageIsToken, poolVars, eventVars
<1>4. ASSUME NEW r \in Resource, PushOne(r), UNCHANGED closeVars PROVE MessageIsToken'
  BY <1>4 DEF PushOne, OrderInv, MessageIsToken, poolVars, eventVars
<1>5. ASSUME NEW r \in Resource, PushOutOfScope(r), UNCHANGED closeVars
      PROVE  MessageIsToken'
  BY <1>5 DEF PushOutOfScope, OrderInv, MessageIsToken, poolVars, eventVars
<1>6. ASSUME NEW r \in Resource, PushSkips(r), UNCHANGED closeVars PROVE MessageIsToken'
  BY <1>6 DEF PushSkips, OrderInv, MessageIsToken, poolVars, eventVars
<1>7. ASSUME NEW w \in Worker, Take(w), UNCHANGED closeVars PROVE MessageIsToken'
  BY <1>7 DEF Take, OrderInv, MessageIsToken, WriterOwnsMonitor, Inside, TypeOK,
     PoolTypeOK, EventTypeOK, eventVars, Goto, Exit
<1>8. ASSUME NEW w \in Worker, NEW f \in Worker, Enter(w, f), UNCHANGED closeVars
      PROVE  MessageIsToken'
  BY <1>8 DEF Enter, OrderInv, MessageIsToken, WriterOwnsMonitor, Inside, TypeOK,
     PoolTypeOK, EventTypeOK, eventVars, Goto, Exit
<1>9. ASSUME NEW w \in Worker, DropToken(w), UNCHANGED closeVars PROVE MessageIsToken'
  BY <1>9 DEF DropToken, OrderInv, MessageIsToken, WriterOwnsMonitor, Inside, TypeOK,
     PoolTypeOK, EventTypeOK, eventVars, Goto, Exit
<1>10. ASSUME NEW w \in Worker, SetMessage(w), UNCHANGED closeVars PROVE MessageIsToken'
  BY <1>10 DEF SetMessage, OrderInv, MessageIsToken, WriterOwnsMonitor, Inside, TypeOK,
     PoolTypeOK, EventTypeOK, eventVars, Goto, Exit
<1>11. ASSUME NEW w \in Worker, Touch(w), UNCHANGED closeVars PROVE MessageIsToken'
  BY <1>11 DEF Touch, OrderInv, MessageIsToken, WriterOwnsMonitor, Inside, TypeOK,
     PoolTypeOK, EventTypeOK, eventVars, Goto, Exit
<1>12. ASSUME NEW w \in Worker, Mark(w), UNCHANGED closeVars PROVE MessageIsToken'
  BY <1>12 DEF Mark, OrderInv, MessageIsToken, WriterOwnsMonitor, Inside, TypeOK,
     PoolTypeOK, EventTypeOK, eventVars, Goto, Exit
<1>13. ASSUME NEW w \in Worker, MarkFails(w), UNCHANGED closeVars PROVE MessageIsToken'
  BY <1>13 DEF MarkFails, OrderInv, MessageIsToken, WriterOwnsMonitor, Inside, TypeOK,
     PoolTypeOK, EventTypeOK, eventVars, Goto, Exit
<1>14. ASSUME NEW w \in Worker, HandlerSkips(w), UNCHANGED closeVars
      PROVE  MessageIsToken'
  BY <1>14 DEF HandlerSkips, OrderInv, MessageIsToken, WriterOwnsMonitor, Inside,
     TypeOK, PoolTypeOK, EventTypeOK, eventVars, Goto, Exit
<1>15. ASSUME NEW w \in Worker, HandlerWrites(w), UNCHANGED closeVars
      PROVE  MessageIsToken'
  BY <1>15 DEF HandlerWrites, OrderInv, MessageIsToken, WriterOwnsMonitor, Inside,
     TypeOK, PoolTypeOK, EventTypeOK, eventVars, Goto, Exit
<1>16. ASSUME NEW w \in Worker, NEW h \in Worker, HandlerFails(w, h), UNCHANGED closeVars
      PROVE  MessageIsToken'
  BY <1>16 DEF HandlerFails, OrderInv, MessageIsToken, WriterOwnsMonitor, Inside,
     TypeOK, PoolTypeOK, EventTypeOK, eventVars, Goto, Exit
<1>17. ASSUME NEW w \in Worker, Finish(w), UNCHANGED closeVars PROVE MessageIsToken'
  BY <1>17 DEF Finish, OrderInv, MessageIsToken, WriterOwnsMonitor, Inside, TypeOK,
     PoolTypeOK, EventTypeOK, eventVars, Goto, Exit
<1>18. ASSUME NEW w \in Worker, Resume(w), UNCHANGED closeVars PROVE MessageIsToken'
  BY <1>18 DEF Resume, OrderInv, MessageIsToken, WriterOwnsMonitor, Inside, TypeOK,
     PoolTypeOK, EventTypeOK, eventVars, Goto, Exit
<1>19. ASSUME NEW w \in Worker, ResumeAction(w), UNCHANGED closeVars
      PROVE  MessageIsToken'
  BY <1>19 DEF ResumeAction, OrderInv, MessageIsToken, WriterOwnsMonitor, Inside,
     TypeOK, PoolTypeOK, EventTypeOK, eventVars, Goto, Exit
<1>20. ASSUME NEW w \in Worker, ResumeLeave(w), UNCHANGED closeVars
      PROVE  MessageIsToken'
  BY <1>20 DEF ResumeLeave, OrderInv, MessageIsToken, WriterOwnsMonitor, Inside, TypeOK,
     PoolTypeOK, EventTypeOK, eventVars, Goto, Exit
<1>21. ASSUME NEW r \in Resource, Suspend(r) PROVE MessageIsToken'
  BY <1>21 DEF Suspend, OrderInv, MessageIsToken, poolVars, eventVars
<1>22. ASSUME NEW r \in Resource, Subscribe(r) PROVE MessageIsToken'
  BY <1>22 DEF Subscribe, OrderInv, MessageIsToken, poolVars, eventVars
<1>23. ASSUME NEW r \in Resource, CheckSuspended(r) PROVE MessageIsToken'
  BY <1>23 DEF CheckSuspended, OrderInv, MessageIsToken, poolVars, eventVars
<1>24. ASSUME NEW r \in Resource, PutAlive(r) PROVE MessageIsToken'
  BY <1>24 DEF PutAlive, OrderInv, MessageIsToken, poolVars, eventVars
<1>25. ASSUME NEW c \in Closer, NEW r \in Resource, NEW kind \in Kind, Guard(c, r, kind)
      PROVE  MessageIsToken'
  BY <1>25 DEF Guard, OrderInv, MessageIsToken, chanVars, poolVars, eventVars
<1>26. ASSUME NEW c \in Closer, MarkClosed(c) PROVE MessageIsToken'
  BY <1>26 DEF MarkClosed, OrderInv, MessageIsToken, poolVars, eventVars
<1>27. ASSUME NEW c \in Closer, Flag(c) PROVE MessageIsToken'
  BY <1>27 DEF Flag, OrderInv, MessageIsToken, poolVars, eventVars
<1>28. ASSUME NEW c \in Closer, InvokeOutOfScope(c) PROVE MessageIsToken'
  BY <1>28 DEF InvokeOutOfScope, OrderInv, MessageIsToken, chanVars, poolVars, eventVars
<1>29. ASSUME NEW c \in Closer, InvokeSkips(c) PROVE MessageIsToken'
  BY <1>29 DEF InvokeSkips, OrderInv, MessageIsToken, chanVars, poolVars, eventVars
<1>30. ASSUME NEW c \in Closer, InvokeWrites(c) PROVE MessageIsToken'
  BY <1>30 DEF InvokeWrites, OrderInv, MessageIsToken, chanVars, poolVars, eventVars
<1>31. ASSUME NEW c \in Closer, Destroy(c) PROVE MessageIsToken'
  BY <1>31 DEF Destroy, OrderInv, MessageIsToken, poolVars, eventVars
<1>32. ASSUME NEW c \in Closer, RemoveAll(c) PROVE MessageIsToken'
  BY <1>32 DEF RemoveAll, OrderInv, MessageIsToken, poolVars, eventVars
<1>33. ASSUME NEW c \in Closer, LeaveScope(c) PROVE MessageIsToken'
  BY <1>33 DEF LeaveScope, OrderInv, MessageIsToken, poolVars, eventVars
<1>34. ASSUME NEW c \in Closer, DestroyAgain(c) PROVE MessageIsToken'
  BY <1>34 DEF DestroyAgain, OrderInv, MessageIsToken, poolVars, eventVars
<1>35. CASE UNCHANGED vars
  BY <1>35 DEF vars, chanVars, queueVars, poolVars, eventVars, outVars, registryVars,
     OrderInv, MessageIsToken
<1> QED
  BY <1>1, <1>2, <1>3, <1>4, <1>5, <1>6, <1>7, <1>8, <1>9, <1>10, <1>11, <1>12, <1>13,
     <1>14, <1>15, <1>16, <1>17, <1>18, <1>19, <1>20, <1>21, <1>22, <1>23, <1>24, <1>25,
     <1>26, <1>27, <1>28, <1>29, <1>30, <1>31, <1>32, <1>33, <1>34, <1>35 DEF Next,
     Channel, Notifier, Pool, Request, Closing

\* A response is registered by its own request only.
LEMMA RegisteredStep ==
  ASSUME TypeOK, ScopeInv, OrderInv, [Next]_vars
  PROVE  NotYetRegistered'
<1>1. ASSUME NEW to \in Target \cup {All}, Broadcast(to), UNCHANGED closeVars
      PROVE  NotYetRegistered'
  BY <1>1 DEF Broadcast, OrderInv, NotYetRegistered, queueVars, eventVars, registryVars
<1>2. ASSUME PushToNobody, UNCHANGED closeVars PROVE NotYetRegistered'
  BY <1>2 DEF PushToNobody, OrderInv, NotYetRegistered, TypeOK, OutTypeOK, PutToken,
     eventVars, registryVars
<1>3. ASSUME PushEntry, UNCHANGED closeVars PROVE NotYetRegistered'
  BY <1>3 DEF PushEntry, OrderInv, NotYetRegistered, TypeOK, OutTypeOK, PutToken,
     eventVars, registryVars
<1>4. ASSUME NEW r \in Resource, PushOne(r), UNCHANGED closeVars PROVE NotYetRegistered'
  BY <1>4 DEF PushOne, OrderInv, NotYetRegistered, TypeOK, OutTypeOK, PutToken,
     eventVars, registryVars
<1>5. ASSUME NEW r \in Resource, PushOutOfScope(r), UNCHANGED closeVars
      PROVE  NotYetRegistered'
  BY <1>5 DEF PushOutOfScope, OrderInv, NotYetRegistered, TypeOK, OutTypeOK, PutToken,
     eventVars, registryVars
<1>6. ASSUME NEW r \in Resource, PushSkips(r), UNCHANGED closeVars
      PROVE  NotYetRegistered'
  BY <1>6 DEF PushSkips, OrderInv, NotYetRegistered, TypeOK, OutTypeOK, PutToken,
     eventVars, registryVars
<1>7. ASSUME NEW w \in Worker, Take(w), UNCHANGED closeVars PROVE NotYetRegistered'
  BY <1>7 DEF Take, OrderInv, NotYetRegistered, eventVars, registryVars
<1>8. ASSUME NEW w \in Worker, NEW f \in Worker, Enter(w, f), UNCHANGED closeVars
      PROVE  NotYetRegistered'
  BY <1>8 DEF Enter, OrderInv, NotYetRegistered, queueVars, eventVars, registryVars
<1>9. ASSUME NEW w \in Worker, DropToken(w), UNCHANGED closeVars PROVE NotYetRegistered'
  BY <1>9 DEF DropToken, OrderInv, NotYetRegistered, queueVars, eventVars, registryVars
<1>10. ASSUME NEW w \in Worker, SetMessage(w), UNCHANGED closeVars
      PROVE  NotYetRegistered'
  BY <1>10 DEF SetMessage, OrderInv, NotYetRegistered, queueVars, eventVars,
     registryVars
<1>11. ASSUME NEW w \in Worker, Touch(w), UNCHANGED closeVars PROVE NotYetRegistered'
  BY <1>11 DEF Touch, OrderInv, NotYetRegistered, queueVars, eventVars, registryVars
<1>12. ASSUME NEW w \in Worker, Mark(w), UNCHANGED closeVars PROVE NotYetRegistered'
  BY <1>12 DEF Mark, OrderInv, NotYetRegistered, queueVars, eventVars, registryVars
<1>13. ASSUME NEW w \in Worker, MarkFails(w), UNCHANGED closeVars
      PROVE  NotYetRegistered'
  BY <1>13 DEF MarkFails, OrderInv, NotYetRegistered, TypeOK, OutTypeOK, EventTypeOK,
     AddAtmosphereResource, eventVars, registryVars, queueVars
<1>14. ASSUME NEW w \in Worker, HandlerSkips(w), UNCHANGED closeVars
      PROVE  NotYetRegistered'
  BY <1>14 DEF HandlerSkips, OrderInv, NotYetRegistered, queueVars, eventVars,
     registryVars
<1>15. ASSUME NEW w \in Worker, HandlerWrites(w), UNCHANGED closeVars
      PROVE  NotYetRegistered'
  BY <1>15 DEF HandlerWrites, OrderInv, NotYetRegistered, queueVars, eventVars,
     registryVars
<1>16. ASSUME NEW w \in Worker, NEW h \in Worker, HandlerFails(w, h), UNCHANGED closeVars
      PROVE  NotYetRegistered'
  BY <1>16 DEF HandlerFails, OrderInv, NotYetRegistered, queueVars, eventVars,
     registryVars
<1>17. ASSUME NEW w \in Worker, Finish(w), UNCHANGED closeVars PROVE NotYetRegistered'
  BY <1>17 DEF Finish, OrderInv, NotYetRegistered, queueVars, eventVars, registryVars
<1>18. ASSUME NEW w \in Worker, Resume(w), UNCHANGED closeVars PROVE NotYetRegistered'
  BY <1>18 DEF Resume, OrderInv, NotYetRegistered, queueVars, eventVars, registryVars
<1>19. ASSUME NEW w \in Worker, ResumeAction(w), UNCHANGED closeVars
      PROVE  NotYetRegistered'
  BY <1>19 DEF ResumeAction, OrderInv, NotYetRegistered, TypeOK, OutTypeOK, EventTypeOK,
     AddAtmosphereResource, eventVars, registryVars, queueVars
<1>20. ASSUME NEW w \in Worker, ResumeLeave(w), UNCHANGED closeVars
      PROVE  NotYetRegistered'
  BY <1>20 DEF ResumeLeave, OrderInv, NotYetRegistered, TypeOK, OutTypeOK, EventTypeOK,
     AddAtmosphereResource, eventVars, registryVars, queueVars
<1>21. ASSUME NEW r \in Resource, Suspend(r) PROVE NotYetRegistered'
  BY <1>21 DEF Suspend, OrderInv, NotYetRegistered, TypeOK, OutTypeOK, EventTypeOK,
     AddAtmosphereResource, eventVars, registryVars, queueVars
<1>22. ASSUME NEW r \in Resource, Subscribe(r) PROVE NotYetRegistered'
  BY <1>22 DEF Subscribe, OrderInv, NotYetRegistered, TypeOK, OutTypeOK, EventTypeOK,
     AddAtmosphereResource, eventVars, registryVars, queueVars
<1>23. ASSUME NEW r \in Resource, CheckSuspended(r) PROVE NotYetRegistered'
  BY <1>23 DEF CheckSuspended, OrderInv, NotYetRegistered, TypeOK, OutTypeOK,
     EventTypeOK, AddAtmosphereResource, eventVars, registryVars, queueVars
<1>24. ASSUME NEW r \in Resource, PutAlive(r) PROVE NotYetRegistered'
  BY <1>24 DEF PutAlive, OrderInv, NotYetRegistered, TypeOK, OutTypeOK, EventTypeOK,
     AddAtmosphereResource, eventVars, registryVars, queueVars
<1>25. ASSUME NEW c \in Closer, NEW r \in Resource, NEW kind \in Kind, Guard(c, r, kind)
      PROVE  NotYetRegistered'
  BY <1>25 DEF Guard, OrderInv, NotYetRegistered, eventVars, chanVars, registryVars,
     queueVars
<1>26. ASSUME NEW c \in Closer, MarkClosed(c) PROVE NotYetRegistered'
  BY <1>26 DEF MarkClosed, OrderInv, NotYetRegistered, queueVars, eventVars,
     registryVars
<1>27. ASSUME NEW c \in Closer, Flag(c) PROVE NotYetRegistered'
  BY <1>27 DEF Flag, OrderInv, NotYetRegistered, queueVars, eventVars, registryVars
<1>28. ASSUME NEW c \in Closer, InvokeOutOfScope(c) PROVE NotYetRegistered'
  BY <1>28 DEF InvokeOutOfScope, OrderInv, NotYetRegistered, eventVars, chanVars,
     registryVars, queueVars
<1>29. ASSUME NEW c \in Closer, InvokeSkips(c) PROVE NotYetRegistered'
  BY <1>29 DEF InvokeSkips, OrderInv, NotYetRegistered, eventVars, chanVars,
     registryVars, queueVars
<1>30. ASSUME NEW c \in Closer, InvokeWrites(c) PROVE NotYetRegistered'
  BY <1>30 DEF InvokeWrites, OrderInv, NotYetRegistered, eventVars, chanVars,
     registryVars, queueVars
<1>31. ASSUME NEW c \in Closer, Destroy(c) PROVE NotYetRegistered'
  BY <1>31 DEF Destroy, OrderInv, NotYetRegistered, queueVars, eventVars, registryVars
<1>32. ASSUME NEW c \in Closer, RemoveAll(c) PROVE NotYetRegistered'
  BY <1>32 DEF RemoveAll, OrderInv, NotYetRegistered, queueVars, eventVars, registryVars
<1>33. ASSUME NEW c \in Closer, LeaveScope(c) PROVE NotYetRegistered'
  BY <1>33 DEF LeaveScope, OrderInv, NotYetRegistered, queueVars, eventVars,
     registryVars
<1>34. ASSUME NEW c \in Closer, DestroyAgain(c) PROVE NotYetRegistered'
  BY <1>34 DEF DestroyAgain, OrderInv, NotYetRegistered, queueVars, eventVars,
     registryVars
<1>35. CASE UNCHANGED vars
  BY <1>35 DEF vars, chanVars, queueVars, poolVars, eventVars, outVars, registryVars,
     OrderInv, NotYetRegistered
<1> QED
  BY <1>1, <1>2, <1>3, <1>4, <1>5, <1>6, <1>7, <1>8, <1>9, <1>10, <1>11, <1>12, <1>13,
     <1>14, <1>15, <1>16, <1>17, <1>18, <1>19, <1>20, <1>21, <1>22, <1>23, <1>24, <1>25,
     <1>26, <1>27, <1>28, <1>29, <1>30, <1>31, <1>32, <1>33, <1>34, <1>35 DEF Next,
     Channel, Notifier, Pool, Request, Closing

\* The queued tokens of a response stay later than all before them.
LEMMA QueueOrderStep ==
  ASSUME TypeOK, OrderInv, [Next]_vars
  PROVE  QueueOrder'
<1>1. ASSUME NEW to \in Target \cup {All}, Broadcast(to), UNCHANGED closeVars
      PROVE  QueueOrder'
  BY <1>1 DEF Broadcast, OrderInv, QueueOrder, HeldOrder, TypeOK, PoolTypeOK, Carrying,
     queueVars, outVars, Goto, Exit
<1>2. ASSUME PushToNobody, UNCHANGED closeVars PROVE QueueOrder'
  BY <1>2 DEF PushToNobody, OrderInv, QueueOrder, queueVars, poolVars, outVars
<1>3. ASSUME PushEntry, UNCHANGED closeVars PROVE QueueOrder'
  BY <1>3 DEF PushEntry, OrderInv, QueueOrder, queueVars, poolVars, outVars
<1>4. ASSUME NEW r \in Resource, PushOne(r), UNCHANGED closeVars PROVE QueueOrder'
  BY <1>4, PutQueueOrder DEF PushOne, poolVars, eventVars, outVars
<1>5. ASSUME NEW r \in Resource, PushOutOfScope(r), UNCHANGED closeVars
      PROVE  QueueOrder'
  BY <1>5, PutQueueOrder DEF PushOutOfScope, poolVars, eventVars, outVars
<1>6. ASSUME NEW r \in Resource, PushSkips(r), UNCHANGED closeVars PROVE QueueOrder'
  BY <1>6 DEF PushSkips, OrderInv, QueueOrder, queueVars, poolVars, outVars
<1>7. ASSUME NEW w \in Worker, Take(w), UNCHANGED closeVars PROVE QueueOrder'
  BY <1>7, TakeQueueOrder DEF Take
<1>8. ASSUME NEW w \in Worker, NEW f \in Worker, Enter(w, f), UNCHANGED closeVars
      PROVE  QueueOrder'
  <2>1. UNCHANGED <<asyncWriteQueue, tokenResource, tokenMsg, wire>>
    BY <1>8 DEF Enter, queueVars, outVars
  <2>2. \A v \in Worker : pc'[v] \in Carrying => pc[v] \in Carrying
    BY <1>8 DEF Enter, TypeOK, PoolTypeOK, Carrying
  <2> QED
    BY <2>1, <2>2 DEF OrderInv, QueueOrder
<1>9. ASSUME NEW w \in Worker, DropToken(w), UNCHANGED closeVars PROVE QueueOrder'
  BY <1>9 DEF DropToken, OrderInv, QueueOrder, HeldOrder, TypeOK, PoolTypeOK, Carrying,
     queueVars, outVars, Goto, Exit
<1>10. ASSUME NEW w \in Worker, SetMessage(w), UNCHANGED closeVars PROVE QueueOrder'
  BY <1>10 DEF SetMessage, OrderInv, QueueOrder, HeldOrder, TypeOK, PoolTypeOK,
     Carrying, queueVars, outVars, Goto, Exit
<1>11. ASSUME NEW w \in Worker, Touch(w), UNCHANGED closeVars PROVE QueueOrder'
  BY <1>11 DEF Touch, OrderInv, QueueOrder, HeldOrder, TypeOK, PoolTypeOK, Carrying,
     queueVars, outVars, Goto, Exit
<1>12. ASSUME NEW w \in Worker, Mark(w), UNCHANGED closeVars PROVE QueueOrder'
  BY <1>12 DEF Mark, OrderInv, QueueOrder, HeldOrder, TypeOK, PoolTypeOK, Carrying,
     queueVars, outVars, Goto, Exit
<1>13. ASSUME NEW w \in Worker, MarkFails(w), UNCHANGED closeVars PROVE QueueOrder'
  BY <1>13 DEF MarkFails, OrderInv, QueueOrder, HeldOrder, TypeOK, PoolTypeOK, Carrying,
     queueVars, outVars, Goto, Exit
<1>14. ASSUME NEW w \in Worker, HandlerSkips(w), UNCHANGED closeVars PROVE QueueOrder'
  BY <1>14 DEF HandlerSkips, OrderInv, QueueOrder, HeldOrder, TypeOK, PoolTypeOK,
     Carrying, queueVars, outVars, Goto, Exit
<1>15. ASSUME NEW w \in Worker, HandlerWrites(w), UNCHANGED closeVars PROVE QueueOrder'
  BY <1>15, WriteQueueOrder DEF HandlerWrites
<1>16. ASSUME NEW w \in Worker, NEW h \in Worker, HandlerFails(w, h), UNCHANGED closeVars
      PROVE  QueueOrder'
  BY <1>16 DEF HandlerFails, OrderInv, QueueOrder, HeldOrder, TypeOK, PoolTypeOK,
     Carrying, queueVars, outVars, Goto, Exit
<1>17. ASSUME NEW w \in Worker, Finish(w), UNCHANGED closeVars PROVE QueueOrder'
  BY <1>17 DEF Finish, OrderInv, QueueOrder, HeldOrder, TypeOK, PoolTypeOK, Carrying,
     queueVars, outVars, Goto, Exit
<1>18. ASSUME NEW w \in Worker, Resume(w), UNCHANGED closeVars PROVE QueueOrder'
  BY <1>18 DEF Resume, OrderInv, QueueOrder, HeldOrder, TypeOK, PoolTypeOK, Carrying,
     queueVars, outVars, Goto, Exit
<1>19. ASSUME NEW w \in Worker, ResumeAction(w), UNCHANGED closeVars PROVE QueueOrder'
  BY <1>19 DEF ResumeAction, OrderInv, QueueOrder, HeldOrder, TypeOK, PoolTypeOK,
     Carrying, queueVars, outVars, Goto, Exit
<1>20. ASSUME NEW w \in Worker, ResumeLeave(w), UNCHANGED closeVars PROVE QueueOrder'
  BY <1>20 DEF ResumeLeave, OrderInv, QueueOrder, HeldOrder, TypeOK, PoolTypeOK,
     Carrying, queueVars, outVars, Goto, Exit
<1>21. ASSUME NEW r \in Resource, Suspend(r) PROVE QueueOrder'
  BY <1>21 DEF Suspend, OrderInv, QueueOrder, queueVars, poolVars, outVars
<1>22. ASSUME NEW r \in Resource, Subscribe(r) PROVE QueueOrder'
  BY <1>22 DEF Subscribe, OrderInv, QueueOrder, poolVars, outVars
<1>23. ASSUME NEW r \in Resource, CheckSuspended(r) PROVE QueueOrder'
  BY <1>23 DEF CheckSuspended, OrderInv, QueueOrder, queueVars, poolVars, outVars
<1>24. ASSUME NEW r \in Resource, PutAlive(r) PROVE QueueOrder'
  BY <1>24 DEF PutAlive, OrderInv, QueueOrder, queueVars, poolVars, outVars
<1>25. ASSUME NEW c \in Closer, NEW r \in Resource, NEW kind \in Kind, Guard(c, r, kind)
      PROVE  QueueOrder'
  BY <1>25 DEF Guard, OrderInv, QueueOrder, chanVars, queueVars, poolVars, outVars
<1>26. ASSUME NEW c \in Closer, MarkClosed(c) PROVE QueueOrder'
  BY <1>26 DEF MarkClosed, OrderInv, QueueOrder, queueVars, poolVars, outVars
<1>27. ASSUME NEW c \in Closer, Flag(c) PROVE QueueOrder'
  BY <1>27 DEF Flag, OrderInv, QueueOrder, queueVars, poolVars, outVars
<1>28. ASSUME NEW c \in Closer, InvokeOutOfScope(c) PROVE QueueOrder'
  BY <1>28 DEF InvokeOutOfScope, OrderInv, QueueOrder, chanVars, queueVars, poolVars,
     outVars
<1>29. ASSUME NEW c \in Closer, InvokeSkips(c) PROVE QueueOrder'
  BY <1>29 DEF InvokeSkips, OrderInv, QueueOrder, chanVars, queueVars, poolVars, outVars
<1>30. ASSUME NEW c \in Closer, InvokeWrites(c) PROVE QueueOrder'
  BY <1>30 DEF InvokeWrites, OrderInv, QueueOrder, chanVars, queueVars, poolVars,
     outVars
<1>31. ASSUME NEW c \in Closer, Destroy(c) PROVE QueueOrder'
  BY <1>31 DEF Destroy, OrderInv, QueueOrder, queueVars, poolVars, outVars
<1>32. ASSUME NEW c \in Closer, RemoveAll(c) PROVE QueueOrder'
  BY <1>32 DEF RemoveAll, OrderInv, QueueOrder, queueVars, poolVars, outVars
<1>33. ASSUME NEW c \in Closer, LeaveScope(c) PROVE QueueOrder'
  BY <1>33 DEF LeaveScope, OrderInv, QueueOrder, queueVars, poolVars, outVars
<1>34. ASSUME NEW c \in Closer, DestroyAgain(c) PROVE QueueOrder'
  BY <1>34 DEF DestroyAgain, OrderInv, QueueOrder, queueVars, poolVars, outVars
<1>35. CASE UNCHANGED vars
  BY <1>35 DEF vars, chanVars, queueVars, poolVars, eventVars, outVars, registryVars,
     OrderInv, QueueOrder
<1> QED
  BY <1>1, <1>2, <1>3, <1>4, <1>5, <1>6, <1>7, <1>8, <1>9, <1>10, <1>11, <1>12, <1>13,
     <1>14, <1>15, <1>16, <1>17, <1>18, <1>19, <1>20, <1>21, <1>22, <1>23, <1>24, <1>25,
     <1>26, <1>27, <1>28, <1>29, <1>30, <1>31, <1>32, <1>33, <1>34, <1>35 DEF Next,
     Channel, Notifier, Pool, Request, Closing

\* The held tokens stay in order: there is one leader and one writer.
LEMMA HeldOrderStep ==
  ASSUME TypeOK, LeaderInv, WriterOwnsMonitor, OrderInv, [Next]_vars
  PROVE  HeldOrder'
<1>1. ASSUME NEW to \in Target \cup {All}, Broadcast(to), UNCHANGED closeVars
      PROVE  HeldOrder'
  BY <1>1 DEF Broadcast, OrderInv, HeldOrder, TypeOK, PoolTypeOK, Carrying, outVars,
     Goto, Exit, LeaderInv, OneLeader, Leading
<1>2. ASSUME PushToNobody, UNCHANGED closeVars PROVE HeldOrder'
  BY <1>2 DEF PushToNobody, OrderInv, HeldOrder, poolVars, outVars
<1>3. ASSUME PushEntry, UNCHANGED closeVars PROVE HeldOrder'
  BY <1>3 DEF PushEntry, OrderInv, HeldOrder, poolVars, outVars
<1>4. ASSUME NEW r \in Resource, PushOne(r), UNCHANGED closeVars PROVE HeldOrder'
  BY <1>4 DEF PushOne, OrderInv, HeldOrder, poolVars, outVars
<1>5. ASSUME NEW r \in Resource, PushOutOfScope(r), UNCHANGED closeVars PROVE HeldOrder'
  BY <1>5 DEF PushOutOfScope, OrderInv, HeldOrder, poolVars, outVars
<1>6. ASSUME NEW r \in Resource, PushSkips(r), UNCHANGED closeVars PROVE HeldOrder'
  BY <1>6 DEF PushSkips, OrderInv, HeldOrder, poolVars, outVars
<1>7. ASSUME NEW w \in Worker, Take(w), UNCHANGED closeVars PROVE HeldOrder'
  BY <1>7, TakeHeldOrder DEF Take
<1>8. ASSUME NEW w \in Worker, NEW f \in Worker, Enter(w, f), UNCHANGED closeVars
      PROVE  HeldOrder'
  BY <1>8 DEF Enter, OrderInv, HeldOrder, TypeOK, PoolTypeOK, Carrying, outVars, Goto,
     Exit, LeaderInv, OneLeader, Leading
<1>9. ASSUME NEW w \in Worker, DropToken(w), UNCHANGED closeVars PROVE HeldOrder'
  BY <1>9 DEF DropToken, OrderInv, HeldOrder, TypeOK, PoolTypeOK, Carrying, outVars,
     Goto, Exit, LeaderInv, OneLeader, Leading
<1>10. ASSUME NEW w \in Worker, SetMessage(w), UNCHANGED closeVars PROVE HeldOrder'
  BY <1>10 DEF SetMessage, OrderInv, HeldOrder, TypeOK, PoolTypeOK, Carrying, outVars,
     Goto, Exit, LeaderInv, OneLeader, Leading
<1>11. ASSUME NEW w \in Worker, Touch(w), UNCHANGED closeVars PROVE HeldOrder'
  BY <1>11 DEF Touch, OrderInv, HeldOrder, TypeOK, PoolTypeOK, Carrying, outVars, Goto,
     Exit, LeaderInv, OneLeader, Leading
<1>12. ASSUME NEW w \in Worker, Mark(w), UNCHANGED closeVars PROVE HeldOrder'
  BY <1>12 DEF Mark, OrderInv, HeldOrder, TypeOK, PoolTypeOK, Carrying, outVars, Goto,
     Exit, LeaderInv, OneLeader, Leading
<1>13. ASSUME NEW w \in Worker, MarkFails(w), UNCHANGED closeVars PROVE HeldOrder'
  BY <1>13 DEF MarkFails, OrderInv, HeldOrder, TypeOK, PoolTypeOK, Carrying, outVars,
     Goto, Exit, LeaderInv, OneLeader, Leading
<1>14. ASSUME NEW w \in Worker, HandlerSkips(w), UNCHANGED closeVars PROVE HeldOrder'
  BY <1>14 DEF HandlerSkips, OrderInv, HeldOrder, TypeOK, PoolTypeOK, Carrying, outVars,
     Goto, Exit, LeaderInv, OneLeader, Leading
<1>15. ASSUME NEW w \in Worker, HandlerWrites(w), UNCHANGED closeVars PROVE HeldOrder'
  BY <1>15, WriteHeldOrder DEF HandlerWrites
<1>16. ASSUME NEW w \in Worker, NEW h \in Worker, HandlerFails(w, h), UNCHANGED closeVars
      PROVE  HeldOrder'
  BY <1>16 DEF HandlerFails, OrderInv, HeldOrder, TypeOK, PoolTypeOK, Carrying, outVars,
     Goto, Exit, LeaderInv, OneLeader, Leading
<1>17. ASSUME NEW w \in Worker, Finish(w), UNCHANGED closeVars PROVE HeldOrder'
  BY <1>17 DEF Finish, OrderInv, HeldOrder, TypeOK, PoolTypeOK, Carrying, outVars, Goto,
     Exit, LeaderInv, OneLeader, Leading
<1>18. ASSUME NEW w \in Worker, Resume(w), UNCHANGED closeVars PROVE HeldOrder'
  BY <1>18 DEF Resume, OrderInv, HeldOrder, TypeOK, PoolTypeOK, Carrying, outVars, Goto,
     Exit, LeaderInv, OneLeader, Leading
<1>19. ASSUME NEW w \in Worker, ResumeAction(w), UNCHANGED closeVars PROVE HeldOrder'
  BY <1>19 DEF ResumeAction, OrderInv, HeldOrder, TypeOK, PoolTypeOK, Carrying, outVars,
     Goto, Exit, LeaderInv, OneLeader, Leading
<1>20. ASSUME NEW w \in Worker, ResumeLeave(w), UNCHANGED closeVars PROVE HeldOrder'
  BY <1>20 DEF ResumeLeave, OrderInv, HeldOrder, TypeOK, PoolTypeOK, Carrying, outVars,
     Goto, Exit, LeaderInv, OneLeader, Leading
<1>21. ASSUME NEW r \in Resource, Suspend(r) PROVE HeldOrder'
  BY <1>21 DEF Suspend, OrderInv, HeldOrder, poolVars, outVars
<1>22. ASSUME NEW r \in Resource, Subscribe(r) PROVE HeldOrder'
  BY <1>22 DEF Subscribe, OrderInv, HeldOrder, poolVars, outVars
<1>23. ASSUME NEW r \in Resource, CheckSuspended(r) PROVE HeldOrder'
  BY <1>23 DEF CheckSuspended, OrderInv, HeldOrder, poolVars, outVars
<1>24. ASSUME NEW r \in Resource, PutAlive(r) PROVE HeldOrder'
  BY <1>24 DEF PutAlive, OrderInv, HeldOrder, poolVars, outVars
<1>25. ASSUME NEW c \in Closer, NEW r \in Resource, NEW kind \in Kind, Guard(c, r, kind)
      PROVE  HeldOrder'
  BY <1>25 DEF Guard, OrderInv, HeldOrder, chanVars, poolVars, outVars
<1>26. ASSUME NEW c \in Closer, MarkClosed(c) PROVE HeldOrder'
  BY <1>26 DEF MarkClosed, OrderInv, HeldOrder, poolVars, outVars
<1>27. ASSUME NEW c \in Closer, Flag(c) PROVE HeldOrder'
  BY <1>27 DEF Flag, OrderInv, HeldOrder, poolVars, outVars
<1>28. ASSUME NEW c \in Closer, InvokeOutOfScope(c) PROVE HeldOrder'
  BY <1>28 DEF InvokeOutOfScope, OrderInv, HeldOrder, chanVars, poolVars, outVars
<1>29. ASSUME NEW c \in Closer, InvokeSkips(c) PROVE HeldOrder'
  BY <1>29 DEF InvokeSkips, OrderInv, HeldOrder, chanVars, poolVars, outVars
<1>30. ASSUME NEW c \in Closer, InvokeWrites(c) PROVE HeldOrder'
  BY <1>30 DEF InvokeWrites, OrderInv, HeldOrder, chanVars, poolVars, outVars
<1>31. ASSUME NEW c \in Closer, Destroy(c) PROVE HeldOrder'
  BY <1>31 DEF Destroy, OrderInv, HeldOrder, poolVars, outVars
<1>32. ASSUME NEW c \in Closer, RemoveAll(c) PROVE HeldOrder'
  BY <1>32 DEF RemoveAll, OrderInv, HeldOrder, poolVars, outVars
<1>33. ASSUME NEW c \in Closer, LeaveScope(c) PROVE HeldOrder'
  BY <1>33 DEF LeaveScope, OrderInv, HeldOrder, poolVars, outVars
<1>34. ASSUME NEW c \in Closer, DestroyAgain(c) PROVE HeldOrder'
  BY <1>34 DEF DestroyAgain, OrderInv, HeldOrder, poolVars, outVars
<1>35. CASE UNCHANGED vars
  BY <1>35 DEF vars, chanVars, queueVars, poolVars, eventVars, outVars, registryVars,
     OrderInv, HeldOrder
<1> QED
  BY <1>1, <1>2, <1>3, <1>4, <1>5, <1>6, <1>7, <1>8, <1>9, <1>10, <1>11, <1>12, <1>13,
     <1>14, <1>15, <1>16, <1>17, <1>18, <1>19, <1>20, <1>21, <1>22, <1>23, <1>24, <1>25,
     <1>26, <1>27, <1>28, <1>29, <1>30, <1>31, <1>32, <1>33, <1>34, <1>35 DEF Next,
     Channel, Notifier, Pool, Request, Closing

\* What is pushed next stays later than all that was pushed before.
LEMMA PushOrderStep ==
  ASSUME TypeOK, OrderInv, [Next]_vars
  PROVE  PushOrder'
<1>1. ASSUME NEW to \in Target \cup {All}, Broadcast(to), UNCHANGED closeVars
      PROVE  PushOrder'
  BY <1>1 DEF Broadcast, OrderInv, PushOrder, Latest, Awaits, TypeOK, PoolTypeOK,
     Carrying, queueVars, eventVars, outVars, Goto, Exit
<1>2. ASSUME PushToNobody, UNCHANGED closeVars PROVE PushOrder'
  BY <1>2, NotifierOrder DEF PushToNobody, poolVars, outVars
<1>3. ASSUME PushEntry, UNCHANGED closeVars PROVE PushOrder'
  BY <1>3, NotifierOrder DEF PushEntry, poolVars, outVars
<1>4. ASSUME NEW r \in Resource, PushOne(r), UNCHANGED closeVars PROVE PushOrder'
  BY <1>4, PutQueueOrder DEF PushOne, poolVars, eventVars, outVars
<1>5. ASSUME NEW r \in Resource, PushOutOfScope(r), UNCHANGED closeVars PROVE PushOrder'
  BY <1>5, PutQueueOrder DEF PushOutOfScope, poolVars, eventVars, outVars
<1>6. ASSUME NEW r \in Resource, PushSkips(r), UNCHANGED closeVars PROVE PushOrder'
  BY <1>6 DEF PushSkips, OrderInv, PushOrder, Latest, Awaits, poolVars, outVars,
     eventVars
<1>7. ASSUME NEW w \in Worker, Take(w), UNCHANGED closeVars PROVE PushOrder'
  BY <1>7, TakePushOrder DEF Take
<1>8. ASSUME NEW w \in Worker, NEW f \in Worker, Enter(w, f), UNCHANGED closeVars
      PROVE  PushOrder'
  BY <1>8 DEF Enter, OrderInv, PushOrder, Latest, Awaits, TypeOK, PoolTypeOK, Carrying,
     queueVars, eventVars, outVars, Goto, Exit
<1>9. ASSUME NEW w \in Worker, DropToken(w), UNCHANGED closeVars PROVE PushOrder'
  BY <1>9 DEF DropToken, OrderInv, PushOrder, Latest, Awaits, TypeOK, PoolTypeOK,
     Carrying, queueVars, eventVars, outVars, Goto, Exit
<1>10. ASSUME NEW w \in Worker, SetMessage(w), UNCHANGED closeVars PROVE PushOrder'
  BY <1>10 DEF SetMessage, OrderInv, PushOrder, Latest, Awaits, TypeOK, PoolTypeOK,
     Carrying, queueVars, eventVars, outVars, Goto, Exit
<1>11. ASSUME NEW w \in Worker, Touch(w), UNCHANGED closeVars PROVE PushOrder'
  BY <1>11 DEF Touch, OrderInv, PushOrder, Latest, Awaits, TypeOK, PoolTypeOK, Carrying,
     queueVars, eventVars, outVars, Goto, Exit
<1>12. ASSUME NEW w \in Worker, Mark(w), UNCHANGED closeVars PROVE PushOrder'
  BY <1>12 DEF Mark, OrderInv, PushOrder, Latest, Awaits, TypeOK, PoolTypeOK, Carrying,
     queueVars, eventVars, outVars, Goto, Exit
<1>13. ASSUME NEW w \in Worker, MarkFails(w), UNCHANGED closeVars PROVE PushOrder'
  BY <1>13 DEF MarkFails, OrderInv, PushOrder, Latest, Awaits, TypeOK, PoolTypeOK,
     Carrying, queueVars, eventVars, outVars, Goto, Exit
<1>14. ASSUME NEW w \in Worker, HandlerSkips(w), UNCHANGED closeVars PROVE PushOrder'
  BY <1>14 DEF HandlerSkips, OrderInv, PushOrder, Latest, Awaits, TypeOK, PoolTypeOK,
     Carrying, queueVars, eventVars, outVars, Goto, Exit
<1>15. ASSUME NEW w \in Worker, HandlerWrites(w), UNCHANGED closeVars PROVE PushOrder'
  BY <1>15, WritePushOrder DEF HandlerWrites
<1>16. ASSUME NEW w \in Worker, NEW h \in Worker, HandlerFails(w, h), UNCHANGED closeVars
      PROVE  PushOrder'
  BY <1>16 DEF HandlerFails, OrderInv, PushOrder, Latest, Awaits, TypeOK, PoolTypeOK,
     Carrying, queueVars, eventVars, outVars, Goto, Exit
<1>17. ASSUME NEW w \in Worker, Finish(w), UNCHANGED closeVars PROVE PushOrder'
  BY <1>17 DEF Finish, OrderInv, PushOrder, Latest, Awaits, TypeOK, PoolTypeOK,
     Carrying, queueVars, eventVars, outVars, Goto, Exit
<1>18. ASSUME NEW w \in Worker, Resume(w), UNCHANGED closeVars PROVE PushOrder'
  BY <1>18 DEF Resume, OrderInv, PushOrder, Latest, Awaits, TypeOK, PoolTypeOK,
     Carrying, queueVars, eventVars, outVars, Goto, Exit
<1>19. ASSUME NEW w \in Worker, ResumeAction(w), UNCHANGED closeVars PROVE PushOrder'
  BY <1>19 DEF ResumeAction, OrderInv, PushOrder, Latest, Awaits, TypeOK, PoolTypeOK,
     Carrying, queueVars, eventVars, outVars, Goto, Exit
<1>20. ASSUME NEW w \in Worker, ResumeLeave(w), UNCHANGED closeVars PROVE PushOrder'
  BY <1>20 DEF ResumeLeave, OrderInv, PushOrder, Latest, Awaits, TypeOK, PoolTypeOK,
     Carrying, queueVars, eventVars, outVars, Goto, Exit
<1>21. ASSUME NEW r \in Resource, Suspend(r) PROVE PushOrder'
  BY <1>21 DEF Suspend, OrderInv, PushOrder, Latest, Awaits, TypeOK, EventTypeOK,
     queueVars, poolVars, outVars, AddAtmosphereResource
<1>22. ASSUME NEW r \in Resource, Subscribe(r) PROVE PushOrder'
  BY <1>22 DEF Subscribe, OrderInv, PushOrder, Latest, Awaits, TypeOK, EventTypeOK,
     queueVars, poolVars, outVars, AddAtmosphereResource
<1>23. ASSUME NEW r \in Resource, CheckSuspended(r) PROVE PushOrder'
  BY <1>23 DEF CheckSuspended, OrderInv, PushOrder, Latest, Awaits, TypeOK, EventTypeOK,
     queueVars, poolVars, outVars, AddAtmosphereResource
<1>24. ASSUME NEW r \in Resource, PutAlive(r) PROVE PushOrder'
  BY <1>24 DEF PutAlive, OrderInv, PushOrder, Latest, Awaits, TypeOK, EventTypeOK,
     queueVars, poolVars, outVars, AddAtmosphereResource
<1>25. ASSUME NEW c \in Closer, NEW r \in Resource, NEW kind \in Kind, Guard(c, r, kind)
      PROVE  PushOrder'
  BY <1>25 DEF Guard, OrderInv, PushOrder, Latest, Awaits, chanVars, queueVars,
     poolVars, outVars, eventVars
<1>26. ASSUME NEW c \in Closer, MarkClosed(c) PROVE PushOrder'
  BY <1>26 DEF MarkClosed, OrderInv, PushOrder, Latest, Awaits, queueVars, poolVars,
     outVars, eventVars
<1>27. ASSUME NEW c \in Closer, Flag(c) PROVE PushOrder'
  BY <1>27 DEF Flag, OrderInv, PushOrder, Latest, Awaits, queueVars, poolVars, outVars,
     eventVars
<1>28. ASSUME NEW c \in Closer, InvokeOutOfScope(c) PROVE PushOrder'
  BY <1>28 DEF InvokeOutOfScope, OrderInv, PushOrder, Latest, Awaits, chanVars,
     queueVars, poolVars, outVars, eventVars
<1>29. ASSUME NEW c \in Closer, InvokeSkips(c) PROVE PushOrder'
  BY <1>29 DEF InvokeSkips, OrderInv, PushOrder, Latest, Awaits, chanVars, queueVars,
     poolVars, outVars, eventVars
<1>30. ASSUME NEW c \in Closer, InvokeWrites(c) PROVE PushOrder'
  BY <1>30 DEF InvokeWrites, OrderInv, PushOrder, Latest, Awaits, chanVars, queueVars,
     poolVars, outVars, eventVars
<1>31. ASSUME NEW c \in Closer, Destroy(c) PROVE PushOrder'
  BY <1>31 DEF Destroy, OrderInv, PushOrder, Latest, Awaits, queueVars, poolVars,
     outVars, eventVars
<1>32. ASSUME NEW c \in Closer, RemoveAll(c) PROVE PushOrder'
  BY <1>32 DEF RemoveAll, OrderInv, PushOrder, Latest, Awaits, queueVars, poolVars,
     outVars, eventVars
<1>33. ASSUME NEW c \in Closer, LeaveScope(c) PROVE PushOrder'
  BY <1>33 DEF LeaveScope, OrderInv, PushOrder, Latest, Awaits, queueVars, poolVars,
     outVars, eventVars
<1>34. ASSUME NEW c \in Closer, DestroyAgain(c) PROVE PushOrder'
  BY <1>34 DEF DestroyAgain, OrderInv, PushOrder, Latest, Awaits, queueVars, poolVars,
     outVars, eventVars
<1>35. CASE UNCHANGED vars
  BY <1>35 DEF vars, chanVars, queueVars, poolVars, eventVars, outVars, registryVars,
     OrderInv, PushOrder, Latest, Awaits
<1> QED
  BY <1>1, <1>2, <1>3, <1>4, <1>5, <1>6, <1>7, <1>8, <1>9, <1>10, <1>11, <1>12, <1>13,
     <1>14, <1>15, <1>16, <1>17, <1>18, <1>19, <1>20, <1>21, <1>22, <1>23, <1>24, <1>25,
     <1>26, <1>27, <1>28, <1>29, <1>30, <1>31, <1>32, <1>33, <1>34, <1>35 DEF Next,
     Channel, Notifier, Pool, Request, Closing

---------------------------------------------------------------------------
(* The invariant and its consequences.                                     *)

\* The parts of the invariant besides the types hold initially.
LEMMA InitIInv == Init => IInv
<1> SUFFICES ASSUME Init PROVE IInv
  OBVIOUS
<1>1. LeaderInv /\ WriterOwnsMonitor
  BY DEF Init, ChanInit, LeaderInv, OneLeader, IdleUntilStarted, WriterOwnsMonitor,
         Leading, Inside
<1>2. ScopeInv
  BY DEF Init, ChanInit, ScopeInv, CloserOwnsRequest, CancelledBeforeScope,
         BarrierPassed, InScopeWhileWriting, Past
<1>3. ForgottenInv /\ LateInv
  BY DEF Init, ChanInit, ForgottenInv, RemovedStaysRemoved, OutOfScopeIsForgotten,
         LateInv
<1>4. DOMAIN asyncWriteQueue = {} /\ DOMAIN messages = {} /\ Len(messages) = 0
  BY DEF Init, ChanInit
<1>5. \A r \in Resource : DOMAIN wire[r] = {}
  <2>1. \A r \in Resource : wire[r] = << >>
    BY DEF Init, ChanInit
  <2>2. DOMAIN << >> = {}
    OBVIOUS
  <2> QED
    BY <2>1, <2>2, Zenon
<1>6. Numbered /\ QueueOrder
  BY <1>4 DEF Init, ChanInit, Numbered, QueueOrder
<1>7. PushOrder
  BY <1>4, <1>5 DEF Init, ChanInit, PushOrder, Latest, Carrying
<1>8. HeldOrder /\ MessageIsToken /\ NotYetRegistered
  BY DEF Init, ChanInit, HeldOrder, MessageIsToken, NotYetRegistered, Carrying
<1> QED
  BY InitTypeOK, <1>1, <1>2, <1>3, <1>6, <1>7, <1>8 DEF IInv, OrderInv

\* Every step of the runtime preserves the invariant.
LEMMA StepIInv == IInv /\ [Next]_vars => IInv'
<1> SUFFICES ASSUME IInv, [Next]_vars PROVE IInv'
  OBVIOUS
<1>1. /\ TypeOK /\ LeaderInv /\ WriterOwnsMonitor /\ ScopeInv
      /\ ForgottenInv /\ LateInv /\ OrderInv
  BY DEF IInv
<1>2. TypeOK'
  BY <1>1, StepTypeOK
<1>3. LeaderInv' /\ WriterOwnsMonitor'
  BY <1>1, LeaderStep, MonitorStep
<1>4. ScopeInv'
  BY <1>1, OwnsStep, CancelledStep, BarrierStep, InScopeStep DEF ScopeInv
<1>5. ForgottenInv' /\ LateInv'
  BY <1>1, RemovedStep, ForgottenStep, LateStep DEF ForgottenInv
<1>6. OrderInv'
  BY <1>1, NumberedStep, PushOrderStep, QueueOrderStep, HeldOrderStep,
     MessageStep, RegisteredStep DEF OrderInv
<1> QED
  BY <1>2, <1>3, <1>4, <1>5, <1>6 DEF IInv

LEMMA Invariance == Spec => []IInv
BY InitIInv, StepIInv, PTL DEF Spec

\* The channel always has exactly one leader once it is started: messages can
\* neither be overtaken by a second one nor get stuck for the lack of one.
THEOREM LeaderTheorem == Spec => []OneLeader
<1>1. IInv => OneLeader
  BY DEF IInv, LeaderInv
<1> QED
  BY <1>1, Invariance, PTL

\* Broadcasts to one response exclude each other.
THEOREM MonitorTheorem == Spec => []WriterOwnsMonitor
<1>1. IInv => WriterOwnsMonitor
  BY DEF IInv
<1> QED
  BY <1>1, Invariance, PTL

\* A response stays usable for the whole of a broadcast, although the thread
\* that takes it out of scope holds no lock.
THEOREM ScopeTheorem == Spec => []InScopeWhileWriting
<1>1. IInv => InScopeWhileWriting
  BY DEF IInv, ScopeInv
<1> QED
  BY <1>1, Invariance, PTL

\* A response out of scope is registered nowhere.
THEOREM ForgottenTheorem == Spec => []OutOfScopeIsForgotten
<1>1. IInv => OutOfScopeIsForgotten
  BY DEF IInv, ForgottenInv
<1> QED
  BY <1>1, Invariance, PTL

\* At most one broadcast writes to a response after it was cancelled.
THEOREM LateTheorem == Spec => []OneLateWrite
<1>1. IInv => OneLateWrite
  <2> SUFFICES ASSUME IInv, NEW r \in Resource PROVE late[r] <= 1
    BY DEF OneLateWrite
  <2>1. late[r] \in {0, 1}
    BY DEF IInv, LateInv
  <2> QED
    BY <2>1
<1> QED
  BY <1>1, Invariance, PTL

\* The channel and its request threads implement the ordered feed.
THEOREM DeliveryTheorem == Spec => OrderedDelivery
<1>1. Init => Feed!Init
  BY DEF Init, ChanInit, Feed!Init
<1>2. IInv /\ [Next]_vars => [Feed!Next]_<<broadcasts, wire>>
  <2> SUFFICES ASSUME IInv, [Next]_vars
               PROVE  Feed!Next \/ UNCHANGED <<broadcasts, wire>>
    OBVIOUS
  <2>1. ASSUME NEW to \in Target \cup {All}, Broadcast(to), UNCHANGED closeVars
        PROVE  Feed!Next \/ UNCHANGED <<broadcasts, wire>>
    BY <2>1 DEF Broadcast, outVars, Feed!Next, Feed!Publish
  <2>2. ASSUME PushToNobody, UNCHANGED closeVars
        PROVE  Feed!Next \/ UNCHANGED <<broadcasts, wire>>
    BY <2>2 DEF PushToNobody, NotifierTakes, queueVars, outVars
  <2>3. ASSUME PushEntry, UNCHANGED closeVars
        PROVE  Feed!Next \/ UNCHANGED <<broadcasts, wire>>
    BY <2>3 DEF PushEntry, NotifierTakes, queueVars, outVars
  <2>4. ASSUME NEW r \in Resource, PushOne(r), UNCHANGED closeVars
        PROVE  Feed!Next \/ UNCHANGED <<broadcasts, wire>>
    BY <2>4 DEF PushOne, PutToken, queueVars, outVars
  <2>5. ASSUME NEW r \in Resource, PushOutOfScope(r), UNCHANGED closeVars
        PROVE  Feed!Next \/ UNCHANGED <<broadcasts, wire>>
    BY <2>5 DEF PushOutOfScope, PutToken, queueVars, outVars
  <2>6. ASSUME NEW r \in Resource, PushSkips(r), UNCHANGED closeVars
        PROVE  Feed!Next \/ UNCHANGED <<broadcasts, wire>>
    BY <2>6 DEF PushSkips, queueVars, outVars
  <2>7. ASSUME NEW w \in Worker, Take(w), UNCHANGED closeVars
        PROVE  Feed!Next \/ UNCHANGED <<broadcasts, wire>>
    BY <2>7 DEF Take, queueVars, outVars
  <2>8. ASSUME NEW w \in Worker, NEW f \in Worker, Enter(w, f), UNCHANGED closeVars
        PROVE  Feed!Next \/ UNCHANGED <<broadcasts, wire>>
    BY <2>8 DEF Enter, queueVars, outVars
  <2>9. ASSUME NEW w \in Worker, DropToken(w), UNCHANGED closeVars
        PROVE  Feed!Next \/ UNCHANGED <<broadcasts, wire>>
    BY <2>9 DEF DropToken, queueVars, outVars
  <2>10. ASSUME NEW w \in Worker, SetMessage(w), UNCHANGED closeVars
        PROVE  Feed!Next \/ UNCHANGED <<broadcasts, wire>>
    BY <2>10 DEF SetMessage, queueVars, outVars
  <2>11. ASSUME NEW w \in Worker, Touch(w), UNCHANGED closeVars
        PROVE  Feed!Next \/ UNCHANGED <<broadcasts, wire>>
    BY <2>11 DEF Touch, queueVars, outVars
  <2>12. ASSUME NEW w \in Worker, Mark(w), UNCHANGED closeVars
        PROVE  Feed!Next \/ UNCHANGED <<broadcasts, wire>>
    BY <2>12 DEF Mark, queueVars, outVars
  <2>13. ASSUME NEW w \in Worker, MarkFails(w), UNCHANGED closeVars
        PROVE  Feed!Next \/ UNCHANGED <<broadcasts, wire>>
    BY <2>13 DEF MarkFails, queueVars, outVars
  <2>14. ASSUME NEW w \in Worker, HandlerSkips(w), UNCHANGED closeVars
        PROVE  Feed!Next \/ UNCHANGED <<broadcasts, wire>>
    BY <2>14 DEF HandlerSkips, queueVars, outVars
  <2>15. ASSUME NEW w \in Worker, HandlerWrites(w), UNCHANGED closeVars
        PROVE  Feed!Next \/ UNCHANGED <<broadcasts, wire>>
    <3>1. CASE isCancelled[tokenResource[w]]
      BY <2>15, <3>1 DEF HandlerWrites, queueVars
    <3>2. CASE ~isCancelled[tokenResource[w]]
      <4> DEFINE r == tokenResource[w]
                 m == tokenMsg[w]
      <4>1. /\ pc[w] = "write" /\ r \in Resource /\ message[r] = m
            /\ wire' = [wire EXCEPT ![r] = Append(@, message[r])]
            /\ broadcasts' = broadcasts
        BY <2>15, <3>2 DEF HandlerWrites, queueVars, IInv, TypeOK, PoolTypeOK, OrderInv, MessageIsToken
      <4>2. m \in Nat /\ m >= 1 /\ \A k \in DOMAIN wire[r] : wire[r][k] < m
        BY <4>1, ChannelAssumption DEF IInv, TypeOK, PoolTypeOK, OrderInv, HeldOrder, Carrying
      <4>3. m < pushed + 1
        BY <4>1 DEF IInv, OrderInv, PushOrder, Latest, Carrying
      <4>4. broadcasts = pushed + Len(messages) /\ Len(messages) \in Nat /\ pushed \in Nat
        BY ChannelAssumption DEF IInv, TypeOK, QueueTypeOK, OrderInv, Numbered
      <4>5. m \in 1 .. broadcasts
        BY <4>2, <4>3, <4>4
      <4> HIDE DEF r, m
      <4>6. Feed!Deliver(r, m)
        BY <4>1, <4>2, <4>5 DEF Feed!Deliver
      <4> QED
        BY <4>1, <4>5, <4>6 DEF Feed!Next
    <3> QED
      BY <3>1, <3>2
  <2>16. ASSUME NEW w \in Worker, NEW h \in Worker, HandlerFails(w, h), UNCHANGED closeVars
        PROVE  Feed!Next \/ UNCHANGED <<broadcasts, wire>>
    BY <2>16 DEF HandlerFails, queueVars, outVars
  <2>17. ASSUME NEW w \in Worker, Finish(w), UNCHANGED closeVars
        PROVE  Feed!Next \/ UNCHANGED <<broadcasts, wire>>
    BY <2>17 DEF Finish, queueVars, outVars
  <2>18. ASSUME NEW w \in Worker, Resume(w), UNCHANGED closeVars
        PROVE  Feed!Next \/ UNCHANGED <<broadcasts, wire>>
    BY <2>18 DEF Resume, queueVars, outVars
  <2>19. ASSUME NEW w \in Worker, ResumeAction(w), UNCHANGED closeVars
        PROVE  Feed!Next \/ UNCHANGED <<broadcasts, wire>>
    BY <2>19 DEF ResumeAction, queueVars, outVars
  <2>20. ASSUME NEW w \in Worker, ResumeLeave(w), UNCHANGED closeVars
        PROVE  Feed!Next \/ UNCHANGED <<broadcasts, wire>>
    BY <2>20 DEF ResumeLeave, queueVars, outVars
  <2>21. ASSUME NEW r \in Resource, Suspend(r)
        PROVE  Feed!Next \/ UNCHANGED <<broadcasts, wire>>
    BY <2>21 DEF Suspend, queueVars, outVars
  <2>22. ASSUME NEW r \in Resource, Subscribe(r)
        PROVE  Feed!Next \/ UNCHANGED <<broadcasts, wire>>
    BY <2>22 DEF Subscribe, queueVars, outVars
  <2>23. ASSUME NEW r \in Resource, CheckSuspended(r)
        PROVE  Feed!Next \/ UNCHANGED <<broadcasts, wire>>
    BY <2>23 DEF CheckSuspended, queueVars, outVars
  <2>24. ASSUME NEW r \in Resource, PutAlive(r)
        PROVE  Feed!Next \/ UNCHANGED <<broadcasts, wire>>
    BY <2>24 DEF PutAlive, queueVars, outVars
  <2>25. ASSUME NEW c \in Closer, NEW r \in Resource, NEW kind \in Kind, Guard(c, r, kind)
        PROVE  Feed!Next \/ UNCHANGED <<broadcasts, wire>>
    BY <2>25 DEF Guard, chanVars, queueVars, outVars
  <2>26. ASSUME NEW c \in Closer, MarkClosed(c)
        PROVE  Feed!Next \/ UNCHANGED <<broadcasts, wire>>
    BY <2>26 DEF MarkClosed, queueVars, outVars
  <2>27. ASSUME NEW c \in Closer, Flag(c)
        PROVE  Feed!Next \/ UNCHANGED <<broadcasts, wire>>
    BY <2>27 DEF Flag, queueVars, outVars
  <2>28. ASSUME NEW c \in Closer, InvokeOutOfScope(c)
        PROVE  Feed!Next \/ UNCHANGED <<broadcasts, wire>>
    BY <2>28 DEF InvokeOutOfScope, chanVars, queueVars, outVars
  <2>29. ASSUME NEW c \in Closer, InvokeSkips(c)
        PROVE  Feed!Next \/ UNCHANGED <<broadcasts, wire>>
    BY <2>29 DEF InvokeSkips, chanVars, queueVars, outVars
  <2>30. ASSUME NEW c \in Closer, InvokeWrites(c)
        PROVE  Feed!Next \/ UNCHANGED <<broadcasts, wire>>
    BY <2>30 DEF InvokeWrites, chanVars, queueVars, outVars
  <2>31. ASSUME NEW c \in Closer, Destroy(c)
        PROVE  Feed!Next \/ UNCHANGED <<broadcasts, wire>>
    BY <2>31 DEF Destroy, queueVars, outVars
  <2>32. ASSUME NEW c \in Closer, RemoveAll(c)
        PROVE  Feed!Next \/ UNCHANGED <<broadcasts, wire>>
    BY <2>32 DEF RemoveAll, queueVars, outVars
  <2>33. ASSUME NEW c \in Closer, LeaveScope(c)
        PROVE  Feed!Next \/ UNCHANGED <<broadcasts, wire>>
    BY <2>33 DEF LeaveScope, queueVars, outVars
  <2>34. ASSUME NEW c \in Closer, DestroyAgain(c)
        PROVE  Feed!Next \/ UNCHANGED <<broadcasts, wire>>
    BY <2>34 DEF DestroyAgain, queueVars, outVars
  <2>35. CASE UNCHANGED vars
    BY <2>35 DEF vars, chanVars, queueVars, outVars
  <2> QED
    BY <2>1, <2>2, <2>3, <2>4, <2>5, <2>6, <2>7, <2>8, <2>9, <2>10, <2>11, <2>12, <2>13,
       <2>14, <2>15, <2>16, <2>17, <2>18, <2>19, <2>20, <2>21, <2>22, <2>23, <2>24,
       <2>25, <2>26, <2>27, <2>28, <2>29, <2>30, <2>31, <2>32, <2>33, <2>34, <2>35 DEF
       Next, Channel, Notifier, Pool, Request, Closing
<1> QED
  BY <1>1, <1>2, Invariance, PTL DEF Spec, OrderedDelivery, Feed!Spec
===========================================================================
