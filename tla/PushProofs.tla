---------------------------- MODULE PushProofs ----------------------------
(***************************************************************************)
(* The push runtime, for every set of responses, threads and subsets and   *)
(* every number of broadcasts.  First its variables keep their types, with *)
(* facts about queues that the other proofs use.  Then the safety of       *)
(* writing and closing: each step of the runtime preserves the parts of    *)
(* the invariant about the lead, the monitors, the scope, the registration *)
(* and the late writes of the responses.                                   *)
(***************************************************************************)
EXTENDS PushInvariant, TLAPS

---------------------------------------------------------------------------
(* Facts about the queues' operators, in the form the proofs use them.     *)

\* What Append leaves in place and what it adds.
LEMMA AppendFacts ==
  ASSUME NEW S, NEW s \in Seq(S), NEW x \in S
  PROVE  /\ Append(s, x) \in Seq(S)
         /\ Len(Append(s, x)) = Len(s) + 1
         /\ DOMAIN Append(s, x) = 1 .. Len(s) + 1
         /\ \A i \in 1 .. Len(s) : Append(s, x)[i] = s[i]
         /\ Append(s, x)[Len(s) + 1] = x
  OBVIOUS

\* What taking the head of a queue leaves.
LEMMA TailFacts ==
  ASSUME NEW S, NEW s \in Seq(S), s # << >>
  PROVE  /\ Head(s) = s[1] /\ Head(s) \in S
         /\ Tail(s) \in Seq(S)
         /\ Len(s) \in Nat \ {0}
         /\ Len(Tail(s)) = Len(s) - 1
         /\ DOMAIN s = 1 .. Len(s)
         /\ DOMAIN Tail(s) = 1 .. Len(s) - 1
         /\ \A i \in 1 .. Len(s) - 1 : Tail(s)[i] = s[i + 1]
  OBVIOUS

\* The oldest entry waiting for the notifier, and the rest.
LEMMA HeadEntry ==
  ASSUME QueueTypeOK, messages # << >>
  PROVE  /\ Head(messages).id \in Message
         /\ Head(messages).to \in Target \cup {All}
         /\ Tail(messages) \in Seq(Entry)
<1>1. messages \in Seq(Entry)
  BY DEF QueueTypeOK
<1>2. Head(messages) \in Entry /\ Tail(messages) \in Seq(Entry)
  BY <1>1, TailFacts
<1> QED
  BY <1>2 DEF Entry

\* The oldest token waiting for the leader, and the rest.
LEMMA HeadToken ==
  ASSUME QueueTypeOK, asyncWriteQueue # << >>
  PROVE  /\ Head(asyncWriteQueue).r \in Resource
         /\ Head(asyncWriteQueue).id \in 0 .. MaxBroadcast
         /\ Tail(asyncWriteQueue) \in Seq(Token)
<1>1. asyncWriteQueue \in Seq(Token)
  BY DEF QueueTypeOK
<1>2. Head(asyncWriteQueue) \in Token /\ Tail(asyncWriteQueue) \in Seq(Token)
  BY <1>1, TailFacts
<1> QED
  BY <1>2 DEF Token

\* Any token in the queue.
LEMMA QueuedToken ==
  ASSUME QueueTypeOK
  PROVE  \A i \in DOMAIN asyncWriteQueue :
           /\ asyncWriteQueue[i].r \in Resource
           /\ asyncWriteQueue[i].id \in 0 .. MaxBroadcast
<1>1. asyncWriteQueue \in Seq(Token)
  BY DEF QueueTypeOK
<1>2. \A i \in DOMAIN asyncWriteQueue : asyncWriteQueue[i] \in Token
  BY <1>1
<1> QED
  BY <1>2 DEF Token

---------------------------------------------------------------------------
(* Types.                                                                  *)

\* The variables of the runtime have their types in the initial states.
LEMMA InitTypeOK == Init => TypeOK
<1> SUFFICES ASSUME Init PROVE TypeOK
  OBVIOUS
<1>1. << >> \in Seq(Entry) /\ << >> \in Seq(Token) /\ << >> \in Seq(0 .. MaxBroadcast)
  OBVIOUS
<1>2. QueueTypeOK
  <2>1. messages \in Seq(Entry) /\ asyncWriteQueue \in Seq(Token)
    BY <1>1 DEF Init, ChanInit
  <2>2. broadcasts \in 0 .. MaxBroadcast /\ pushed \in 0 .. MaxBroadcast
    BY ChannelAssumption DEF Init, ChanInit
  <2>3. iterator \in SUBSET Resource /\ toAll \in BOOLEAN
    BY DEF Init, ChanInit
  <2> QED
    BY <2>1, <2>2, <2>3 DEF QueueTypeOK
<1>3. PoolTypeOK
  <2>1. /\ pc \in [Worker -> PC]
        /\ \A w \in Worker : pc[w] \notin {"idle", "take"} => tokenResource[w] \in Resource
    BY DEF Init, ChanInit, PC
  <2>2. tokenMsg \in [Worker -> 0 .. MaxBroadcast]
    BY ChannelAssumption DEF Init, ChanInit
  <2>3. /\ started \in BOOLEAN
        /\ tokenResource \in [Worker -> Resource \cup {Nil}]
        /\ monitor \in [Resource -> Worker \cup {Nil}]
    BY DEF Init, ChanInit
  <2> QED
    BY <2>1, <2>2, <2>3 DEF PoolTypeOK
<1>4. EventTypeOK
  BY ChannelAssumption DEF Init, ChanInit, EventTypeOK
<1>5. OutTypeOK
  BY <1>1 DEF Init, ChanInit, OutTypeOK
<1>6. CloserTypeOK
  BY DEF Init, CloserTypeOK, CloserPC, Kind
<1> QED
  BY <1>2, <1>3, <1>4, <1>5, <1>6 DEF TypeOK

\* Every step keeps the types of the two queues and of the notifier.
LEMMA QueueStep ==
  ASSUME TypeOK, [Next]_vars
  PROVE  QueueTypeOK'
<1>1. ASSUME NEW to \in Target \cup {All}, Broadcast(to), UNCHANGED closeVars
      PROVE  QueueTypeOK'
  BY <1>1, ChannelAssumption DEF Broadcast, TypeOK, QueueTypeOK, Entry, Message
<1>2. ASSUME PushToNobody, UNCHANGED closeVars PROVE QueueTypeOK'
  <2>1. messages # << >> /\ pushed' = Head(messages).id /\ messages' = Tail(messages)
    BY <1>2 DEF PushToNobody, NotifierTakes
  <2>2. pushed' \in 0 .. MaxBroadcast /\ messages' \in Seq(Entry)
    BY <2>1, HeadEntry DEF TypeOK, Message
  <2> QED
    BY <1>2, <2>2 DEF PushToNobody, TypeOK, QueueTypeOK
<1>3. ASSUME PushEntry, UNCHANGED closeVars PROVE QueueTypeOK'
  BY <1>3, ChannelAssumption, HeadEntry DEF PushEntry, TypeOK, QueueTypeOK, OutTypeOK,
     Message, NotifierTakes
<1>4. ASSUME NEW r \in Resource, PushOne(r), UNCHANGED closeVars PROVE QueueTypeOK'
  BY <1>4 DEF PushOne, TypeOK, QueueTypeOK, Token, PutToken
<1>5. ASSUME NEW r \in Resource, PushOutOfScope(r), UNCHANGED closeVars
      PROVE  QueueTypeOK'
  BY <1>5 DEF PushOutOfScope, TypeOK, QueueTypeOK, Token, PutToken
<1>6. ASSUME NEW r \in Resource, PushSkips(r), UNCHANGED closeVars PROVE QueueTypeOK'
  BY <1>6 DEF PushSkips, TypeOK, QueueTypeOK
<1>7. ASSUME NEW w \in Worker, Take(w), UNCHANGED closeVars PROVE QueueTypeOK'
  BY <1>7 DEF Take, TypeOK, QueueTypeOK, Token
<1>8. ASSUME NEW w \in Worker, NEW f \in Worker, Enter(w, f), UNCHANGED closeVars
      PROVE  QueueTypeOK'
  BY <1>8 DEF Enter, TypeOK, QueueTypeOK, queueVars
<1>9. ASSUME NEW w \in Worker, DropToken(w), UNCHANGED closeVars PROVE QueueTypeOK'
  BY <1>9 DEF DropToken, TypeOK, QueueTypeOK, queueVars
<1>10. ASSUME NEW w \in Worker, SetMessage(w), UNCHANGED closeVars PROVE QueueTypeOK'
  BY <1>10 DEF SetMessage, TypeOK, QueueTypeOK, queueVars
<1>11. ASSUME NEW w \in Worker, Touch(w), UNCHANGED closeVars PROVE QueueTypeOK'
  BY <1>11 DEF Touch, TypeOK, QueueTypeOK, queueVars
<1>12. ASSUME NEW w \in Worker, Mark(w), UNCHANGED closeVars PROVE QueueTypeOK'
  BY <1>12 DEF Mark, TypeOK, QueueTypeOK, queueVars
<1>13. ASSUME NEW w \in Worker, MarkFails(w), UNCHANGED closeVars PROVE QueueTypeOK'
  BY <1>13 DEF MarkFails, TypeOK, QueueTypeOK, queueVars
<1>14. ASSUME NEW w \in Worker, HandlerSkips(w), UNCHANGED closeVars PROVE QueueTypeOK'
  BY <1>14 DEF HandlerSkips, TypeOK, QueueTypeOK, queueVars
<1>15. ASSUME NEW w \in Worker, HandlerWrites(w), UNCHANGED closeVars PROVE QueueTypeOK'
  BY <1>15 DEF HandlerWrites, TypeOK, QueueTypeOK, queueVars
<1>16. ASSUME NEW w \in Worker, NEW h \in Worker, HandlerFails(w, h), UNCHANGED closeVars
      PROVE  QueueTypeOK'
  BY <1>16 DEF HandlerFails, TypeOK, QueueTypeOK, queueVars
<1>17. ASSUME NEW w \in Worker, Finish(w), UNCHANGED closeVars PROVE QueueTypeOK'
  BY <1>17 DEF Finish, TypeOK, QueueTypeOK, queueVars
<1>18. ASSUME NEW w \in Worker, Resume(w), UNCHANGED closeVars PROVE QueueTypeOK'
  BY <1>18 DEF Resume, TypeOK, QueueTypeOK, queueVars
<1>19. ASSUME NEW w \in Worker, ResumeAction(w), UNCHANGED closeVars PROVE QueueTypeOK'
  BY <1>19 DEF ResumeAction, TypeOK, QueueTypeOK, queueVars
<1>20. ASSUME NEW w \in Worker, ResumeLeave(w), UNCHANGED closeVars PROVE QueueTypeOK'
  BY <1>20 DEF ResumeLeave, TypeOK, QueueTypeOK, queueVars
<1>21. ASSUME NEW r \in Resource, Suspend(r) PROVE QueueTypeOK'
  BY <1>21 DEF Suspend, TypeOK, QueueTypeOK, queueVars
<1>22. ASSUME NEW r \in Resource, Subscribe(r) PROVE QueueTypeOK'
  BY <1>22 DEF Subscribe, TypeOK, QueueTypeOK, AddAtmosphereResource
<1>23. ASSUME NEW r \in Resource, CheckSuspended(r) PROVE QueueTypeOK'
  BY <1>23 DEF CheckSuspended, TypeOK, QueueTypeOK, queueVars
<1>24. ASSUME NEW r \in Resource, PutAlive(r) PROVE QueueTypeOK'
  BY <1>24 DEF PutAlive, TypeOK, QueueTypeOK, queueVars
<1>25. ASSUME NEW c \in Closer, NEW r \in Resource, NEW kind \in Kind, Guard(c, r, kind)
      PROVE  QueueTypeOK'
  BY <1>25 DEF Guard, chanVars, TypeOK, QueueTypeOK, queueVars
<1>26. ASSUME NEW c \in Closer, MarkClosed(c) PROVE QueueTypeOK'
  BY <1>26 DEF MarkClosed, TypeOK, QueueTypeOK, queueVars
<1>27. ASSUME NEW c \in Closer, Flag(c) PROVE QueueTypeOK'
  BY <1>27 DEF Flag, TypeOK, QueueTypeOK, queueVars
<1>28. ASSUME NEW c \in Closer, InvokeOutOfScope(c) PROVE QueueTypeOK'
  BY <1>28 DEF InvokeOutOfScope, chanVars, TypeOK, QueueTypeOK, queueVars
<1>29. ASSUME NEW c \in Closer, InvokeSkips(c) PROVE QueueTypeOK'
  BY <1>29 DEF InvokeSkips, chanVars, TypeOK, QueueTypeOK, queueVars
<1>30. ASSUME NEW c \in Closer, InvokeWrites(c) PROVE QueueTypeOK'
  BY <1>30 DEF InvokeWrites, chanVars, TypeOK, QueueTypeOK, queueVars
<1>31. ASSUME NEW c \in Closer, Destroy(c) PROVE QueueTypeOK'
  BY <1>31 DEF Destroy, TypeOK, QueueTypeOK, queueVars
<1>32. ASSUME NEW c \in Closer, RemoveAll(c) PROVE QueueTypeOK'
  BY <1>32 DEF RemoveAll, TypeOK, QueueTypeOK, queueVars
<1>33. ASSUME NEW c \in Closer, LeaveScope(c) PROVE QueueTypeOK'
  BY <1>33 DEF LeaveScope, TypeOK, QueueTypeOK, queueVars
<1>34. ASSUME NEW c \in Closer, DestroyAgain(c) PROVE QueueTypeOK'
  BY <1>34 DEF DestroyAgain, TypeOK, QueueTypeOK, queueVars
<1>35. CASE UNCHANGED vars
  BY <1>35 DEF vars, chanVars, queueVars, TypeOK, QueueTypeOK
<1> QED
  BY <1>1, <1>2, <1>3, <1>4, <1>5, <1>6, <1>7, <1>8, <1>9, <1>10, <1>11, <1>12, <1>13,
     <1>14, <1>15, <1>16, <1>17, <1>18, <1>19, <1>20, <1>21, <1>22, <1>23, <1>24, <1>25,
     <1>26, <1>27, <1>28, <1>29, <1>30, <1>31, <1>32, <1>33, <1>34, <1>35 DEF Next,
     Channel, Notifier, Pool, Request, Closing

\* Every step keeps the types of the pool's threads and of the monitors.
LEMMA PoolStep ==
  ASSUME TypeOK, [Next]_vars
  PROVE  PoolTypeOK'
<1>1. ASSUME NEW to \in Target \cup {All}, Broadcast(to), UNCHANGED closeVars
      PROVE  PoolTypeOK'
  BY <1>1, ChannelAssumption DEF Broadcast, TypeOK, PoolTypeOK, PC, Leading, Inside,
     Resuming, Goto, Exit, poolVars
<1>2. ASSUME PushToNobody, UNCHANGED closeVars PROVE PoolTypeOK'
  BY <1>2 DEF PushToNobody, TypeOK, PoolTypeOK, poolVars
<1>3. ASSUME PushEntry, UNCHANGED closeVars PROVE PoolTypeOK'
  BY <1>3 DEF PushEntry, TypeOK, PoolTypeOK, poolVars
<1>4. ASSUME NEW r \in Resource, PushOne(r), UNCHANGED closeVars PROVE PoolTypeOK'
  BY <1>4 DEF PushOne, TypeOK, PoolTypeOK, poolVars
<1>5. ASSUME NEW r \in Resource, PushOutOfScope(r), UNCHANGED closeVars
      PROVE  PoolTypeOK'
  BY <1>5 DEF PushOutOfScope, TypeOK, PoolTypeOK, poolVars
<1>6. ASSUME NEW r \in Resource, PushSkips(r), UNCHANGED closeVars PROVE PoolTypeOK'
  BY <1>6 DEF PushSkips, TypeOK, PoolTypeOK, poolVars
<1>7. ASSUME NEW w \in Worker, Take(w), UNCHANGED closeVars PROVE PoolTypeOK'
  BY <1>7, HeadToken DEF Take, TypeOK, PoolTypeOK, PC, Leading, Inside, Resuming
<1>8. ASSUME NEW w \in Worker, NEW f \in Worker, Enter(w, f), UNCHANGED closeVars
      PROVE  PoolTypeOK'
  BY <1>8, ChannelAssumption DEF Enter, TypeOK, PoolTypeOK, PC, Leading, Inside,
     Resuming, Goto, Exit, poolVars
<1>9. ASSUME NEW w \in Worker, DropToken(w), UNCHANGED closeVars PROVE PoolTypeOK'
  BY <1>9, ChannelAssumption DEF DropToken, TypeOK, PoolTypeOK, PC, Leading, Inside,
     Resuming, Goto, Exit, poolVars
<1>10. ASSUME NEW w \in Worker, SetMessage(w), UNCHANGED closeVars PROVE PoolTypeOK'
  BY <1>10, ChannelAssumption DEF SetMessage, TypeOK, PoolTypeOK, PC, Leading, Inside,
     Resuming, Goto, Exit, poolVars
<1>11. ASSUME NEW w \in Worker, Touch(w), UNCHANGED closeVars PROVE PoolTypeOK'
  BY <1>11, ChannelAssumption DEF Touch, TypeOK, PoolTypeOK, PC, Leading, Inside,
     Resuming, Goto, Exit, poolVars
<1>12. ASSUME NEW w \in Worker, Mark(w), UNCHANGED closeVars PROVE PoolTypeOK'
  BY <1>12, ChannelAssumption DEF Mark, TypeOK, PoolTypeOK, PC, Leading, Inside,
     Resuming, Goto, Exit, poolVars
<1>13. ASSUME NEW w \in Worker, MarkFails(w), UNCHANGED closeVars PROVE PoolTypeOK'
  BY <1>13, ChannelAssumption DEF MarkFails, TypeOK, PoolTypeOK, PC, Leading, Inside,
     Resuming, Goto, Exit, poolVars
<1>14. ASSUME NEW w \in Worker, HandlerSkips(w), UNCHANGED closeVars PROVE PoolTypeOK'
  BY <1>14, ChannelAssumption DEF HandlerSkips, TypeOK, PoolTypeOK, PC, Leading, Inside,
     Resuming, Goto, Exit, poolVars
<1>15. ASSUME NEW w \in Worker, HandlerWrites(w), UNCHANGED closeVars PROVE PoolTypeOK'
  BY <1>15, ChannelAssumption DEF HandlerWrites, TypeOK, PoolTypeOK, PC, Leading,
     Inside, Resuming, Goto, Exit, poolVars
<1>16. ASSUME NEW w \in Worker, NEW h \in Worker, HandlerFails(w, h), UNCHANGED closeVars
      PROVE  PoolTypeOK'
  BY <1>16, ChannelAssumption DEF HandlerFails, TypeOK, PoolTypeOK, PC, Leading, Inside,
     Resuming, Goto, Exit, poolVars
<1>17. ASSUME NEW w \in Worker, Finish(w), UNCHANGED closeVars PROVE PoolTypeOK'
  BY <1>17, ChannelAssumption DEF Finish, TypeOK, PoolTypeOK, PC, Leading, Inside,
     Resuming, Goto, Exit, poolVars
<1>18. ASSUME NEW w \in Worker, Resume(w), UNCHANGED closeVars PROVE PoolTypeOK'
  BY <1>18, ChannelAssumption DEF Resume, TypeOK, PoolTypeOK, PC, Leading, Inside,
     Resuming, Goto, Exit, poolVars
<1>19. ASSUME NEW w \in Worker, ResumeAction(w), UNCHANGED closeVars PROVE PoolTypeOK'
  BY <1>19, ChannelAssumption DEF ResumeAction, TypeOK, PoolTypeOK, PC, Leading, Inside,
     Resuming, Goto, Exit, poolVars
<1>20. ASSUME NEW w \in Worker, ResumeLeave(w), UNCHANGED closeVars PROVE PoolTypeOK'
  BY <1>20, ChannelAssumption DEF ResumeLeave, TypeOK, PoolTypeOK, PC, Leading, Inside,
     Resuming, Goto, Exit, poolVars
<1>21. ASSUME NEW r \in Resource, Suspend(r) PROVE PoolTypeOK'
  BY <1>21 DEF Suspend, TypeOK, PoolTypeOK, poolVars
<1>22. ASSUME NEW r \in Resource, Subscribe(r) PROVE PoolTypeOK'
  BY <1>22 DEF Subscribe, TypeOK, PoolTypeOK, poolVars
<1>23. ASSUME NEW r \in Resource, CheckSuspended(r) PROVE PoolTypeOK'
  BY <1>23 DEF CheckSuspended, TypeOK, PoolTypeOK, poolVars
<1>24. ASSUME NEW r \in Resource, PutAlive(r) PROVE PoolTypeOK'
  BY <1>24 DEF PutAlive, TypeOK, PoolTypeOK, poolVars
<1>25. ASSUME NEW c \in Closer, NEW r \in Resource, NEW kind \in Kind, Guard(c, r, kind)
      PROVE  PoolTypeOK'
  BY <1>25 DEF Guard, chanVars, TypeOK, PoolTypeOK, poolVars
<1>26. ASSUME NEW c \in Closer, MarkClosed(c) PROVE PoolTypeOK'
  BY <1>26 DEF MarkClosed, TypeOK, PoolTypeOK, poolVars
<1>27. ASSUME NEW c \in Closer, Flag(c) PROVE PoolTypeOK'
  BY <1>27 DEF Flag, TypeOK, PoolTypeOK, poolVars
<1>28. ASSUME NEW c \in Closer, InvokeOutOfScope(c) PROVE PoolTypeOK'
  BY <1>28 DEF InvokeOutOfScope, chanVars, TypeOK, PoolTypeOK, poolVars
<1>29. ASSUME NEW c \in Closer, InvokeSkips(c) PROVE PoolTypeOK'
  BY <1>29 DEF InvokeSkips, chanVars, TypeOK, PoolTypeOK, poolVars
<1>30. ASSUME NEW c \in Closer, InvokeWrites(c) PROVE PoolTypeOK'
  BY <1>30 DEF InvokeWrites, chanVars, TypeOK, PoolTypeOK, poolVars
<1>31. ASSUME NEW c \in Closer, Destroy(c) PROVE PoolTypeOK'
  BY <1>31 DEF Destroy, TypeOK, PoolTypeOK, poolVars
<1>32. ASSUME NEW c \in Closer, RemoveAll(c) PROVE PoolTypeOK'
  BY <1>32 DEF RemoveAll, TypeOK, PoolTypeOK, poolVars
<1>33. ASSUME NEW c \in Closer, LeaveScope(c) PROVE PoolTypeOK'
  BY <1>33 DEF LeaveScope, TypeOK, PoolTypeOK, poolVars
<1>34. ASSUME NEW c \in Closer, DestroyAgain(c) PROVE PoolTypeOK'
  BY <1>34 DEF DestroyAgain, TypeOK, PoolTypeOK, poolVars
<1>35. CASE UNCHANGED vars
  BY <1>35 DEF vars, chanVars, poolVars, TypeOK, PoolTypeOK
<1> QED
  BY <1>1, <1>2, <1>3, <1>4, <1>5, <1>6, <1>7, <1>8, <1>9, <1>10, <1>11, <1>12, <1>13,
     <1>14, <1>15, <1>16, <1>17, <1>18, <1>19, <1>20, <1>21, <1>22, <1>23, <1>24, <1>25,
     <1>26, <1>27, <1>28, <1>29, <1>30, <1>31, <1>32, <1>33, <1>34, <1>35 DEF Next,
     Channel, Notifier, Pool, Request, Closing

\* Every step keeps the types of the responses' actions and events.
LEMMA EventStep ==
  ASSUME TypeOK, [Next]_vars
  PROVE  EventTypeOK'
<1>1. ASSUME NEW to \in Target \cup {All}, Broadcast(to), UNCHANGED closeVars
      PROVE  EventTypeOK'
  BY <1>1 DEF Broadcast, TypeOK, EventTypeOK, eventVars
<1>2. ASSUME PushToNobody, UNCHANGED closeVars PROVE EventTypeOK'
  BY <1>2 DEF PushToNobody, TypeOK, EventTypeOK, eventVars
<1>3. ASSUME PushEntry, UNCHANGED closeVars PROVE EventTypeOK'
  BY <1>3 DEF PushEntry, TypeOK, EventTypeOK, eventVars
<1>4. ASSUME NEW r \in Resource, PushOne(r), UNCHANGED closeVars PROVE EventTypeOK'
  BY <1>4 DEF PushOne, TypeOK, EventTypeOK, eventVars
<1>5. ASSUME NEW r \in Resource, PushOutOfScope(r), UNCHANGED closeVars
      PROVE  EventTypeOK'
  BY <1>5 DEF PushOutOfScope, TypeOK, EventTypeOK, eventVars
<1>6. ASSUME NEW r \in Resource, PushSkips(r), UNCHANGED closeVars PROVE EventTypeOK'
  BY <1>6 DEF PushSkips, TypeOK, EventTypeOK, eventVars
<1>7. ASSUME NEW w \in Worker, Take(w), UNCHANGED closeVars PROVE EventTypeOK'
  BY <1>7 DEF Take, TypeOK, EventTypeOK, eventVars
<1>8. ASSUME NEW w \in Worker, NEW f \in Worker, Enter(w, f), UNCHANGED closeVars
      PROVE  EventTypeOK'
  BY <1>8 DEF Enter, TypeOK, EventTypeOK, eventVars
<1>9. ASSUME NEW w \in Worker, DropToken(w), UNCHANGED closeVars PROVE EventTypeOK'
  BY <1>9 DEF DropToken, TypeOK, EventTypeOK, eventVars
<1>10. ASSUME NEW w \in Worker, SetMessage(w), UNCHANGED closeVars PROVE EventTypeOK'
  BY <1>10 DEF SetMessage, TypeOK, EventTypeOK, PoolTypeOK, eventVars, Goto
<1>11. ASSUME NEW w \in Worker, Touch(w), UNCHANGED closeVars PROVE EventTypeOK'
  BY <1>11 DEF Touch, TypeOK, EventTypeOK, eventVars
<1>12. ASSUME NEW w \in Worker, Mark(w), UNCHANGED closeVars PROVE EventTypeOK'
  BY <1>12 DEF Mark, TypeOK, EventTypeOK, eventVars
<1>13. ASSUME NEW w \in Worker, MarkFails(w), UNCHANGED closeVars PROVE EventTypeOK'
  BY <1>13 DEF MarkFails, TypeOK, EventTypeOK, eventVars
<1>14. ASSUME NEW w \in Worker, HandlerSkips(w), UNCHANGED closeVars PROVE EventTypeOK'
  BY <1>14 DEF HandlerSkips, TypeOK, EventTypeOK, eventVars
<1>15. ASSUME NEW w \in Worker, HandlerWrites(w), UNCHANGED closeVars PROVE EventTypeOK'
  BY <1>15 DEF HandlerWrites, TypeOK, EventTypeOK, eventVars
<1>16. ASSUME NEW w \in Worker, NEW h \in Worker, HandlerFails(w, h), UNCHANGED closeVars
      PROVE  EventTypeOK'
  BY <1>16 DEF HandlerFails, TypeOK, EventTypeOK, eventVars
<1>17. ASSUME NEW w \in Worker, Finish(w), UNCHANGED closeVars PROVE EventTypeOK'
  BY <1>17 DEF Finish, TypeOK, EventTypeOK, eventVars
<1>18. ASSUME NEW w \in Worker, Resume(w), UNCHANGED closeVars PROVE EventTypeOK'
  BY <1>18 DEF Resume, TypeOK, EventTypeOK, eventVars
<1>19. ASSUME NEW w \in Worker, ResumeAction(w), UNCHANGED closeVars PROVE EventTypeOK'
  BY <1>19 DEF ResumeAction, TypeOK, EventTypeOK, eventVars
<1>20. ASSUME NEW w \in Worker, ResumeLeave(w), UNCHANGED closeVars PROVE EventTypeOK'
  BY <1>20 DEF ResumeLeave, TypeOK, EventTypeOK, eventVars
<1>21. ASSUME NEW r \in Resource, Suspend(r) PROVE EventTypeOK'
  BY <1>21 DEF Suspend, TypeOK, EventTypeOK, eventVars
<1>22. ASSUME NEW r \in Resource, Subscribe(r) PROVE EventTypeOK'
  BY <1>22 DEF Subscribe, TypeOK, EventTypeOK, eventVars
<1>23. ASSUME NEW r \in Resource, CheckSuspended(r) PROVE EventTypeOK'
  BY <1>23 DEF CheckSuspended, TypeOK, EventTypeOK, eventVars
<1>24. ASSUME NEW r \in Resource, PutAlive(r) PROVE EventTypeOK'
  BY <1>24 DEF PutAlive, TypeOK, EventTypeOK, eventVars
<1>25. ASSUME NEW c \in Closer, NEW r \in Resource, NEW kind \in Kind, Guard(c, r, kind)
      PROVE  EventTypeOK'
  BY <1>25 DEF Guard, chanVars, TypeOK, EventTypeOK, eventVars
<1>26. ASSUME NEW c \in Closer, MarkClosed(c) PROVE EventTypeOK'
  BY <1>26 DEF MarkClosed, TypeOK, EventTypeOK, eventVars
<1>27. ASSUME NEW c \in Closer, Flag(c) PROVE EventTypeOK'
  BY <1>27 DEF Flag, TypeOK, EventTypeOK, eventVars
<1>28. ASSUME NEW c \in Closer, InvokeOutOfScope(c) PROVE EventTypeOK'
  BY <1>28 DEF InvokeOutOfScope, chanVars, TypeOK, EventTypeOK, eventVars
<1>29. ASSUME NEW c \in Closer, InvokeSkips(c) PROVE EventTypeOK'
  BY <1>29 DEF InvokeSkips, chanVars, TypeOK, EventTypeOK, eventVars
<1>30. ASSUME NEW c \in Closer, InvokeWrites(c) PROVE EventTypeOK'
  BY <1>30 DEF InvokeWrites, chanVars, TypeOK, EventTypeOK, eventVars
<1>31. ASSUME NEW c \in Closer, Destroy(c) PROVE EventTypeOK'
  BY <1>31 DEF Destroy, TypeOK, EventTypeOK, eventVars
<1>32. ASSUME NEW c \in Closer, RemoveAll(c) PROVE EventTypeOK'
  BY <1>32 DEF RemoveAll, TypeOK, EventTypeOK, eventVars
<1>33. ASSUME NEW c \in Closer, LeaveScope(c) PROVE EventTypeOK'
  BY <1>33 DEF LeaveScope, TypeOK, EventTypeOK, eventVars
<1>34. ASSUME NEW c \in Closer, DestroyAgain(c) PROVE EventTypeOK'
  BY <1>34 DEF DestroyAgain, TypeOK, EventTypeOK, eventVars
<1>35. CASE UNCHANGED vars
  BY <1>35 DEF vars, chanVars, eventVars, TypeOK, EventTypeOK
<1> QED
  BY <1>1, <1>2, <1>3, <1>4, <1>5, <1>6, <1>7, <1>8, <1>9, <1>10, <1>11, <1>12, <1>13,
     <1>14, <1>15, <1>16, <1>17, <1>18, <1>19, <1>20, <1>21, <1>22, <1>23, <1>24, <1>25,
     <1>26, <1>27, <1>28, <1>29, <1>30, <1>31, <1>32, <1>33, <1>34, <1>35 DEF Next,
     Channel, Notifier, Pool, Request, Closing

\* Every step keeps the types of the registries and of what is written.
LEMMA OutStep ==
  ASSUME TypeOK, [Next]_vars
  PROVE  OutTypeOK'
<1>1. ASSUME NEW to \in Target \cup {All}, Broadcast(to), UNCHANGED closeVars
      PROVE  OutTypeOK'
  BY <1>1 DEF Broadcast, TypeOK, OutTypeOK, outVars, registryVars
<1>2. ASSUME PushToNobody, UNCHANGED closeVars PROVE OutTypeOK'
  <2>1. PICK m \in Message : done' = done \cup {m}
    BY <1>2, HeadEntry DEF PushToNobody, NotifierTakes, TypeOK
  <2>2. UNCHANGED <<resources, aliveRequests, wire, late>>
    BY <1>2 DEF PushToNobody, registryVars
  <2> QED
    BY <2>1, <2>2 DEF TypeOK, OutTypeOK, Message
<1>3. ASSUME PushEntry, UNCHANGED closeVars PROVE OutTypeOK'
  BY <1>3 DEF PushEntry, TypeOK, OutTypeOK, outVars, registryVars
<1>4. ASSUME NEW r \in Resource, PushOne(r), UNCHANGED closeVars PROVE OutTypeOK'
  BY <1>4 DEF PushOne, TypeOK, OutTypeOK, outVars, registryVars
<1>5. ASSUME NEW r \in Resource, PushOutOfScope(r), UNCHANGED closeVars PROVE OutTypeOK'
  BY <1>5 DEF PushOutOfScope, TypeOK, OutTypeOK, outVars, registryVars
<1>6. ASSUME NEW r \in Resource, PushSkips(r), UNCHANGED closeVars PROVE OutTypeOK'
  BY <1>6 DEF PushSkips, TypeOK, OutTypeOK, outVars, registryVars
<1>7. ASSUME NEW w \in Worker, Take(w), UNCHANGED closeVars PROVE OutTypeOK'
  BY <1>7 DEF Take, TypeOK, OutTypeOK, outVars, registryVars
<1>8. ASSUME NEW w \in Worker, NEW f \in Worker, Enter(w, f), UNCHANGED closeVars
      PROVE  OutTypeOK'
  BY <1>8 DEF Enter, TypeOK, OutTypeOK, outVars, registryVars
<1>9. ASSUME NEW w \in Worker, DropToken(w), UNCHANGED closeVars PROVE OutTypeOK'
  BY <1>9 DEF DropToken, TypeOK, OutTypeOK, outVars, registryVars
<1>10. ASSUME NEW w \in Worker, SetMessage(w), UNCHANGED closeVars PROVE OutTypeOK'
  BY <1>10 DEF SetMessage, TypeOK, OutTypeOK, outVars, registryVars
<1>11. ASSUME NEW w \in Worker, Touch(w), UNCHANGED closeVars PROVE OutTypeOK'
  BY <1>11 DEF Touch, TypeOK, OutTypeOK, outVars, registryVars
<1>12. ASSUME NEW w \in Worker, Mark(w), UNCHANGED closeVars PROVE OutTypeOK'
  BY <1>12 DEF Mark, TypeOK, OutTypeOK, outVars, registryVars
<1>13. ASSUME NEW w \in Worker, MarkFails(w), UNCHANGED closeVars PROVE OutTypeOK'
  BY <1>13 DEF MarkFails, TypeOK, OutTypeOK, outVars, registryVars
<1>14. ASSUME NEW w \in Worker, HandlerSkips(w), UNCHANGED closeVars PROVE OutTypeOK'
  BY <1>14 DEF HandlerSkips, TypeOK, OutTypeOK, outVars, registryVars
<1>15. ASSUME NEW w \in Worker, HandlerWrites(w), UNCHANGED closeVars PROVE OutTypeOK'
  <2>1. message[tokenResource[w]] \in 0 .. MaxBroadcast
    BY <1>15 DEF HandlerWrites, TypeOK, PoolTypeOK, EventTypeOK
  <2>2. tokenResource[w] \in Resource
    BY <1>15 DEF HandlerWrites, TypeOK, PoolTypeOK
  <2>3. wire[tokenResource[w]] \in Seq(0 .. MaxBroadcast)
    BY <2>2 DEF TypeOK, OutTypeOK
  <2>4. Append(wire[tokenResource[w]], message[tokenResource[w]]) \in Seq(0 .. MaxBroadcast)
    BY <2>1, <2>3, AppendFacts
  <2>5. wire' \in [Resource -> Seq(0 .. MaxBroadcast)]
    BY <1>15, <2>2, <2>4 DEF HandlerWrites, TypeOK, OutTypeOK
  <2>6. \/ late' = late
        \/ late' = [late EXCEPT ![tokenResource[w]] = late[tokenResource[w]] + 1]
    BY <1>15 DEF HandlerWrites
  <2>7. late' \in [Resource -> Nat]
    BY <2>2, <2>6 DEF TypeOK, OutTypeOK
  <2> QED
    BY <1>15, <2>5, <2>7 DEF HandlerWrites, TypeOK, OutTypeOK, registryVars
<1>16. ASSUME NEW w \in Worker, NEW h \in Worker, HandlerFails(w, h), UNCHANGED closeVars
      PROVE  OutTypeOK'
  BY <1>16 DEF HandlerFails, TypeOK, OutTypeOK, outVars, registryVars
<1>17. ASSUME NEW w \in Worker, Finish(w), UNCHANGED closeVars PROVE OutTypeOK'
  BY <1>17 DEF Finish, TypeOK, OutTypeOK, PoolTypeOK, registryVars
<1>18. ASSUME NEW w \in Worker, Resume(w), UNCHANGED closeVars PROVE OutTypeOK'
  BY <1>18 DEF Resume, TypeOK, OutTypeOK, outVars, registryVars
<1>19. ASSUME NEW w \in Worker, ResumeAction(w), UNCHANGED closeVars PROVE OutTypeOK'
  BY <1>19 DEF ResumeAction, TypeOK, OutTypeOK, outVars, registryVars
<1>20. ASSUME NEW w \in Worker, ResumeLeave(w), UNCHANGED closeVars PROVE OutTypeOK'
  BY <1>20 DEF ResumeLeave, TypeOK, OutTypeOK, outVars, registryVars
<1>21. ASSUME NEW r \in Resource, Suspend(r) PROVE OutTypeOK'
  BY <1>21 DEF Suspend, TypeOK, OutTypeOK, outVars, registryVars
<1>22. ASSUME NEW r \in Resource, Subscribe(r) PROVE OutTypeOK'
  BY <1>22 DEF Subscribe, TypeOK, OutTypeOK, outVars, AddAtmosphereResource
<1>23. ASSUME NEW r \in Resource, CheckSuspended(r) PROVE OutTypeOK'
  BY <1>23 DEF CheckSuspended, TypeOK, OutTypeOK, outVars, registryVars
<1>24. ASSUME NEW r \in Resource, PutAlive(r) PROVE OutTypeOK'
  BY <1>24 DEF PutAlive, TypeOK, OutTypeOK, outVars, registryVars
<1>25. ASSUME NEW c \in Closer, NEW r \in Resource, NEW kind \in Kind, Guard(c, r, kind)
      PROVE  OutTypeOK'
  BY <1>25 DEF Guard, chanVars, TypeOK, OutTypeOK, outVars, registryVars
<1>26. ASSUME NEW c \in Closer, MarkClosed(c) PROVE OutTypeOK'
  BY <1>26 DEF MarkClosed, TypeOK, OutTypeOK, outVars, registryVars
<1>27. ASSUME NEW c \in Closer, Flag(c) PROVE OutTypeOK'
  BY <1>27 DEF Flag, TypeOK, OutTypeOK, outVars, registryVars
<1>28. ASSUME NEW c \in Closer, InvokeOutOfScope(c) PROVE OutTypeOK'
  BY <1>28 DEF InvokeOutOfScope, chanVars, TypeOK, OutTypeOK, outVars, registryVars
<1>29. ASSUME NEW c \in Closer, InvokeSkips(c) PROVE OutTypeOK'
  BY <1>29 DEF InvokeSkips, chanVars, TypeOK, OutTypeOK, outVars, registryVars
<1>30. ASSUME NEW c \in Closer, InvokeWrites(c) PROVE OutTypeOK'
  BY <1>30 DEF InvokeWrites, chanVars, TypeOK, OutTypeOK, outVars, registryVars
<1>31. ASSUME NEW c \in Closer, Destroy(c) PROVE OutTypeOK'
  BY <1>31 DEF Destroy, TypeOK, OutTypeOK, outVars, registryVars
<1>32. ASSUME NEW c \in Closer, RemoveAll(c) PROVE OutTypeOK'
  BY <1>32 DEF RemoveAll, TypeOK, OutTypeOK, outVars, registryVars
<1>33. ASSUME NEW c \in Closer, LeaveScope(c) PROVE OutTypeOK'
  BY <1>33 DEF LeaveScope, TypeOK, OutTypeOK, outVars, registryVars
<1>34. ASSUME NEW c \in Closer, DestroyAgain(c) PROVE OutTypeOK'
  BY <1>34 DEF DestroyAgain, TypeOK, OutTypeOK, outVars, registryVars
<1>35. CASE UNCHANGED vars
  BY <1>35 DEF vars, chanVars, outVars, registryVars, TypeOK, OutTypeOK
<1> QED
  BY <1>1, <1>2, <1>3, <1>4, <1>5, <1>6, <1>7, <1>8, <1>9, <1>10, <1>11, <1>12, <1>13,
     <1>14, <1>15, <1>16, <1>17, <1>18, <1>19, <1>20, <1>21, <1>22, <1>23, <1>24, <1>25,
     <1>26, <1>27, <1>28, <1>29, <1>30, <1>31, <1>32, <1>33, <1>34, <1>35 DEF Next,
     Channel, Notifier, Pool, Request, Closing

\* Every step keeps the types of the closing threads.
LEMMA CloserStep ==
  ASSUME TypeOK, [Next]_vars
  PROVE  CloserTypeOK'
<1>1. ASSUME NEW to \in Target \cup {All}, Broadcast(to), UNCHANGED closeVars
      PROVE  CloserTypeOK'
  BY <1>1 DEF Broadcast, TypeOK, CloserTypeOK, closeVars
<1>2. ASSUME PushToNobody, UNCHANGED closeVars PROVE CloserTypeOK'
  BY <1>2 DEF PushToNobody, TypeOK, CloserTypeOK, closeVars
<1>3. ASSUME PushEntry, UNCHANGED closeVars PROVE CloserTypeOK'
  BY <1>3 DEF PushEntry, TypeOK, CloserTypeOK, closeVars
<1>4. ASSUME NEW r \in Resource, PushOne(r), UNCHANGED closeVars PROVE CloserTypeOK'
  BY <1>4 DEF PushOne, TypeOK, CloserTypeOK, closeVars
<1>5. ASSUME NEW r \in Resource, PushOutOfScope(r), UNCHANGED closeVars
      PROVE  CloserTypeOK'
  BY <1>5 DEF PushOutOfScope, TypeOK, CloserTypeOK, closeVars
<1>6. ASSUME NEW r \in Resource, PushSkips(r), UNCHANGED closeVars PROVE CloserTypeOK'
  BY <1>6 DEF PushSkips, TypeOK, CloserTypeOK, closeVars
<1>7. ASSUME NEW w \in Worker, Take(w), UNCHANGED closeVars PROVE CloserTypeOK'
  BY <1>7 DEF Take, TypeOK, CloserTypeOK, closeVars
<1>8. ASSUME NEW w \in Worker, NEW f \in Worker, Enter(w, f), UNCHANGED closeVars
      PROVE  CloserTypeOK'
  BY <1>8 DEF Enter, TypeOK, CloserTypeOK, closeVars
<1>9. ASSUME NEW w \in Worker, DropToken(w), UNCHANGED closeVars PROVE CloserTypeOK'
  BY <1>9 DEF DropToken, TypeOK, CloserTypeOK, closeVars
<1>10. ASSUME NEW w \in Worker, SetMessage(w), UNCHANGED closeVars PROVE CloserTypeOK'
  BY <1>10 DEF SetMessage, TypeOK, CloserTypeOK, closeVars
<1>11. ASSUME NEW w \in Worker, Touch(w), UNCHANGED closeVars PROVE CloserTypeOK'
  BY <1>11 DEF Touch, TypeOK, CloserTypeOK, closeVars
<1>12. ASSUME NEW w \in Worker, Mark(w), UNCHANGED closeVars PROVE CloserTypeOK'
  BY <1>12 DEF Mark, TypeOK, CloserTypeOK, closeVars
<1>13. ASSUME NEW w \in Worker, MarkFails(w), UNCHANGED closeVars PROVE CloserTypeOK'
  BY <1>13 DEF MarkFails, TypeOK, CloserTypeOK, closeVars
<1>14. ASSUME NEW w \in Worker, HandlerSkips(w), UNCHANGED closeVars PROVE CloserTypeOK'
  BY <1>14 DEF HandlerSkips, TypeOK, CloserTypeOK, closeVars
<1>15. ASSUME NEW w \in Worker, HandlerWrites(w), UNCHANGED closeVars
      PROVE  CloserTypeOK'
  BY <1>15 DEF HandlerWrites, TypeOK, CloserTypeOK, closeVars
<1>16. ASSUME NEW w \in Worker, NEW h \in Worker, HandlerFails(w, h), UNCHANGED closeVars
      PROVE  CloserTypeOK'
  BY <1>16 DEF HandlerFails, TypeOK, CloserTypeOK, closeVars
<1>17. ASSUME NEW w \in Worker, Finish(w), UNCHANGED closeVars PROVE CloserTypeOK'
  BY <1>17 DEF Finish, TypeOK, CloserTypeOK, closeVars
<1>18. ASSUME NEW w \in Worker, Resume(w), UNCHANGED closeVars PROVE CloserTypeOK'
  BY <1>18 DEF Resume, TypeOK, CloserTypeOK, closeVars
<1>19. ASSUME NEW w \in Worker, ResumeAction(w), UNCHANGED closeVars PROVE CloserTypeOK'
  BY <1>19 DEF ResumeAction, TypeOK, CloserTypeOK, closeVars
<1>20. ASSUME NEW w \in Worker, ResumeLeave(w), UNCHANGED closeVars PROVE CloserTypeOK'
  BY <1>20 DEF ResumeLeave, TypeOK, CloserTypeOK, closeVars
<1>21. ASSUME NEW r \in Resource, Suspend(r) PROVE CloserTypeOK'
  BY <1>21 DEF Suspend, TypeOK, CloserTypeOK, closeVars
<1>22. ASSUME NEW r \in Resource, Subscribe(r) PROVE CloserTypeOK'
  BY <1>22 DEF Subscribe, TypeOK, CloserTypeOK, closeVars
<1>23. ASSUME NEW r \in Resource, CheckSuspended(r) PROVE CloserTypeOK'
  BY <1>23 DEF CheckSuspended, TypeOK, CloserTypeOK, closeVars
<1>24. ASSUME NEW r \in Resource, PutAlive(r) PROVE CloserTypeOK'
  BY <1>24 DEF PutAlive, TypeOK, CloserTypeOK, closeVars
<1>25. ASSUME NEW c \in Closer, NEW r \in Resource, NEW kind \in Kind, Guard(c, r, kind)
      PROVE  CloserTypeOK'
  BY <1>25, CloserAssumption DEF Guard, TypeOK, CloserTypeOK, CloserPC, CloserGoto, Kind
<1>26. ASSUME NEW c \in Closer, MarkClosed(c) PROVE CloserTypeOK'
  BY <1>26, CloserAssumption DEF MarkClosed, TypeOK, CloserTypeOK, CloserPC, CloserGoto,
     Kind
<1>27. ASSUME NEW c \in Closer, Flag(c) PROVE CloserTypeOK'
  BY <1>27, CloserAssumption DEF Flag, TypeOK, CloserTypeOK, CloserPC, CloserGoto, Kind
<1>28. ASSUME NEW c \in Closer, InvokeOutOfScope(c) PROVE CloserTypeOK'
  BY <1>28, CloserAssumption DEF InvokeOutOfScope, TypeOK, CloserTypeOK, CloserPC,
     CloserGoto, Kind
<1>29. ASSUME NEW c \in Closer, InvokeSkips(c) PROVE CloserTypeOK'
  BY <1>29, CloserAssumption DEF InvokeSkips, TypeOK, CloserTypeOK, CloserPC,
     CloserGoto, Kind
<1>30. ASSUME NEW c \in Closer, InvokeWrites(c) PROVE CloserTypeOK'
  BY <1>30, CloserAssumption DEF InvokeWrites, TypeOK, CloserTypeOK, CloserPC,
     CloserGoto, Kind
<1>31. ASSUME NEW c \in Closer, Destroy(c) PROVE CloserTypeOK'
  BY <1>31, CloserAssumption DEF Destroy, TypeOK, CloserTypeOK, CloserPC, CloserGoto,
     Kind
<1>32. ASSUME NEW c \in Closer, RemoveAll(c) PROVE CloserTypeOK'
  BY <1>32, CloserAssumption DEF RemoveAll, TypeOK, CloserTypeOK, CloserPC, CloserGoto,
     Kind
<1>33. ASSUME NEW c \in Closer, LeaveScope(c) PROVE CloserTypeOK'
  BY <1>33, CloserAssumption DEF LeaveScope, TypeOK, CloserTypeOK, CloserPC, CloserGoto,
     Kind
<1>34. ASSUME NEW c \in Closer, DestroyAgain(c) PROVE CloserTypeOK'
  BY <1>34, CloserAssumption DEF DestroyAgain, TypeOK, CloserTypeOK, CloserPC,
     CloserGoto, Kind
<1>35. CASE UNCHANGED vars
  BY <1>35 DEF vars, closeVars, TypeOK, CloserTypeOK
<1> QED
  BY <1>1, <1>2, <1>3, <1>4, <1>5, <1>6, <1>7, <1>8, <1>9, <1>10, <1>11, <1>12, <1>13,
     <1>14, <1>15, <1>16, <1>17, <1>18, <1>19, <1>20, <1>21, <1>22, <1>23, <1>24, <1>25,
     <1>26, <1>27, <1>28, <1>29, <1>30, <1>31, <1>32, <1>33, <1>34, <1>35 DEF Next,
     Channel, Notifier, Pool, Request, Closing

LEMMA StepTypeOK == TypeOK /\ [Next]_vars => TypeOK'
BY QueueStep, PoolStep, EventStep, OutStep, CloserStep DEF TypeOK

\* Type correctness of the push runtime: in particular a thread that works, or
\* closes, always has a response to work on.
THEOREM TypeCorrect == Spec => []TypeOK
<1>1. Init => TypeOK
  BY InitTypeOK
<1>2. TypeOK /\ [Next]_vars => TypeOK'
  BY StepTypeOK
<1> QED
  BY <1>1, <1>2, PTL DEF Spec


---------------------------------------------------------------------------
(* The lead and the monitors.                                              *)

\* No step loses or doubles the lead: only the leader becomes a writer, and
\* when it does it submits the next leader.
LEMMA LeaderStep ==
  ASSUME TypeOK, LeaderInv, [Next]_vars
  PROVE  LeaderInv'
<1>1. ASSUME NEW to \in Target \cup {All}, Broadcast(to), UNCHANGED closeVars
      PROVE  LeaderInv'
  BY <1>1 DEF Broadcast, LeaderInv, OneLeader, IdleUntilStarted, TypeOK, PoolTypeOK,
     Leading, Inside, Resuming, PC, Goto, Exit
<1>2. ASSUME PushToNobody, UNCHANGED closeVars PROVE LeaderInv'
  BY <1>2 DEF PushToNobody, LeaderInv, OneLeader, IdleUntilStarted, poolVars
<1>3. ASSUME PushEntry, UNCHANGED closeVars PROVE LeaderInv'
  BY <1>3 DEF PushEntry, LeaderInv, OneLeader, IdleUntilStarted, poolVars
<1>4. ASSUME NEW r \in Resource, PushOne(r), UNCHANGED closeVars PROVE LeaderInv'
  BY <1>4 DEF PushOne, LeaderInv, OneLeader, IdleUntilStarted, poolVars
<1>5. ASSUME NEW r \in Resource, PushOutOfScope(r), UNCHANGED closeVars PROVE LeaderInv'
  BY <1>5 DEF PushOutOfScope, LeaderInv, OneLeader, IdleUntilStarted, poolVars
<1>6. ASSUME NEW r \in Resource, PushSkips(r), UNCHANGED closeVars PROVE LeaderInv'
  BY <1>6 DEF PushSkips, LeaderInv, OneLeader, IdleUntilStarted, poolVars
<1>7. ASSUME NEW w \in Worker, Take(w), UNCHANGED closeVars PROVE LeaderInv'
  BY <1>7 DEF Take, LeaderInv, OneLeader, IdleUntilStarted, TypeOK, PoolTypeOK, Leading,
     Inside, Resuming, PC, Goto, Exit
<1>8. ASSUME NEW w \in Worker, NEW f \in Worker, Enter(w, f), UNCHANGED closeVars
      PROVE  LeaderInv'
  BY <1>8 DEF Enter, LeaderInv, OneLeader, IdleUntilStarted, TypeOK, PoolTypeOK,
     Leading, Inside, Resuming, PC, Goto, Exit
<1>9. ASSUME NEW w \in Worker, DropToken(w), UNCHANGED closeVars PROVE LeaderInv'
  BY <1>9 DEF DropToken, LeaderInv, OneLeader, IdleUntilStarted, TypeOK, PoolTypeOK,
     Leading, Inside, Resuming, PC, Goto, Exit
<1>10. ASSUME NEW w \in Worker, SetMessage(w), UNCHANGED closeVars PROVE LeaderInv'
  BY <1>10 DEF SetMessage, LeaderInv, OneLeader, IdleUntilStarted, TypeOK, PoolTypeOK,
     Leading, Inside, Resuming, PC, Goto, Exit
<1>11. ASSUME NEW w \in Worker, Touch(w), UNCHANGED closeVars PROVE LeaderInv'
  BY <1>11 DEF Touch, LeaderInv, OneLeader, IdleUntilStarted, TypeOK, PoolTypeOK,
     Leading, Inside, Resuming, PC, Goto, Exit
<1>12. ASSUME NEW w \in Worker, Mark(w), UNCHANGED closeVars PROVE LeaderInv'
  BY <1>12 DEF Mark, LeaderInv, OneLeader, IdleUntilStarted, TypeOK, PoolTypeOK,
     Leading, Inside, Resuming, PC, Goto, Exit
<1>13. ASSUME NEW w \in Worker, MarkFails(w), UNCHANGED closeVars PROVE LeaderInv'
  BY <1>13 DEF MarkFails, LeaderInv, OneLeader, IdleUntilStarted, TypeOK, PoolTypeOK,
     Leading, Inside, Resuming, PC, Goto, Exit
<1>14. ASSUME NEW w \in Worker, HandlerSkips(w), UNCHANGED closeVars PROVE LeaderInv'
  BY <1>14 DEF HandlerSkips, LeaderInv, OneLeader, IdleUntilStarted, TypeOK, PoolTypeOK,
     Leading, Inside, Resuming, PC, Goto, Exit
<1>15. ASSUME NEW w \in Worker, HandlerWrites(w), UNCHANGED closeVars PROVE LeaderInv'
  BY <1>15 DEF HandlerWrites, LeaderInv, OneLeader, IdleUntilStarted, TypeOK,
     PoolTypeOK, Leading, Inside, Resuming, PC, Goto, Exit
<1>16. ASSUME NEW w \in Worker, NEW h \in Worker, HandlerFails(w, h), UNCHANGED closeVars
      PROVE  LeaderInv'
  BY <1>16 DEF HandlerFails, LeaderInv, OneLeader, IdleUntilStarted, TypeOK, PoolTypeOK,
     Leading, Inside, Resuming, PC, Goto, Exit
<1>17. ASSUME NEW w \in Worker, Finish(w), UNCHANGED closeVars PROVE LeaderInv'
  BY <1>17 DEF Finish, LeaderInv, OneLeader, IdleUntilStarted, TypeOK, PoolTypeOK,
     Leading, Inside, Resuming, PC, Goto, Exit
<1>18. ASSUME NEW w \in Worker, Resume(w), UNCHANGED closeVars PROVE LeaderInv'
  BY <1>18 DEF Resume, LeaderInv, OneLeader, IdleUntilStarted, TypeOK, PoolTypeOK,
     Leading, Inside, Resuming, PC, Goto, Exit
<1>19. ASSUME NEW w \in Worker, ResumeAction(w), UNCHANGED closeVars PROVE LeaderInv'
  BY <1>19 DEF ResumeAction, LeaderInv, OneLeader, IdleUntilStarted, TypeOK, PoolTypeOK,
     Leading, Inside, Resuming, PC, Goto, Exit
<1>20. ASSUME NEW w \in Worker, ResumeLeave(w), UNCHANGED closeVars PROVE LeaderInv'
  BY <1>20 DEF ResumeLeave, LeaderInv, OneLeader, IdleUntilStarted, TypeOK, PoolTypeOK,
     Leading, Inside, Resuming, PC, Goto, Exit
<1>21. ASSUME NEW r \in Resource, Suspend(r) PROVE LeaderInv'
  BY <1>21 DEF Suspend, LeaderInv, OneLeader, IdleUntilStarted, poolVars
<1>22. ASSUME NEW r \in Resource, Subscribe(r) PROVE LeaderInv'
  BY <1>22 DEF Subscribe, LeaderInv, OneLeader, IdleUntilStarted, poolVars
<1>23. ASSUME NEW r \in Resource, CheckSuspended(r) PROVE LeaderInv'
  BY <1>23 DEF CheckSuspended, LeaderInv, OneLeader, IdleUntilStarted, poolVars
<1>24. ASSUME NEW r \in Resource, PutAlive(r) PROVE LeaderInv'
  BY <1>24 DEF PutAlive, LeaderInv, OneLeader, IdleUntilStarted, poolVars
<1>25. ASSUME NEW c \in Closer, NEW r \in Resource, NEW kind \in Kind, Guard(c, r, kind)
      PROVE  LeaderInv'
  BY <1>25 DEF Guard, chanVars, poolVars, LeaderInv, OneLeader, IdleUntilStarted
<1>26. ASSUME NEW c \in Closer, MarkClosed(c) PROVE LeaderInv'
  BY <1>26 DEF MarkClosed, LeaderInv, OneLeader, IdleUntilStarted, poolVars
<1>27. ASSUME NEW c \in Closer, Flag(c) PROVE LeaderInv'
  BY <1>27 DEF Flag, LeaderInv, OneLeader, IdleUntilStarted, poolVars
<1>28. ASSUME NEW c \in Closer, InvokeOutOfScope(c) PROVE LeaderInv'
  BY <1>28 DEF InvokeOutOfScope, chanVars, poolVars, LeaderInv, OneLeader,
     IdleUntilStarted
<1>29. ASSUME NEW c \in Closer, InvokeSkips(c) PROVE LeaderInv'
  BY <1>29 DEF InvokeSkips, chanVars, poolVars, LeaderInv, OneLeader, IdleUntilStarted
<1>30. ASSUME NEW c \in Closer, InvokeWrites(c) PROVE LeaderInv'
  BY <1>30 DEF InvokeWrites, chanVars, poolVars, LeaderInv, OneLeader, IdleUntilStarted
<1>31. ASSUME NEW c \in Closer, Destroy(c) PROVE LeaderInv'
  BY <1>31 DEF Destroy, LeaderInv, OneLeader, IdleUntilStarted, poolVars
<1>32. ASSUME NEW c \in Closer, RemoveAll(c) PROVE LeaderInv'
  BY <1>32 DEF RemoveAll, LeaderInv, OneLeader, IdleUntilStarted, poolVars
<1>33. ASSUME NEW c \in Closer, LeaveScope(c) PROVE LeaderInv'
  BY <1>33 DEF LeaveScope, LeaderInv, OneLeader, IdleUntilStarted, poolVars
<1>34. ASSUME NEW c \in Closer, DestroyAgain(c) PROVE LeaderInv'
  BY <1>34 DEF DestroyAgain, LeaderInv, OneLeader, IdleUntilStarted, poolVars
<1>35. CASE UNCHANGED vars
  BY <1>35 DEF vars, chanVars, poolVars, LeaderInv, OneLeader, IdleUntilStarted
<1> QED
  BY <1>1, <1>2, <1>3, <1>4, <1>5, <1>6, <1>7, <1>8, <1>9, <1>10, <1>11, <1>12, <1>13,
     <1>14, <1>15, <1>16, <1>17, <1>18, <1>19, <1>20, <1>21, <1>22, <1>23, <1>24, <1>25,
     <1>26, <1>27, <1>28, <1>29, <1>30, <1>31, <1>32, <1>33, <1>34, <1>35 DEF Next,
     Channel, Notifier, Pool, Request, Closing

\* No step takes a monitor from a writer or lets a second one in.
LEMMA MonitorStep ==
  ASSUME TypeOK, WriterOwnsMonitor, [Next]_vars
  PROVE  WriterOwnsMonitor'
<1>1. ASSUME NEW to \in Target \cup {All}, Broadcast(to), UNCHANGED closeVars
      PROVE  WriterOwnsMonitor'
  BY <1>1, ChannelAssumption DEF Broadcast, WriterOwnsMonitor, TypeOK, PoolTypeOK,
     Inside, Goto, Exit
<1>2. ASSUME PushToNobody, UNCHANGED closeVars PROVE WriterOwnsMonitor'
  BY <1>2 DEF PushToNobody, WriterOwnsMonitor, poolVars
<1>3. ASSUME PushEntry, UNCHANGED closeVars PROVE WriterOwnsMonitor'
  BY <1>3 DEF PushEntry, WriterOwnsMonitor, poolVars
<1>4. ASSUME NEW r \in Resource, PushOne(r), UNCHANGED closeVars
      PROVE  WriterOwnsMonitor'
  BY <1>4 DEF PushOne, WriterOwnsMonitor, poolVars
<1>5. ASSUME NEW r \in Resource, PushOutOfScope(r), UNCHANGED closeVars
      PROVE  WriterOwnsMonitor'
  BY <1>5 DEF PushOutOfScope, WriterOwnsMonitor, poolVars
<1>6. ASSUME NEW r \in Resource, PushSkips(r), UNCHANGED closeVars
      PROVE  WriterOwnsMonitor'
  BY <1>6 DEF PushSkips, WriterOwnsMonitor, poolVars
<1>7. ASSUME NEW w \in Worker, Take(w), UNCHANGED closeVars PROVE WriterOwnsMonitor'
  BY <1>7, ChannelAssumption DEF Take, WriterOwnsMonitor, TypeOK, PoolTypeOK, Inside,
     Goto, Exit
<1>8. ASSUME NEW w \in Worker, NEW f \in Worker, Enter(w, f), UNCHANGED closeVars
      PROVE  WriterOwnsMonitor'
  BY <1>8, ChannelAssumption DEF Enter, WriterOwnsMonitor, TypeOK, PoolTypeOK, Inside,
     Goto, Exit
<1>9. ASSUME NEW w \in Worker, DropToken(w), UNCHANGED closeVars
      PROVE  WriterOwnsMonitor'
  BY <1>9, ChannelAssumption DEF DropToken, WriterOwnsMonitor, TypeOK, PoolTypeOK,
     Inside, Goto, Exit
<1>10. ASSUME NEW w \in Worker, SetMessage(w), UNCHANGED closeVars
      PROVE  WriterOwnsMonitor'
  BY <1>10, ChannelAssumption DEF SetMessage, WriterOwnsMonitor, TypeOK, PoolTypeOK,
     Inside, Goto, Exit
<1>11. ASSUME NEW w \in Worker, Touch(w), UNCHANGED closeVars PROVE WriterOwnsMonitor'
  BY <1>11, ChannelAssumption DEF Touch, WriterOwnsMonitor, TypeOK, PoolTypeOK, Inside,
     Goto, Exit
<1>12. ASSUME NEW w \in Worker, Mark(w), UNCHANGED closeVars PROVE WriterOwnsMonitor'
  BY <1>12, ChannelAssumption DEF Mark, WriterOwnsMonitor, TypeOK, PoolTypeOK, Inside,
     Goto, Exit
<1>13. ASSUME NEW w \in Worker, MarkFails(w), UNCHANGED closeVars
      PROVE  WriterOwnsMonitor'
  BY <1>13, ChannelAssumption DEF MarkFails, WriterOwnsMonitor, TypeOK, PoolTypeOK,
     Inside, Goto, Exit
<1>14. ASSUME NEW w \in Worker, HandlerSkips(w), UNCHANGED closeVars
      PROVE  WriterOwnsMonitor'
  BY <1>14, ChannelAssumption DEF HandlerSkips, WriterOwnsMonitor, TypeOK, PoolTypeOK,
     Inside, Goto, Exit
<1>15. ASSUME NEW w \in Worker, HandlerWrites(w), UNCHANGED closeVars
      PROVE  WriterOwnsMonitor'
  BY <1>15, ChannelAssumption DEF HandlerWrites, WriterOwnsMonitor, TypeOK, PoolTypeOK,
     Inside, Goto, Exit
<1>16. ASSUME NEW w \in Worker, NEW h \in Worker, HandlerFails(w, h), UNCHANGED closeVars
      PROVE  WriterOwnsMonitor'
  BY <1>16, ChannelAssumption DEF HandlerFails, WriterOwnsMonitor, TypeOK, PoolTypeOK,
     Inside, Goto, Exit
<1>17. ASSUME NEW w \in Worker, Finish(w), UNCHANGED closeVars PROVE WriterOwnsMonitor'
  BY <1>17, ChannelAssumption DEF Finish, WriterOwnsMonitor, TypeOK, PoolTypeOK, Inside,
     Goto, Exit
<1>18. ASSUME NEW w \in Worker, Resume(w), UNCHANGED closeVars PROVE WriterOwnsMonitor'
  BY <1>18, ChannelAssumption DEF Resume, WriterOwnsMonitor, TypeOK, PoolTypeOK, Inside,
     Goto, Exit
<1>19. ASSUME NEW w \in Worker, ResumeAction(w), UNCHANGED closeVars
      PROVE  WriterOwnsMonitor'
  BY <1>19, ChannelAssumption DEF ResumeAction, WriterOwnsMonitor, TypeOK, PoolTypeOK,
     Inside, Goto, Exit
<1>20. ASSUME NEW w \in Worker, ResumeLeave(w), UNCHANGED closeVars
      PROVE  WriterOwnsMonitor'
  BY <1>20, ChannelAssumption DEF ResumeLeave, WriterOwnsMonitor, TypeOK, PoolTypeOK,
     Inside, Goto, Exit
<1>21. ASSUME NEW r \in Resource, Suspend(r) PROVE WriterOwnsMonitor'
  BY <1>21 DEF Suspend, WriterOwnsMonitor, poolVars
<1>22. ASSUME NEW r \in Resource, Subscribe(r) PROVE WriterOwnsMonitor'
  BY <1>22 DEF Subscribe, WriterOwnsMonitor, poolVars
<1>23. ASSUME NEW r \in Resource, CheckSuspended(r) PROVE WriterOwnsMonitor'
  BY <1>23 DEF CheckSuspended, WriterOwnsMonitor, poolVars
<1>24. ASSUME NEW r \in Resource, PutAlive(r) PROVE WriterOwnsMonitor'
  BY <1>24 DEF PutAlive, WriterOwnsMonitor, poolVars
<1>25. ASSUME NEW c \in Closer, NEW r \in Resource, NEW kind \in Kind, Guard(c, r, kind)
      PROVE  WriterOwnsMonitor'
  BY <1>25 DEF Guard, chanVars, poolVars, WriterOwnsMonitor
<1>26. ASSUME NEW c \in Closer, MarkClosed(c) PROVE WriterOwnsMonitor'
  BY <1>26 DEF MarkClosed, WriterOwnsMonitor, poolVars
<1>27. ASSUME NEW c \in Closer, Flag(c) PROVE WriterOwnsMonitor'
  BY <1>27 DEF Flag, WriterOwnsMonitor, poolVars
<1>28. ASSUME NEW c \in Closer, InvokeOutOfScope(c) PROVE WriterOwnsMonitor'
  BY <1>28 DEF InvokeOutOfScope, chanVars, poolVars, WriterOwnsMonitor
<1>29. ASSUME NEW c \in Closer, InvokeSkips(c) PROVE WriterOwnsMonitor'
  BY <1>29 DEF InvokeSkips, chanVars, poolVars, WriterOwnsMonitor
<1>30. ASSUME NEW c \in Closer, InvokeWrites(c) PROVE WriterOwnsMonitor'
  BY <1>30 DEF InvokeWrites, chanVars, poolVars, WriterOwnsMonitor
<1>31. ASSUME NEW c \in Closer, Destroy(c) PROVE WriterOwnsMonitor'
  BY <1>31 DEF Destroy, WriterOwnsMonitor, poolVars
<1>32. ASSUME NEW c \in Closer, RemoveAll(c) PROVE WriterOwnsMonitor'
  BY <1>32 DEF RemoveAll, WriterOwnsMonitor, poolVars
<1>33. ASSUME NEW c \in Closer, LeaveScope(c) PROVE WriterOwnsMonitor'
  BY <1>33 DEF LeaveScope, WriterOwnsMonitor, poolVars
<1>34. ASSUME NEW c \in Closer, DestroyAgain(c) PROVE WriterOwnsMonitor'
  BY <1>34 DEF DestroyAgain, WriterOwnsMonitor, poolVars
<1>35. CASE UNCHANGED vars
  BY <1>35 DEF vars, chanVars, poolVars, WriterOwnsMonitor
<1> QED
  BY <1>1, <1>2, <1>3, <1>4, <1>5, <1>6, <1>7, <1>8, <1>9, <1>10, <1>11, <1>12, <1>13,
     <1>14, <1>15, <1>16, <1>17, <1>18, <1>19, <1>20, <1>21, <1>22, <1>23, <1>24, <1>25,
     <1>26, <1>27, <1>28, <1>29, <1>30, <1>31, <1>32, <1>33, <1>34, <1>35 DEF Next,
     Channel, Notifier, Pool, Request, Closing

---------------------------------------------------------------------------
(* Closing a response.                                                     *)

\* A request thread is done with its response before anyone closes it.
LEMMA OwnsStep ==
  ASSUME TypeOK, ScopeInv, [Next]_vars
  PROVE  CloserOwnsRequest'
<1>1. ASSUME NEW to \in Target \cup {All}, Broadcast(to), UNCHANGED closeVars
      PROVE  CloserOwnsRequest'
  BY <1>1 DEF Broadcast, ScopeInv, CloserOwnsRequest, eventVars, closeVars
<1>2. ASSUME PushToNobody, UNCHANGED closeVars PROVE CloserOwnsRequest'
  BY <1>2 DEF PushToNobody, ScopeInv, CloserOwnsRequest, eventVars, closeVars
<1>3. ASSUME PushEntry, UNCHANGED closeVars PROVE CloserOwnsRequest'
  BY <1>3 DEF PushEntry, ScopeInv, CloserOwnsRequest, eventVars, closeVars
<1>4. ASSUME NEW r \in Resource, PushOne(r), UNCHANGED closeVars
      PROVE  CloserOwnsRequest'
  BY <1>4 DEF PushOne, ScopeInv, CloserOwnsRequest, eventVars, closeVars
<1>5. ASSUME NEW r \in Resource, PushOutOfScope(r), UNCHANGED closeVars
      PROVE  CloserOwnsRequest'
  BY <1>5 DEF PushOutOfScope, ScopeInv, CloserOwnsRequest, eventVars, closeVars
<1>6. ASSUME NEW r \in Resource, PushSkips(r), UNCHANGED closeVars
      PROVE  CloserOwnsRequest'
  BY <1>6 DEF PushSkips, ScopeInv, CloserOwnsRequest, eventVars, closeVars
<1>7. ASSUME NEW w \in Worker, Take(w), UNCHANGED closeVars PROVE CloserOwnsRequest'
  BY <1>7 DEF Take, ScopeInv, CloserOwnsRequest, eventVars, closeVars
<1>8. ASSUME NEW w \in Worker, NEW f \in Worker, Enter(w, f), UNCHANGED closeVars
      PROVE  CloserOwnsRequest'
  BY <1>8 DEF Enter, ScopeInv, CloserOwnsRequest, eventVars, closeVars
<1>9. ASSUME NEW w \in Worker, DropToken(w), UNCHANGED closeVars
      PROVE  CloserOwnsRequest'
  BY <1>9 DEF DropToken, ScopeInv, CloserOwnsRequest, eventVars, closeVars
<1>10. ASSUME NEW w \in Worker, SetMessage(w), UNCHANGED closeVars
      PROVE  CloserOwnsRequest'
  BY <1>10 DEF SetMessage, ScopeInv, CloserOwnsRequest, eventVars, closeVars
<1>11. ASSUME NEW w \in Worker, Touch(w), UNCHANGED closeVars PROVE CloserOwnsRequest'
  BY <1>11 DEF Touch, ScopeInv, CloserOwnsRequest, eventVars, closeVars
<1>12. ASSUME NEW w \in Worker, Mark(w), UNCHANGED closeVars PROVE CloserOwnsRequest'
  BY <1>12 DEF Mark, ScopeInv, CloserOwnsRequest, eventVars, closeVars
<1>13. ASSUME NEW w \in Worker, MarkFails(w), UNCHANGED closeVars
      PROVE  CloserOwnsRequest'
  BY <1>13 DEF MarkFails, ScopeInv, CloserOwnsRequest, eventVars, closeVars
<1>14. ASSUME NEW w \in Worker, HandlerSkips(w), UNCHANGED closeVars
      PROVE  CloserOwnsRequest'
  BY <1>14 DEF HandlerSkips, ScopeInv, CloserOwnsRequest, eventVars, closeVars
<1>15. ASSUME NEW w \in Worker, HandlerWrites(w), UNCHANGED closeVars
      PROVE  CloserOwnsRequest'
  BY <1>15 DEF HandlerWrites, ScopeInv, CloserOwnsRequest, eventVars, closeVars
<1>16. ASSUME NEW w \in Worker, NEW h \in Worker, HandlerFails(w, h), UNCHANGED closeVars
      PROVE  CloserOwnsRequest'
  BY <1>16 DEF HandlerFails, ScopeInv, CloserOwnsRequest, eventVars, closeVars
<1>17. ASSUME NEW w \in Worker, Finish(w), UNCHANGED closeVars PROVE CloserOwnsRequest'
  BY <1>17 DEF Finish, ScopeInv, CloserOwnsRequest, eventVars, closeVars
<1>18. ASSUME NEW w \in Worker, Resume(w), UNCHANGED closeVars PROVE CloserOwnsRequest'
  BY <1>18 DEF Resume, ScopeInv, CloserOwnsRequest, eventVars, closeVars
<1>19. ASSUME NEW w \in Worker, ResumeAction(w), UNCHANGED closeVars
      PROVE  CloserOwnsRequest'
  BY <1>19 DEF ResumeAction, ScopeInv, CloserOwnsRequest, eventVars, closeVars
<1>20. ASSUME NEW w \in Worker, ResumeLeave(w), UNCHANGED closeVars
      PROVE  CloserOwnsRequest'
  BY <1>20 DEF ResumeLeave, ScopeInv, CloserOwnsRequest, eventVars, closeVars
<1>21. ASSUME NEW r \in Resource, Suspend(r) PROVE CloserOwnsRequest'
  BY <1>21 DEF Suspend, ScopeInv, CloserOwnsRequest, TypeOK, EventTypeOK, CloserTypeOK,
     closeVars
<1>22. ASSUME NEW r \in Resource, Subscribe(r) PROVE CloserOwnsRequest'
  BY <1>22 DEF Subscribe, ScopeInv, CloserOwnsRequest, TypeOK, EventTypeOK,
     CloserTypeOK, closeVars
<1>23. ASSUME NEW r \in Resource, CheckSuspended(r) PROVE CloserOwnsRequest'
  BY <1>23 DEF CheckSuspended, ScopeInv, CloserOwnsRequest, TypeOK, EventTypeOK,
     CloserTypeOK, closeVars
<1>24. ASSUME NEW r \in Resource, PutAlive(r) PROVE CloserOwnsRequest'
  BY <1>24 DEF PutAlive, ScopeInv, CloserOwnsRequest, TypeOK, EventTypeOK, CloserTypeOK,
     closeVars
<1>25. ASSUME NEW c \in Closer, NEW r \in Resource, NEW kind \in Kind, Guard(c, r, kind)
      PROVE  CloserOwnsRequest'
  BY <1>25 DEF Guard, ScopeInv, CloserOwnsRequest, TypeOK, EventTypeOK, CloserTypeOK,
     chanVars, eventVars, CloserGoto
<1>26. ASSUME NEW c \in Closer, MarkClosed(c) PROVE CloserOwnsRequest'
  BY <1>26 DEF MarkClosed, ScopeInv, CloserOwnsRequest, TypeOK, EventTypeOK,
     CloserTypeOK, chanVars, eventVars, CloserGoto
<1>27. ASSUME NEW c \in Closer, Flag(c) PROVE CloserOwnsRequest'
  BY <1>27 DEF Flag, ScopeInv, CloserOwnsRequest, TypeOK, EventTypeOK, CloserTypeOK,
     chanVars, eventVars, CloserGoto
<1>28. ASSUME NEW c \in Closer, InvokeOutOfScope(c) PROVE CloserOwnsRequest'
  BY <1>28 DEF InvokeOutOfScope, ScopeInv, CloserOwnsRequest, TypeOK, EventTypeOK,
     CloserTypeOK, chanVars, eventVars, CloserGoto
<1>29. ASSUME NEW c \in Closer, InvokeSkips(c) PROVE CloserOwnsRequest'
  BY <1>29 DEF InvokeSkips, ScopeInv, CloserOwnsRequest, TypeOK, EventTypeOK,
     CloserTypeOK, chanVars, eventVars, CloserGoto
<1>30. ASSUME NEW c \in Closer, InvokeWrites(c) PROVE CloserOwnsRequest'
  BY <1>30 DEF InvokeWrites, ScopeInv, CloserOwnsRequest, TypeOK, EventTypeOK,
     CloserTypeOK, chanVars, eventVars, CloserGoto
<1>31. ASSUME NEW c \in Closer, Destroy(c) PROVE CloserOwnsRequest'
  BY <1>31 DEF Destroy, ScopeInv, CloserOwnsRequest, TypeOK, EventTypeOK, CloserTypeOK,
     chanVars, eventVars, CloserGoto
<1>32. ASSUME NEW c \in Closer, RemoveAll(c) PROVE CloserOwnsRequest'
  BY <1>32 DEF RemoveAll, ScopeInv, CloserOwnsRequest, TypeOK, EventTypeOK,
     CloserTypeOK, chanVars, eventVars, CloserGoto
<1>33. ASSUME NEW c \in Closer, LeaveScope(c) PROVE CloserOwnsRequest'
  BY <1>33 DEF LeaveScope, ScopeInv, CloserOwnsRequest, TypeOK, EventTypeOK,
     CloserTypeOK, chanVars, eventVars, CloserGoto
<1>34. ASSUME NEW c \in Closer, DestroyAgain(c) PROVE CloserOwnsRequest'
  BY <1>34 DEF DestroyAgain, ScopeInv, CloserOwnsRequest, TypeOK, EventTypeOK,
     CloserTypeOK, chanVars, eventVars, CloserGoto
<1>35. CASE UNCHANGED vars
  BY <1>35 DEF vars, chanVars, poolVars, eventVars, closeVars, ScopeInv,
     CloserOwnsRequest
<1> QED
  BY <1>1, <1>2, <1>3, <1>4, <1>5, <1>6, <1>7, <1>8, <1>9, <1>10, <1>11, <1>12, <1>13,
     <1>14, <1>15, <1>16, <1>17, <1>18, <1>19, <1>20, <1>21, <1>22, <1>23, <1>24, <1>25,
     <1>26, <1>27, <1>28, <1>29, <1>30, <1>31, <1>32, <1>33, <1>34, <1>35 DEF Next,
     Channel, Notifier, Pool, Request, Closing

\* A response on its way out of scope stays cancelled.
LEMMA CancelledStep ==
  ASSUME TypeOK, ScopeInv, [Next]_vars
  PROVE  CancelledBeforeScope'
<1>1. ASSUME NEW to \in Target \cup {All}, Broadcast(to), UNCHANGED closeVars
      PROVE  CancelledBeforeScope'
  BY <1>1 DEF Broadcast, ScopeInv, CancelledBeforeScope, CloserOwnsRequest, eventVars,
     closeVars
<1>2. ASSUME PushToNobody, UNCHANGED closeVars PROVE CancelledBeforeScope'
  BY <1>2 DEF PushToNobody, ScopeInv, CancelledBeforeScope, CloserOwnsRequest,
     eventVars, closeVars
<1>3. ASSUME PushEntry, UNCHANGED closeVars PROVE CancelledBeforeScope'
  BY <1>3 DEF PushEntry, ScopeInv, CancelledBeforeScope, CloserOwnsRequest, eventVars,
     closeVars
<1>4. ASSUME NEW r \in Resource, PushOne(r), UNCHANGED closeVars
      PROVE  CancelledBeforeScope'
  BY <1>4 DEF PushOne, ScopeInv, CancelledBeforeScope, CloserOwnsRequest, eventVars,
     closeVars
<1>5. ASSUME NEW r \in Resource, PushOutOfScope(r), UNCHANGED closeVars
      PROVE  CancelledBeforeScope'
  BY <1>5 DEF PushOutOfScope, ScopeInv, CancelledBeforeScope, CloserOwnsRequest,
     eventVars, closeVars
<1>6. ASSUME NEW r \in Resource, PushSkips(r), UNCHANGED closeVars
      PROVE  CancelledBeforeScope'
  BY <1>6 DEF PushSkips, ScopeInv, CancelledBeforeScope, CloserOwnsRequest, eventVars,
     closeVars
<1>7. ASSUME NEW w \in Worker, Take(w), UNCHANGED closeVars PROVE CancelledBeforeScope'
  BY <1>7 DEF Take, ScopeInv, CancelledBeforeScope, CloserOwnsRequest, eventVars,
     closeVars
<1>8. ASSUME NEW w \in Worker, NEW f \in Worker, Enter(w, f), UNCHANGED closeVars
      PROVE  CancelledBeforeScope'
  BY <1>8 DEF Enter, ScopeInv, CancelledBeforeScope, CloserOwnsRequest, eventVars,
     closeVars
<1>9. ASSUME NEW w \in Worker, DropToken(w), UNCHANGED closeVars
      PROVE  CancelledBeforeScope'
  BY <1>9 DEF DropToken, ScopeInv, CancelledBeforeScope, CloserOwnsRequest, eventVars,
     closeVars
<1>10. ASSUME NEW w \in Worker, SetMessage(w), UNCHANGED closeVars
      PROVE  CancelledBeforeScope'
  BY <1>10 DEF SetMessage, ScopeInv, CancelledBeforeScope, CloserOwnsRequest, eventVars,
     closeVars
<1>11. ASSUME NEW w \in Worker, Touch(w), UNCHANGED closeVars
      PROVE  CancelledBeforeScope'
  BY <1>11 DEF Touch, ScopeInv, CancelledBeforeScope, CloserOwnsRequest, eventVars,
     closeVars
<1>12. ASSUME NEW w \in Worker, Mark(w), UNCHANGED closeVars PROVE CancelledBeforeScope'
  BY <1>12 DEF Mark, ScopeInv, CancelledBeforeScope, CloserOwnsRequest, eventVars,
     closeVars
<1>13. ASSUME NEW w \in Worker, MarkFails(w), UNCHANGED closeVars
      PROVE  CancelledBeforeScope'
  BY <1>13 DEF MarkFails, ScopeInv, CancelledBeforeScope, CloserOwnsRequest, eventVars,
     closeVars
<1>14. ASSUME NEW w \in Worker, HandlerSkips(w), UNCHANGED closeVars
      PROVE  CancelledBeforeScope'
  BY <1>14 DEF HandlerSkips, ScopeInv, CancelledBeforeScope, CloserOwnsRequest,
     eventVars, closeVars
<1>15. ASSUME NEW w \in Worker, HandlerWrites(w), UNCHANGED closeVars
      PROVE  CancelledBeforeScope'
  BY <1>15 DEF HandlerWrites, ScopeInv, CancelledBeforeScope, CloserOwnsRequest,
     eventVars, closeVars
<1>16. ASSUME NEW w \in Worker, NEW h \in Worker, HandlerFails(w, h), UNCHANGED closeVars
      PROVE  CancelledBeforeScope'
  BY <1>16 DEF HandlerFails, ScopeInv, CancelledBeforeScope, CloserOwnsRequest,
     eventVars, closeVars
<1>17. ASSUME NEW w \in Worker, Finish(w), UNCHANGED closeVars
      PROVE  CancelledBeforeScope'
  BY <1>17 DEF Finish, ScopeInv, CancelledBeforeScope, CloserOwnsRequest, eventVars,
     closeVars
<1>18. ASSUME NEW w \in Worker, Resume(w), UNCHANGED closeVars
      PROVE  CancelledBeforeScope'
  BY <1>18 DEF Resume, ScopeInv, CancelledBeforeScope, CloserOwnsRequest, eventVars,
     closeVars
<1>19. ASSUME NEW w \in Worker, ResumeAction(w), UNCHANGED closeVars
      PROVE  CancelledBeforeScope'
  BY <1>19 DEF ResumeAction, ScopeInv, CancelledBeforeScope, CloserOwnsRequest,
     eventVars, closeVars
<1>20. ASSUME NEW w \in Worker, ResumeLeave(w), UNCHANGED closeVars
      PROVE  CancelledBeforeScope'
  BY <1>20 DEF ResumeLeave, ScopeInv, CancelledBeforeScope, CloserOwnsRequest,
     eventVars, closeVars
<1>21. ASSUME NEW r \in Resource, Suspend(r) PROVE CancelledBeforeScope'
  BY <1>21 DEF Suspend, ScopeInv, CancelledBeforeScope, CloserOwnsRequest, TypeOK,
     EventTypeOK, CloserTypeOK, closeVars
<1>22. ASSUME NEW r \in Resource, Subscribe(r) PROVE CancelledBeforeScope'
  BY <1>22 DEF Subscribe, ScopeInv, CancelledBeforeScope, CloserOwnsRequest, TypeOK,
     EventTypeOK, CloserTypeOK, closeVars
<1>23. ASSUME NEW r \in Resource, CheckSuspended(r) PROVE CancelledBeforeScope'
  BY <1>23 DEF CheckSuspended, ScopeInv, CancelledBeforeScope, CloserOwnsRequest,
     TypeOK, EventTypeOK, CloserTypeOK, closeVars
<1>24. ASSUME NEW r \in Resource, PutAlive(r) PROVE CancelledBeforeScope'
  BY <1>24 DEF PutAlive, ScopeInv, CancelledBeforeScope, CloserOwnsRequest, TypeOK,
     EventTypeOK, CloserTypeOK, closeVars
<1>25. ASSUME NEW c \in Closer, NEW r \in Resource, NEW kind \in Kind, Guard(c, r, kind)
      PROVE  CancelledBeforeScope'
  BY <1>25 DEF Guard, ScopeInv, CancelledBeforeScope, CloserOwnsRequest, TypeOK,
     EventTypeOK, CloserTypeOK, chanVars, eventVars, CloserGoto, CloserPC, Kind
<1>26. ASSUME NEW c \in Closer, MarkClosed(c) PROVE CancelledBeforeScope'
  BY <1>26 DEF MarkClosed, ScopeInv, CancelledBeforeScope, CloserOwnsRequest, TypeOK,
     EventTypeOK, CloserTypeOK, chanVars, eventVars, CloserGoto, CloserPC, Kind
<1>27. ASSUME NEW c \in Closer, Flag(c) PROVE CancelledBeforeScope'
  BY <1>27 DEF Flag, ScopeInv, CancelledBeforeScope, CloserOwnsRequest, TypeOK,
     EventTypeOK, CloserTypeOK, chanVars, eventVars, CloserGoto, CloserPC, Kind
<1>28. ASSUME NEW c \in Closer, InvokeOutOfScope(c) PROVE CancelledBeforeScope'
  BY <1>28 DEF InvokeOutOfScope, ScopeInv, CancelledBeforeScope, CloserOwnsRequest,
     TypeOK, EventTypeOK, CloserTypeOK, chanVars, eventVars, CloserGoto, CloserPC, Kind
<1>29. ASSUME NEW c \in Closer, InvokeSkips(c) PROVE CancelledBeforeScope'
  BY <1>29 DEF InvokeSkips, ScopeInv, CancelledBeforeScope, CloserOwnsRequest, TypeOK,
     EventTypeOK, CloserTypeOK, chanVars, eventVars, CloserGoto, CloserPC, Kind
<1>30. ASSUME NEW c \in Closer, InvokeWrites(c) PROVE CancelledBeforeScope'
  BY <1>30 DEF InvokeWrites, ScopeInv, CancelledBeforeScope, CloserOwnsRequest, TypeOK,
     EventTypeOK, CloserTypeOK, chanVars, eventVars, CloserGoto, CloserPC, Kind
<1>31. ASSUME NEW c \in Closer, Destroy(c) PROVE CancelledBeforeScope'
  BY <1>31 DEF Destroy, ScopeInv, CancelledBeforeScope, CloserOwnsRequest, TypeOK,
     EventTypeOK, CloserTypeOK, chanVars, eventVars, CloserGoto, CloserPC, Kind
<1>32. ASSUME NEW c \in Closer, RemoveAll(c) PROVE CancelledBeforeScope'
  BY <1>32 DEF RemoveAll, ScopeInv, CancelledBeforeScope, CloserOwnsRequest, TypeOK,
     EventTypeOK, CloserTypeOK, chanVars, eventVars, CloserGoto, CloserPC, Kind
<1>33. ASSUME NEW c \in Closer, LeaveScope(c) PROVE CancelledBeforeScope'
  BY <1>33 DEF LeaveScope, ScopeInv, CancelledBeforeScope, CloserOwnsRequest, TypeOK,
     EventTypeOK, CloserTypeOK, chanVars, eventVars, CloserGoto, CloserPC, Kind
<1>34. ASSUME NEW c \in Closer, DestroyAgain(c) PROVE CancelledBeforeScope'
  BY <1>34 DEF DestroyAgain, ScopeInv, CancelledBeforeScope, CloserOwnsRequest, TypeOK,
     EventTypeOK, CloserTypeOK, chanVars, eventVars, CloserGoto, CloserPC, Kind
<1>35. CASE UNCHANGED vars
  BY <1>35 DEF vars, chanVars, poolVars, eventVars, closeVars, ScopeInv,
     CancelledBeforeScope, CloserOwnsRequest
<1> QED
  BY <1>1, <1>2, <1>3, <1>4, <1>5, <1>6, <1>7, <1>8, <1>9, <1>10, <1>11, <1>12, <1>13,
     <1>14, <1>15, <1>16, <1>17, <1>18, <1>19, <1>20, <1>21, <1>22, <1>23, <1>24, <1>25,
     <1>26, <1>27, <1>28, <1>29, <1>30, <1>31, <1>32, <1>33, <1>34, <1>35 DEF Next,
     Channel, Notifier, Pool, Request, Closing

\* A closing thread enters its last phase when no writer is at work on the
\* response, and since it is cancelled none starts to work on it after that.
LEMMA BarrierStep ==
  ASSUME TypeOK, WriterOwnsMonitor, ScopeInv, [Next]_vars
  PROVE  BarrierPassed'
<1>1. ASSUME NEW to \in Target \cup {All}, Broadcast(to), UNCHANGED closeVars
      PROVE  BarrierPassed'
  BY <1>1 DEF Broadcast, ScopeInv, BarrierPassed, CancelledBeforeScope, Past,
     WriterOwnsMonitor, Inside, TypeOK, PoolTypeOK, closeVars, Goto, Exit
<1>2. ASSUME PushToNobody, UNCHANGED closeVars PROVE BarrierPassed'
  BY <1>2 DEF PushToNobody, ScopeInv, BarrierPassed, CancelledBeforeScope, Past,
     WriterOwnsMonitor, Inside, poolVars, closeVars
<1>3. ASSUME PushEntry, UNCHANGED closeVars PROVE BarrierPassed'
  BY <1>3 DEF PushEntry, ScopeInv, BarrierPassed, CancelledBeforeScope, Past,
     WriterOwnsMonitor, Inside, poolVars, closeVars
<1>4. ASSUME NEW r \in Resource, PushOne(r), UNCHANGED closeVars PROVE BarrierPassed'
  BY <1>4 DEF PushOne, ScopeInv, BarrierPassed, CancelledBeforeScope, Past,
     WriterOwnsMonitor, Inside, poolVars, closeVars
<1>5. ASSUME NEW r \in Resource, PushOutOfScope(r), UNCHANGED closeVars
      PROVE  BarrierPassed'
  BY <1>5 DEF PushOutOfScope, ScopeInv, BarrierPassed, CancelledBeforeScope, Past,
     WriterOwnsMonitor, Inside, poolVars, closeVars
<1>6. ASSUME NEW r \in Resource, PushSkips(r), UNCHANGED closeVars PROVE BarrierPassed'
  BY <1>6 DEF PushSkips, ScopeInv, BarrierPassed, CancelledBeforeScope, Past,
     WriterOwnsMonitor, Inside, poolVars, closeVars
<1>7. ASSUME NEW w \in Worker, Take(w), UNCHANGED closeVars PROVE BarrierPassed'
  BY <1>7 DEF Take, ScopeInv, BarrierPassed, CancelledBeforeScope, Past,
     WriterOwnsMonitor, Inside, TypeOK, PoolTypeOK, closeVars, Goto, Exit
<1>8. ASSUME NEW w \in Worker, NEW f \in Worker, Enter(w, f), UNCHANGED closeVars
      PROVE  BarrierPassed'
  BY <1>8 DEF Enter, ScopeInv, BarrierPassed, CancelledBeforeScope, Past,
     WriterOwnsMonitor, Inside, TypeOK, PoolTypeOK, closeVars, Goto, Exit
<1>9. ASSUME NEW w \in Worker, DropToken(w), UNCHANGED closeVars PROVE BarrierPassed'
  BY <1>9 DEF DropToken, ScopeInv, BarrierPassed, CancelledBeforeScope, Past,
     WriterOwnsMonitor, Inside, TypeOK, PoolTypeOK, closeVars, Goto, Exit
<1>10. ASSUME NEW w \in Worker, SetMessage(w), UNCHANGED closeVars PROVE BarrierPassed'
  BY <1>10 DEF SetMessage, ScopeInv, BarrierPassed, CancelledBeforeScope, Past,
     WriterOwnsMonitor, Inside, TypeOK, PoolTypeOK, closeVars, Goto, Exit
<1>11. ASSUME NEW w \in Worker, Touch(w), UNCHANGED closeVars PROVE BarrierPassed'
  BY <1>11 DEF Touch, ScopeInv, BarrierPassed, CancelledBeforeScope, Past,
     WriterOwnsMonitor, Inside, TypeOK, PoolTypeOK, closeVars, Goto, Exit
<1>12. ASSUME NEW w \in Worker, Mark(w), UNCHANGED closeVars PROVE BarrierPassed'
  BY <1>12 DEF Mark, ScopeInv, BarrierPassed, CancelledBeforeScope, Past,
     WriterOwnsMonitor, Inside, TypeOK, PoolTypeOK, closeVars, Goto, Exit
<1>13. ASSUME NEW w \in Worker, MarkFails(w), UNCHANGED closeVars PROVE BarrierPassed'
  BY <1>13 DEF MarkFails, ScopeInv, BarrierPassed, CancelledBeforeScope, Past,
     WriterOwnsMonitor, Inside, TypeOK, PoolTypeOK, closeVars, Goto, Exit
<1>14. ASSUME NEW w \in Worker, HandlerSkips(w), UNCHANGED closeVars
      PROVE  BarrierPassed'
  BY <1>14 DEF HandlerSkips, ScopeInv, BarrierPassed, CancelledBeforeScope, Past,
     WriterOwnsMonitor, Inside, TypeOK, PoolTypeOK, closeVars, Goto, Exit
<1>15. ASSUME NEW w \in Worker, HandlerWrites(w), UNCHANGED closeVars
      PROVE  BarrierPassed'
  BY <1>15 DEF HandlerWrites, ScopeInv, BarrierPassed, CancelledBeforeScope, Past,
     WriterOwnsMonitor, Inside, TypeOK, PoolTypeOK, closeVars, Goto, Exit
<1>16. ASSUME NEW w \in Worker, NEW h \in Worker, HandlerFails(w, h), UNCHANGED closeVars
      PROVE  BarrierPassed'
  BY <1>16 DEF HandlerFails, ScopeInv, BarrierPassed, CancelledBeforeScope, Past,
     WriterOwnsMonitor, Inside, TypeOK, PoolTypeOK, closeVars, Goto, Exit
<1>17. ASSUME NEW w \in Worker, Finish(w), UNCHANGED closeVars PROVE BarrierPassed'
  BY <1>17 DEF Finish, ScopeInv, BarrierPassed, CancelledBeforeScope, Past,
     WriterOwnsMonitor, Inside, TypeOK, PoolTypeOK, closeVars, Goto, Exit
<1>18. ASSUME NEW w \in Worker, Resume(w), UNCHANGED closeVars PROVE BarrierPassed'
  BY <1>18 DEF Resume, ScopeInv, BarrierPassed, CancelledBeforeScope, Past,
     WriterOwnsMonitor, Inside, TypeOK, PoolTypeOK, closeVars, Goto, Exit
<1>19. ASSUME NEW w \in Worker, ResumeAction(w), UNCHANGED closeVars
      PROVE  BarrierPassed'
  BY <1>19 DEF ResumeAction, ScopeInv, BarrierPassed, CancelledBeforeScope, Past,
     WriterOwnsMonitor, Inside, TypeOK, PoolTypeOK, closeVars, Goto, Exit
<1>20. ASSUME NEW w \in Worker, ResumeLeave(w), UNCHANGED closeVars PROVE BarrierPassed'
  BY <1>20 DEF ResumeLeave, ScopeInv, BarrierPassed, CancelledBeforeScope, Past,
     WriterOwnsMonitor, Inside, TypeOK, PoolTypeOK, closeVars, Goto, Exit
<1>21. ASSUME NEW r \in Resource, Suspend(r) PROVE BarrierPassed'
  BY <1>21 DEF Suspend, ScopeInv, BarrierPassed, CancelledBeforeScope, Past,
     WriterOwnsMonitor, Inside, poolVars, closeVars
<1>22. ASSUME NEW r \in Resource, Subscribe(r) PROVE BarrierPassed'
  BY <1>22 DEF Subscribe, ScopeInv, BarrierPassed, CancelledBeforeScope, Past,
     WriterOwnsMonitor, Inside, poolVars, closeVars
<1>23. ASSUME NEW r \in Resource, CheckSuspended(r) PROVE BarrierPassed'
  BY <1>23 DEF CheckSuspended, ScopeInv, BarrierPassed, CancelledBeforeScope, Past,
     WriterOwnsMonitor, Inside, poolVars, closeVars
<1>24. ASSUME NEW r \in Resource, PutAlive(r) PROVE BarrierPassed'
  BY <1>24 DEF PutAlive, ScopeInv, BarrierPassed, CancelledBeforeScope, Past,
     WriterOwnsMonitor, Inside, poolVars, closeVars
<1>25. ASSUME NEW c \in Closer, NEW r \in Resource, NEW kind \in Kind, Guard(c, r, kind)
      PROVE  BarrierPassed'
  BY <1>25, ChannelAssumption DEF Guard, ScopeInv, BarrierPassed, CancelledBeforeScope,
     Past, WriterOwnsMonitor, Inside, TypeOK, PoolTypeOK, CloserTypeOK, chanVars,
     poolVars, CloserGoto, CloserPC, Kind
<1>26. ASSUME NEW c \in Closer, MarkClosed(c) PROVE BarrierPassed'
  BY <1>26, ChannelAssumption DEF MarkClosed, ScopeInv, BarrierPassed,
     CancelledBeforeScope, Past, WriterOwnsMonitor, Inside, TypeOK, PoolTypeOK,
     CloserTypeOK, chanVars, poolVars, CloserGoto, CloserPC, Kind
<1>27. ASSUME NEW c \in Closer, Flag(c) PROVE BarrierPassed'
  BY <1>27, ChannelAssumption DEF Flag, ScopeInv, BarrierPassed, CancelledBeforeScope,
     Past, WriterOwnsMonitor, Inside, TypeOK, PoolTypeOK, CloserTypeOK, chanVars,
     poolVars, CloserGoto, CloserPC, Kind
<1>28. ASSUME NEW c \in Closer, InvokeOutOfScope(c) PROVE BarrierPassed'
  BY <1>28, ChannelAssumption DEF InvokeOutOfScope, ScopeInv, BarrierPassed,
     CancelledBeforeScope, Past, WriterOwnsMonitor, Inside, TypeOK, PoolTypeOK,
     CloserTypeOK, chanVars, poolVars, CloserGoto, CloserPC, Kind
<1>29. ASSUME NEW c \in Closer, InvokeSkips(c) PROVE BarrierPassed'
  BY <1>29, ChannelAssumption DEF InvokeSkips, ScopeInv, BarrierPassed,
     CancelledBeforeScope, Past, WriterOwnsMonitor, Inside, TypeOK, PoolTypeOK,
     CloserTypeOK, chanVars, poolVars, CloserGoto, CloserPC, Kind
<1>30. ASSUME NEW c \in Closer, InvokeWrites(c) PROVE BarrierPassed'
  BY <1>30, ChannelAssumption DEF InvokeWrites, ScopeInv, BarrierPassed,
     CancelledBeforeScope, Past, WriterOwnsMonitor, Inside, TypeOK, PoolTypeOK,
     CloserTypeOK, chanVars, poolVars, CloserGoto, CloserPC, Kind
<1>31. ASSUME NEW c \in Closer, Destroy(c) PROVE BarrierPassed'
  BY <1>31, ChannelAssumption DEF Destroy, ScopeInv, BarrierPassed,
     CancelledBeforeScope, Past, WriterOwnsMonitor, Inside, TypeOK, PoolTypeOK,
     CloserTypeOK, chanVars, poolVars, CloserGoto, CloserPC, Kind
<1>32. ASSUME NEW c \in Closer, RemoveAll(c) PROVE BarrierPassed'
  BY <1>32, ChannelAssumption DEF RemoveAll, ScopeInv, BarrierPassed,
     CancelledBeforeScope, Past, WriterOwnsMonitor, Inside, TypeOK, PoolTypeOK,
     CloserTypeOK, chanVars, poolVars, CloserGoto, CloserPC, Kind
<1>33. ASSUME NEW c \in Closer, LeaveScope(c) PROVE BarrierPassed'
  BY <1>33, ChannelAssumption DEF LeaveScope, ScopeInv, BarrierPassed,
     CancelledBeforeScope, Past, WriterOwnsMonitor, Inside, TypeOK, PoolTypeOK,
     CloserTypeOK, chanVars, poolVars, CloserGoto, CloserPC, Kind
<1>34. ASSUME NEW c \in Closer, DestroyAgain(c) PROVE BarrierPassed'
  BY <1>34, ChannelAssumption DEF DestroyAgain, ScopeInv, BarrierPassed,
     CancelledBeforeScope, Past, WriterOwnsMonitor, Inside, TypeOK, PoolTypeOK,
     CloserTypeOK, chanVars, poolVars, CloserGoto, CloserPC, Kind
<1>35. CASE UNCHANGED vars
  BY <1>35 DEF vars, chanVars, poolVars, eventVars, closeVars, ScopeInv, BarrierPassed,
     CancelledBeforeScope, Past, WriterOwnsMonitor, Inside
<1> QED
  BY <1>1, <1>2, <1>3, <1>4, <1>5, <1>6, <1>7, <1>8, <1>9, <1>10, <1>11, <1>12, <1>13,
     <1>14, <1>15, <1>16, <1>17, <1>18, <1>19, <1>20, <1>21, <1>22, <1>23, <1>24, <1>25,
     <1>26, <1>27, <1>28, <1>29, <1>30, <1>31, <1>32, <1>33, <1>34, <1>35 DEF Next,
     Channel, Notifier, Pool, Request, Closing

\* No step takes a response out of scope while it is written to.
LEMMA InScopeStep ==
  ASSUME TypeOK, ScopeInv, [Next]_vars
  PROVE  InScopeWhileWriting'
<1>1. ASSUME NEW to \in Target \cup {All}, Broadcast(to), UNCHANGED closeVars
      PROVE  InScopeWhileWriting'
  BY <1>1 DEF Broadcast, ScopeInv, InScopeWhileWriting, CancelledBeforeScope,
     BarrierPassed, Past, TypeOK, PoolTypeOK, EventTypeOK, eventVars, Goto, Exit
<1>2. ASSUME PushToNobody, UNCHANGED closeVars PROVE InScopeWhileWriting'
  BY <1>2 DEF PushToNobody, ScopeInv, InScopeWhileWriting, CancelledBeforeScope,
     BarrierPassed, Past, poolVars, eventVars
<1>3. ASSUME PushEntry, UNCHANGED closeVars PROVE InScopeWhileWriting'
  BY <1>3 DEF PushEntry, ScopeInv, InScopeWhileWriting, CancelledBeforeScope,
     BarrierPassed, Past, poolVars, eventVars
<1>4. ASSUME NEW r \in Resource, PushOne(r), UNCHANGED closeVars
      PROVE  InScopeWhileWriting'
  BY <1>4 DEF PushOne, ScopeInv, InScopeWhileWriting, CancelledBeforeScope,
     BarrierPassed, Past, poolVars, eventVars
<1>5. ASSUME NEW r \in Resource, PushOutOfScope(r), UNCHANGED closeVars
      PROVE  InScopeWhileWriting'
  BY <1>5 DEF PushOutOfScope, ScopeInv, InScopeWhileWriting, CancelledBeforeScope,
     BarrierPassed, Past, poolVars, eventVars
<1>6. ASSUME NEW r \in Resource, PushSkips(r), UNCHANGED closeVars
      PROVE  InScopeWhileWriting'
  BY <1>6 DEF PushSkips, ScopeInv, InScopeWhileWriting, CancelledBeforeScope,
     BarrierPassed, Past, poolVars, eventVars
<1>7. ASSUME NEW w \in Worker, Take(w), UNCHANGED closeVars PROVE InScopeWhileWriting'
  BY <1>7 DEF Take, ScopeInv, InScopeWhileWriting, CancelledBeforeScope, BarrierPassed,
     Past, TypeOK, PoolTypeOK, EventTypeOK, eventVars, Goto, Exit
<1>8. ASSUME NEW w \in Worker, NEW f \in Worker, Enter(w, f), UNCHANGED closeVars
      PROVE  InScopeWhileWriting'
  BY <1>8 DEF Enter, ScopeInv, InScopeWhileWriting, CancelledBeforeScope, BarrierPassed,
     Past, TypeOK, PoolTypeOK, EventTypeOK, eventVars, Goto, Exit
<1>9. ASSUME NEW w \in Worker, DropToken(w), UNCHANGED closeVars
      PROVE  InScopeWhileWriting'
  BY <1>9 DEF DropToken, ScopeInv, InScopeWhileWriting, CancelledBeforeScope,
     BarrierPassed, Past, TypeOK, PoolTypeOK, EventTypeOK, eventVars, Goto, Exit
<1>10. ASSUME NEW w \in Worker, SetMessage(w), UNCHANGED closeVars
      PROVE  InScopeWhileWriting'
  BY <1>10 DEF SetMessage, ScopeInv, InScopeWhileWriting, CancelledBeforeScope,
     BarrierPassed, Past, TypeOK, PoolTypeOK, EventTypeOK, eventVars, Goto, Exit
<1>11. ASSUME NEW w \in Worker, Touch(w), UNCHANGED closeVars PROVE InScopeWhileWriting'
  BY <1>11 DEF Touch, ScopeInv, InScopeWhileWriting, CancelledBeforeScope,
     BarrierPassed, Past, TypeOK, PoolTypeOK, EventTypeOK, eventVars, Goto, Exit
<1>12. ASSUME NEW w \in Worker, Mark(w), UNCHANGED closeVars PROVE InScopeWhileWriting'
  BY <1>12 DEF Mark, ScopeInv, InScopeWhileWriting, CancelledBeforeScope, BarrierPassed,
     Past, TypeOK, PoolTypeOK, EventTypeOK, eventVars, Goto, Exit
<1>13. ASSUME NEW w \in Worker, MarkFails(w), UNCHANGED closeVars
      PROVE  InScopeWhileWriting'
  BY <1>13 DEF MarkFails, ScopeInv, InScopeWhileWriting, CancelledBeforeScope,
     BarrierPassed, Past, TypeOK, PoolTypeOK, EventTypeOK, eventVars, Goto, Exit
<1>14. ASSUME NEW w \in Worker, HandlerSkips(w), UNCHANGED closeVars
      PROVE  InScopeWhileWriting'
  BY <1>14 DEF HandlerSkips, ScopeInv, InScopeWhileWriting, CancelledBeforeScope,
     BarrierPassed, Past, TypeOK, PoolTypeOK, EventTypeOK, eventVars, Goto, Exit
<1>15. ASSUME NEW w \in Worker, HandlerWrites(w), UNCHANGED closeVars
      PROVE  InScopeWhileWriting'
  BY <1>15 DEF HandlerWrites, ScopeInv, InScopeWhileWriting, CancelledBeforeScope,
     BarrierPassed, Past, TypeOK, PoolTypeOK, EventTypeOK, eventVars, Goto, Exit
<1>16. ASSUME NEW w \in Worker, NEW h \in Worker, HandlerFails(w, h), UNCHANGED closeVars
      PROVE  InScopeWhileWriting'
  BY <1>16 DEF HandlerFails, ScopeInv, InScopeWhileWriting, CancelledBeforeScope,
     BarrierPassed, Past, TypeOK, PoolTypeOK, EventTypeOK, eventVars, Goto, Exit
<1>17. ASSUME NEW w \in Worker, Finish(w), UNCHANGED closeVars
      PROVE  InScopeWhileWriting'
  BY <1>17 DEF Finish, ScopeInv, InScopeWhileWriting, CancelledBeforeScope,
     BarrierPassed, Past, TypeOK, PoolTypeOK, EventTypeOK, eventVars, Goto, Exit
<1>18. ASSUME NEW w \in Worker, Resume(w), UNCHANGED closeVars
      PROVE  InScopeWhileWriting'
  BY <1>18 DEF Resume, ScopeInv, InScopeWhileWriting, CancelledBeforeScope,
     BarrierPassed, Past, TypeOK, PoolTypeOK, EventTypeOK, eventVars, Goto, Exit
<1>19. ASSUME NEW w \in Worker, ResumeAction(w), UNCHANGED closeVars
      PROVE  InScopeWhileWriting'
  BY <1>19 DEF ResumeAction, ScopeInv, InScopeWhileWriting, CancelledBeforeScope,
     BarrierPassed, Past, TypeOK, PoolTypeOK, EventTypeOK, eventVars, Goto, Exit
<1>20. ASSUME NEW w \in Worker, ResumeLeave(w), UNCHANGED closeVars
      PROVE  InScopeWhileWriting'
  BY <1>20 DEF ResumeLeave, ScopeInv, InScopeWhileWriting, CancelledBeforeScope,
     BarrierPassed, Past, TypeOK, PoolTypeOK, EventTypeOK, eventVars, Goto, Exit
<1>21. ASSUME NEW r \in Resource, Suspend(r) PROVE InScopeWhileWriting'
  BY <1>21 DEF Suspend, ScopeInv, InScopeWhileWriting, CancelledBeforeScope,
     BarrierPassed, Past, poolVars, eventVars
<1>22. ASSUME NEW r \in Resource, Subscribe(r) PROVE InScopeWhileWriting'
  BY <1>22 DEF Subscribe, ScopeInv, InScopeWhileWriting, CancelledBeforeScope,
     BarrierPassed, Past, poolVars, eventVars
<1>23. ASSUME NEW r \in Resource, CheckSuspended(r) PROVE InScopeWhileWriting'
  BY <1>23 DEF CheckSuspended, ScopeInv, InScopeWhileWriting, CancelledBeforeScope,
     BarrierPassed, Past, poolVars, eventVars
<1>24. ASSUME NEW r \in Resource, PutAlive(r) PROVE InScopeWhileWriting'
  BY <1>24 DEF PutAlive, ScopeInv, InScopeWhileWriting, CancelledBeforeScope,
     BarrierPassed, Past, poolVars, eventVars
<1>25. ASSUME NEW c \in Closer, NEW r \in Resource, NEW kind \in Kind, Guard(c, r, kind)
      PROVE  InScopeWhileWriting'
  BY <1>25 DEF Guard, ScopeInv, InScopeWhileWriting, CancelledBeforeScope,
     BarrierPassed, Past, TypeOK, PoolTypeOK, EventTypeOK, CloserTypeOK, chanVars,
     poolVars, eventVars, CloserGoto
<1>26. ASSUME NEW c \in Closer, MarkClosed(c) PROVE InScopeWhileWriting'
  BY <1>26 DEF MarkClosed, ScopeInv, InScopeWhileWriting, CancelledBeforeScope,
     BarrierPassed, Past, TypeOK, PoolTypeOK, EventTypeOK, CloserTypeOK, chanVars,
     poolVars, eventVars, CloserGoto
<1>27. ASSUME NEW c \in Closer, Flag(c) PROVE InScopeWhileWriting'
  BY <1>27 DEF Flag, ScopeInv, InScopeWhileWriting, CancelledBeforeScope, BarrierPassed,
     Past, TypeOK, PoolTypeOK, EventTypeOK, CloserTypeOK, chanVars, poolVars, eventVars,
     CloserGoto
<1>28. ASSUME NEW c \in Closer, InvokeOutOfScope(c) PROVE InScopeWhileWriting'
  BY <1>28 DEF InvokeOutOfScope, ScopeInv, InScopeWhileWriting, CancelledBeforeScope,
     BarrierPassed, Past, TypeOK, PoolTypeOK, EventTypeOK, CloserTypeOK, chanVars,
     poolVars, eventVars, CloserGoto
<1>29. ASSUME NEW c \in Closer, InvokeSkips(c) PROVE InScopeWhileWriting'
  BY <1>29 DEF InvokeSkips, ScopeInv, InScopeWhileWriting, CancelledBeforeScope,
     BarrierPassed, Past, TypeOK, PoolTypeOK, EventTypeOK, CloserTypeOK, chanVars,
     poolVars, eventVars, CloserGoto
<1>30. ASSUME NEW c \in Closer, InvokeWrites(c) PROVE InScopeWhileWriting'
  BY <1>30 DEF InvokeWrites, ScopeInv, InScopeWhileWriting, CancelledBeforeScope,
     BarrierPassed, Past, TypeOK, PoolTypeOK, EventTypeOK, CloserTypeOK, chanVars,
     poolVars, eventVars, CloserGoto
<1>31. ASSUME NEW c \in Closer, Destroy(c) PROVE InScopeWhileWriting'
  BY <1>31 DEF Destroy, ScopeInv, InScopeWhileWriting, CancelledBeforeScope,
     BarrierPassed, Past, TypeOK, PoolTypeOK, EventTypeOK, CloserTypeOK, chanVars,
     poolVars, eventVars, CloserGoto
<1>32. ASSUME NEW c \in Closer, RemoveAll(c) PROVE InScopeWhileWriting'
  BY <1>32 DEF RemoveAll, ScopeInv, InScopeWhileWriting, CancelledBeforeScope,
     BarrierPassed, Past, TypeOK, PoolTypeOK, EventTypeOK, CloserTypeOK, chanVars,
     poolVars, eventVars, CloserGoto
<1>33. ASSUME NEW c \in Closer, LeaveScope(c) PROVE InScopeWhileWriting'
  BY <1>33 DEF LeaveScope, ScopeInv, InScopeWhileWriting, CancelledBeforeScope,
     BarrierPassed, Past, TypeOK, PoolTypeOK, EventTypeOK, CloserTypeOK, chanVars,
     poolVars, eventVars, CloserGoto
<1>34. ASSUME NEW c \in Closer, DestroyAgain(c) PROVE InScopeWhileWriting'
  BY <1>34 DEF DestroyAgain, ScopeInv, InScopeWhileWriting, CancelledBeforeScope,
     BarrierPassed, Past, TypeOK, PoolTypeOK, EventTypeOK, CloserTypeOK, chanVars,
     poolVars, eventVars, CloserGoto
<1>35. CASE UNCHANGED vars
  BY <1>35 DEF vars, chanVars, poolVars, eventVars, closeVars, ScopeInv,
     InScopeWhileWriting, CancelledBeforeScope, BarrierPassed, Past
<1> QED
  BY <1>1, <1>2, <1>3, <1>4, <1>5, <1>6, <1>7, <1>8, <1>9, <1>10, <1>11, <1>12, <1>13,
     <1>14, <1>15, <1>16, <1>17, <1>18, <1>19, <1>20, <1>21, <1>22, <1>23, <1>24, <1>25,
     <1>26, <1>27, <1>28, <1>29, <1>30, <1>31, <1>32, <1>33, <1>34, <1>35 DEF Next,
     Channel, Notifier, Pool, Request, Closing

\* No step registers a response again that is being closed.
LEMMA RemovedStep ==
  ASSUME TypeOK, ScopeInv, ForgottenInv, [Next]_vars
  PROVE  RemovedStaysRemoved'
<1>1. ASSUME NEW to \in Target \cup {All}, Broadcast(to), UNCHANGED closeVars
      PROVE  RemovedStaysRemoved'
  BY <1>1 DEF Broadcast, ForgottenInv, RemovedStaysRemoved, OutOfScopeIsForgotten,
     ScopeInv, CloserOwnsRequest, CancelledBeforeScope, registryVars, closeVars
<1>2. ASSUME PushToNobody, UNCHANGED closeVars PROVE RemovedStaysRemoved'
  BY <1>2 DEF PushToNobody, ForgottenInv, RemovedStaysRemoved, OutOfScopeIsForgotten,
     ScopeInv, CloserOwnsRequest, CancelledBeforeScope, registryVars, closeVars
<1>3. ASSUME PushEntry, UNCHANGED closeVars PROVE RemovedStaysRemoved'
  BY <1>3 DEF PushEntry, ForgottenInv, RemovedStaysRemoved, OutOfScopeIsForgotten,
     ScopeInv, CloserOwnsRequest, CancelledBeforeScope, registryVars, closeVars
<1>4. ASSUME NEW r \in Resource, PushOne(r), UNCHANGED closeVars
      PROVE  RemovedStaysRemoved'
  BY <1>4 DEF PushOne, ForgottenInv, RemovedStaysRemoved, OutOfScopeIsForgotten,
     ScopeInv, CloserOwnsRequest, CancelledBeforeScope, registryVars, closeVars
<1>5. ASSUME NEW r \in Resource, PushOutOfScope(r), UNCHANGED closeVars
      PROVE  RemovedStaysRemoved'
  BY <1>5 DEF PushOutOfScope, ForgottenInv, RemovedStaysRemoved, OutOfScopeIsForgotten,
     ScopeInv, CloserOwnsRequest, CancelledBeforeScope, TypeOK, OutTypeOK, PoolTypeOK,
     closeVars
<1>6. ASSUME NEW r \in Resource, PushSkips(r), UNCHANGED closeVars
      PROVE  RemovedStaysRemoved'
  BY <1>6 DEF PushSkips, ForgottenInv, RemovedStaysRemoved, OutOfScopeIsForgotten,
     ScopeInv, CloserOwnsRequest, CancelledBeforeScope, registryVars, closeVars
<1>7. ASSUME NEW w \in Worker, Take(w), UNCHANGED closeVars PROVE RemovedStaysRemoved'
  BY <1>7 DEF Take, ForgottenInv, RemovedStaysRemoved, OutOfScopeIsForgotten, ScopeInv,
     CloserOwnsRequest, CancelledBeforeScope, registryVars, closeVars
<1>8. ASSUME NEW w \in Worker, NEW f \in Worker, Enter(w, f), UNCHANGED closeVars
      PROVE  RemovedStaysRemoved'
  BY <1>8 DEF Enter, ForgottenInv, RemovedStaysRemoved, OutOfScopeIsForgotten, ScopeInv,
     CloserOwnsRequest, CancelledBeforeScope, registryVars, closeVars
<1>9. ASSUME NEW w \in Worker, DropToken(w), UNCHANGED closeVars
      PROVE  RemovedStaysRemoved'
  BY <1>9 DEF DropToken, ForgottenInv, RemovedStaysRemoved, OutOfScopeIsForgotten,
     ScopeInv, CloserOwnsRequest, CancelledBeforeScope, registryVars, closeVars
<1>10. ASSUME NEW w \in Worker, SetMessage(w), UNCHANGED closeVars
      PROVE  RemovedStaysRemoved'
  BY <1>10 DEF SetMessage, ForgottenInv, RemovedStaysRemoved, OutOfScopeIsForgotten,
     ScopeInv, CloserOwnsRequest, CancelledBeforeScope, registryVars, closeVars
<1>11. ASSUME NEW w \in Worker, Touch(w), UNCHANGED closeVars PROVE RemovedStaysRemoved'
  BY <1>11 DEF Touch, ForgottenInv, RemovedStaysRemoved, OutOfScopeIsForgotten,
     ScopeInv, CloserOwnsRequest, CancelledBeforeScope, registryVars, closeVars
<1>12. ASSUME NEW w \in Worker, Mark(w), UNCHANGED closeVars PROVE RemovedStaysRemoved'
  BY <1>12 DEF Mark, ForgottenInv, RemovedStaysRemoved, OutOfScopeIsForgotten, ScopeInv,
     CloserOwnsRequest, CancelledBeforeScope, registryVars, closeVars
<1>13. ASSUME NEW w \in Worker, MarkFails(w), UNCHANGED closeVars
      PROVE  RemovedStaysRemoved'
  BY <1>13 DEF MarkFails, ForgottenInv, RemovedStaysRemoved, OutOfScopeIsForgotten,
     ScopeInv, CloserOwnsRequest, CancelledBeforeScope, TypeOK, OutTypeOK, PoolTypeOK,
     closeVars
<1>14. ASSUME NEW w \in Worker, HandlerSkips(w), UNCHANGED closeVars
      PROVE  RemovedStaysRemoved'
  BY <1>14 DEF HandlerSkips, ForgottenInv, RemovedStaysRemoved, OutOfScopeIsForgotten,
     ScopeInv, CloserOwnsRequest, CancelledBeforeScope, registryVars, closeVars
<1>15. ASSUME NEW w \in Worker, HandlerWrites(w), UNCHANGED closeVars
      PROVE  RemovedStaysRemoved'
  BY <1>15 DEF HandlerWrites, ForgottenInv, RemovedStaysRemoved, OutOfScopeIsForgotten,
     ScopeInv, CloserOwnsRequest, CancelledBeforeScope, registryVars, closeVars
<1>16. ASSUME NEW w \in Worker, NEW h \in Worker, HandlerFails(w, h), UNCHANGED closeVars
      PROVE  RemovedStaysRemoved'
  BY <1>16 DEF HandlerFails, ForgottenInv, RemovedStaysRemoved, OutOfScopeIsForgotten,
     ScopeInv, CloserOwnsRequest, CancelledBeforeScope, registryVars, closeVars
<1>17. ASSUME NEW w \in Worker, Finish(w), UNCHANGED closeVars
      PROVE  RemovedStaysRemoved'
  BY <1>17 DEF Finish, ForgottenInv, RemovedStaysRemoved, OutOfScopeIsForgotten,
     ScopeInv, CloserOwnsRequest, CancelledBeforeScope, registryVars, closeVars
<1>18. ASSUME NEW w \in Worker, Resume(w), UNCHANGED closeVars
      PROVE  RemovedStaysRemoved'
  BY <1>18 DEF Resume, ForgottenInv, RemovedStaysRemoved, OutOfScopeIsForgotten,
     ScopeInv, CloserOwnsRequest, CancelledBeforeScope, registryVars, closeVars
<1>19. ASSUME NEW w \in Worker, ResumeAction(w), UNCHANGED closeVars
      PROVE  RemovedStaysRemoved'
  BY <1>19 DEF ResumeAction, ForgottenInv, RemovedStaysRemoved, OutOfScopeIsForgotten,
     ScopeInv, CloserOwnsRequest, CancelledBeforeScope, TypeOK, OutTypeOK, PoolTypeOK,
     closeVars
<1>20. ASSUME NEW w \in Worker, ResumeLeave(w), UNCHANGED closeVars
      PROVE  RemovedStaysRemoved'
  BY <1>20 DEF ResumeLeave, ForgottenInv, RemovedStaysRemoved, OutOfScopeIsForgotten,
     ScopeInv, CloserOwnsRequest, CancelledBeforeScope, TypeOK, OutTypeOK, PoolTypeOK,
     closeVars
<1>21. ASSUME NEW r \in Resource, Suspend(r) PROVE RemovedStaysRemoved'
  BY <1>21 DEF Suspend, ForgottenInv, RemovedStaysRemoved, OutOfScopeIsForgotten,
     ScopeInv, CloserOwnsRequest, CancelledBeforeScope, TypeOK, OutTypeOK, EventTypeOK,
     CloserTypeOK, closeVars, registryVars, AddAtmosphereResource
<1>22. ASSUME NEW r \in Resource, Subscribe(r) PROVE RemovedStaysRemoved'
  BY <1>22 DEF Subscribe, ForgottenInv, RemovedStaysRemoved, OutOfScopeIsForgotten,
     ScopeInv, CloserOwnsRequest, CancelledBeforeScope, TypeOK, OutTypeOK, EventTypeOK,
     CloserTypeOK, closeVars, registryVars, AddAtmosphereResource
<1>23. ASSUME NEW r \in Resource, CheckSuspended(r) PROVE RemovedStaysRemoved'
  BY <1>23 DEF CheckSuspended, ForgottenInv, RemovedStaysRemoved, OutOfScopeIsForgotten,
     ScopeInv, CloserOwnsRequest, CancelledBeforeScope, TypeOK, OutTypeOK, EventTypeOK,
     CloserTypeOK, closeVars, registryVars, AddAtmosphereResource
<1>24. ASSUME NEW r \in Resource, PutAlive(r) PROVE RemovedStaysRemoved'
  BY <1>24 DEF PutAlive, ForgottenInv, RemovedStaysRemoved, OutOfScopeIsForgotten,
     ScopeInv, CloserOwnsRequest, CancelledBeforeScope, TypeOK, OutTypeOK, EventTypeOK,
     CloserTypeOK, closeVars, registryVars, AddAtmosphereResource
<1>25. ASSUME NEW c \in Closer, NEW r \in Resource, NEW kind \in Kind, Guard(c, r, kind)
      PROVE  RemovedStaysRemoved'
  BY <1>25 DEF Guard, ForgottenInv, RemovedStaysRemoved, OutOfScopeIsForgotten,
     ScopeInv, CloserOwnsRequest, CancelledBeforeScope, TypeOK, OutTypeOK, CloserTypeOK,
     chanVars, registryVars, CloserGoto
<1>26. ASSUME NEW c \in Closer, MarkClosed(c) PROVE RemovedStaysRemoved'
  BY <1>26 DEF MarkClosed, ForgottenInv, RemovedStaysRemoved, OutOfScopeIsForgotten,
     ScopeInv, CloserOwnsRequest, CancelledBeforeScope, TypeOK, OutTypeOK, CloserTypeOK,
     chanVars, registryVars, CloserGoto
<1>27. ASSUME NEW c \in Closer, Flag(c) PROVE RemovedStaysRemoved'
  BY <1>27 DEF Flag, ForgottenInv, RemovedStaysRemoved, OutOfScopeIsForgotten, ScopeInv,
     CloserOwnsRequest, CancelledBeforeScope, TypeOK, OutTypeOK, CloserTypeOK, chanVars,
     registryVars, CloserGoto
<1>28. ASSUME NEW c \in Closer, InvokeOutOfScope(c) PROVE RemovedStaysRemoved'
  BY <1>28 DEF InvokeOutOfScope, ForgottenInv, RemovedStaysRemoved,
     OutOfScopeIsForgotten, ScopeInv, CloserOwnsRequest, CancelledBeforeScope, TypeOK,
     OutTypeOK, CloserTypeOK, chanVars, registryVars, CloserGoto
<1>29. ASSUME NEW c \in Closer, InvokeSkips(c) PROVE RemovedStaysRemoved'
  BY <1>29 DEF InvokeSkips, ForgottenInv, RemovedStaysRemoved, OutOfScopeIsForgotten,
     ScopeInv, CloserOwnsRequest, CancelledBeforeScope, TypeOK, OutTypeOK, CloserTypeOK,
     chanVars, registryVars, CloserGoto
<1>30. ASSUME NEW c \in Closer, InvokeWrites(c) PROVE RemovedStaysRemoved'
  BY <1>30 DEF InvokeWrites, ForgottenInv, RemovedStaysRemoved, OutOfScopeIsForgotten,
     ScopeInv, CloserOwnsRequest, CancelledBeforeScope, TypeOK, OutTypeOK, CloserTypeOK,
     chanVars, registryVars, CloserGoto
<1>31. ASSUME NEW c \in Closer, Destroy(c) PROVE RemovedStaysRemoved'
  BY <1>31 DEF Destroy, ForgottenInv, RemovedStaysRemoved, OutOfScopeIsForgotten,
     ScopeInv, CloserOwnsRequest, CancelledBeforeScope, TypeOK, OutTypeOK, CloserTypeOK,
     chanVars, registryVars, CloserGoto
<1>32. ASSUME NEW c \in Closer, RemoveAll(c) PROVE RemovedStaysRemoved'
  BY <1>32 DEF RemoveAll, ForgottenInv, RemovedStaysRemoved, OutOfScopeIsForgotten,
     ScopeInv, CloserOwnsRequest, CancelledBeforeScope, TypeOK, OutTypeOK, CloserTypeOK,
     chanVars, registryVars, CloserGoto
<1>33. ASSUME NEW c \in Closer, LeaveScope(c) PROVE RemovedStaysRemoved'
  BY <1>33 DEF LeaveScope, ForgottenInv, RemovedStaysRemoved, OutOfScopeIsForgotten,
     ScopeInv, CloserOwnsRequest, CancelledBeforeScope, TypeOK, OutTypeOK, CloserTypeOK,
     chanVars, registryVars, CloserGoto
<1>34. ASSUME NEW c \in Closer, DestroyAgain(c) PROVE RemovedStaysRemoved'
  BY <1>34 DEF DestroyAgain, ForgottenInv, RemovedStaysRemoved, OutOfScopeIsForgotten,
     ScopeInv, CloserOwnsRequest, CancelledBeforeScope, TypeOK, OutTypeOK, CloserTypeOK,
     chanVars, registryVars, CloserGoto
<1>35. CASE UNCHANGED vars
  BY <1>35 DEF vars, chanVars, poolVars, eventVars, closeVars, ForgottenInv,
     RemovedStaysRemoved, OutOfScopeIsForgotten, ScopeInv, CloserOwnsRequest,
     CancelledBeforeScope, registryVars
<1> QED
  BY <1>1, <1>2, <1>3, <1>4, <1>5, <1>6, <1>7, <1>8, <1>9, <1>10, <1>11, <1>12, <1>13,
     <1>14, <1>15, <1>16, <1>17, <1>18, <1>19, <1>20, <1>21, <1>22, <1>23, <1>24, <1>25,
     <1>26, <1>27, <1>28, <1>29, <1>30, <1>31, <1>32, <1>33, <1>34, <1>35 DEF Next,
     Channel, Notifier, Pool, Request, Closing

\* No step registers a response that is out of scope.
LEMMA ForgottenStep ==
  ASSUME TypeOK, ScopeInv, ForgottenInv, [Next]_vars
  PROVE  OutOfScopeIsForgotten'
<1>1. ASSUME NEW to \in Target \cup {All}, Broadcast(to), UNCHANGED closeVars
      PROVE  OutOfScopeIsForgotten'
  BY <1>1 DEF Broadcast, ForgottenInv, RemovedStaysRemoved, OutOfScopeIsForgotten,
     ScopeInv, CloserOwnsRequest, CancelledBeforeScope, registryVars, eventVars
<1>2. ASSUME PushToNobody, UNCHANGED closeVars PROVE OutOfScopeIsForgotten'
  BY <1>2 DEF PushToNobody, ForgottenInv, RemovedStaysRemoved, OutOfScopeIsForgotten,
     ScopeInv, CloserOwnsRequest, CancelledBeforeScope, registryVars, eventVars
<1>3. ASSUME PushEntry, UNCHANGED closeVars PROVE OutOfScopeIsForgotten'
  BY <1>3 DEF PushEntry, ForgottenInv, RemovedStaysRemoved, OutOfScopeIsForgotten,
     ScopeInv, CloserOwnsRequest, CancelledBeforeScope, registryVars, eventVars
<1>4. ASSUME NEW r \in Resource, PushOne(r), UNCHANGED closeVars
      PROVE  OutOfScopeIsForgotten'
  BY <1>4 DEF PushOne, ForgottenInv, RemovedStaysRemoved, OutOfScopeIsForgotten,
     ScopeInv, CloserOwnsRequest, CancelledBeforeScope, registryVars, eventVars
<1>5. ASSUME NEW r \in Resource, PushOutOfScope(r), UNCHANGED closeVars
      PROVE  OutOfScopeIsForgotten'
  BY <1>5 DEF PushOutOfScope, ForgottenInv, RemovedStaysRemoved, OutOfScopeIsForgotten,
     ScopeInv, CloserOwnsRequest, CancelledBeforeScope, TypeOK, OutTypeOK, PoolTypeOK,
     eventVars
<1>6. ASSUME NEW r \in Resource, PushSkips(r), UNCHANGED closeVars
      PROVE  OutOfScopeIsForgotten'
  BY <1>6 DEF PushSkips, ForgottenInv, RemovedStaysRemoved, OutOfScopeIsForgotten,
     ScopeInv, CloserOwnsRequest, CancelledBeforeScope, registryVars, eventVars
<1>7. ASSUME NEW w \in Worker, Take(w), UNCHANGED closeVars PROVE OutOfScopeIsForgotten'
  BY <1>7 DEF Take, ForgottenInv, RemovedStaysRemoved, OutOfScopeIsForgotten, ScopeInv,
     CloserOwnsRequest, CancelledBeforeScope, registryVars, eventVars
<1>8. ASSUME NEW w \in Worker, NEW f \in Worker, Enter(w, f), UNCHANGED closeVars
      PROVE  OutOfScopeIsForgotten'
  BY <1>8 DEF Enter, ForgottenInv, RemovedStaysRemoved, OutOfScopeIsForgotten, ScopeInv,
     CloserOwnsRequest, CancelledBeforeScope, registryVars, eventVars
<1>9. ASSUME NEW w \in Worker, DropToken(w), UNCHANGED closeVars
      PROVE  OutOfScopeIsForgotten'
  BY <1>9 DEF DropToken, ForgottenInv, RemovedStaysRemoved, OutOfScopeIsForgotten,
     ScopeInv, CloserOwnsRequest, CancelledBeforeScope, registryVars, eventVars
<1>10. ASSUME NEW w \in Worker, SetMessage(w), UNCHANGED closeVars
      PROVE  OutOfScopeIsForgotten'
  BY <1>10 DEF SetMessage, ForgottenInv, RemovedStaysRemoved, OutOfScopeIsForgotten,
     ScopeInv, CloserOwnsRequest, CancelledBeforeScope, registryVars, eventVars
<1>11. ASSUME NEW w \in Worker, Touch(w), UNCHANGED closeVars
      PROVE  OutOfScopeIsForgotten'
  BY <1>11 DEF Touch, ForgottenInv, RemovedStaysRemoved, OutOfScopeIsForgotten,
     ScopeInv, CloserOwnsRequest, CancelledBeforeScope, registryVars, eventVars
<1>12. ASSUME NEW w \in Worker, Mark(w), UNCHANGED closeVars
      PROVE  OutOfScopeIsForgotten'
  BY <1>12 DEF Mark, ForgottenInv, RemovedStaysRemoved, OutOfScopeIsForgotten, ScopeInv,
     CloserOwnsRequest, CancelledBeforeScope, registryVars, eventVars
<1>13. ASSUME NEW w \in Worker, MarkFails(w), UNCHANGED closeVars
      PROVE  OutOfScopeIsForgotten'
  BY <1>13 DEF MarkFails, ForgottenInv, RemovedStaysRemoved, OutOfScopeIsForgotten,
     ScopeInv, CloserOwnsRequest, CancelledBeforeScope, TypeOK, OutTypeOK, PoolTypeOK,
     eventVars
<1>14. ASSUME NEW w \in Worker, HandlerSkips(w), UNCHANGED closeVars
      PROVE  OutOfScopeIsForgotten'
  BY <1>14 DEF HandlerSkips, ForgottenInv, RemovedStaysRemoved, OutOfScopeIsForgotten,
     ScopeInv, CloserOwnsRequest, CancelledBeforeScope, registryVars, eventVars
<1>15. ASSUME NEW w \in Worker, HandlerWrites(w), UNCHANGED closeVars
      PROVE  OutOfScopeIsForgotten'
  BY <1>15 DEF HandlerWrites, ForgottenInv, RemovedStaysRemoved, OutOfScopeIsForgotten,
     ScopeInv, CloserOwnsRequest, CancelledBeforeScope, registryVars, eventVars
<1>16. ASSUME NEW w \in Worker, NEW h \in Worker, HandlerFails(w, h), UNCHANGED closeVars
      PROVE  OutOfScopeIsForgotten'
  BY <1>16 DEF HandlerFails, ForgottenInv, RemovedStaysRemoved, OutOfScopeIsForgotten,
     ScopeInv, CloserOwnsRequest, CancelledBeforeScope, registryVars, eventVars
<1>17. ASSUME NEW w \in Worker, Finish(w), UNCHANGED closeVars
      PROVE  OutOfScopeIsForgotten'
  BY <1>17 DEF Finish, ForgottenInv, RemovedStaysRemoved, OutOfScopeIsForgotten,
     ScopeInv, CloserOwnsRequest, CancelledBeforeScope, registryVars, eventVars
<1>18. ASSUME NEW w \in Worker, Resume(w), UNCHANGED closeVars
      PROVE  OutOfScopeIsForgotten'
  BY <1>18 DEF Resume, ForgottenInv, RemovedStaysRemoved, OutOfScopeIsForgotten,
     ScopeInv, CloserOwnsRequest, CancelledBeforeScope, registryVars, eventVars
<1>19. ASSUME NEW w \in Worker, ResumeAction(w), UNCHANGED closeVars
      PROVE  OutOfScopeIsForgotten'
  BY <1>19 DEF ResumeAction, ForgottenInv, RemovedStaysRemoved, OutOfScopeIsForgotten,
     ScopeInv, CloserOwnsRequest, CancelledBeforeScope, TypeOK, OutTypeOK, PoolTypeOK,
     eventVars
<1>20. ASSUME NEW w \in Worker, ResumeLeave(w), UNCHANGED closeVars
      PROVE  OutOfScopeIsForgotten'
  BY <1>20 DEF ResumeLeave, ForgottenInv, RemovedStaysRemoved, OutOfScopeIsForgotten,
     ScopeInv, CloserOwnsRequest, CancelledBeforeScope, TypeOK, OutTypeOK, PoolTypeOK,
     eventVars
<1>21. ASSUME NEW r \in Resource, Suspend(r) PROVE OutOfScopeIsForgotten'
  BY <1>21 DEF Suspend, ForgottenInv, RemovedStaysRemoved, OutOfScopeIsForgotten,
     ScopeInv, CloserOwnsRequest, CancelledBeforeScope, TypeOK, OutTypeOK, EventTypeOK,
     AddAtmosphereResource, registryVars
<1>22. ASSUME NEW r \in Resource, Subscribe(r) PROVE OutOfScopeIsForgotten'
  BY <1>22 DEF Subscribe, ForgottenInv, RemovedStaysRemoved, OutOfScopeIsForgotten,
     ScopeInv, CloserOwnsRequest, CancelledBeforeScope, TypeOK, OutTypeOK, EventTypeOK,
     AddAtmosphereResource, registryVars
<1>23. ASSUME NEW r \in Resource, CheckSuspended(r) PROVE OutOfScopeIsForgotten'
  BY <1>23 DEF CheckSuspended, ForgottenInv, RemovedStaysRemoved, OutOfScopeIsForgotten,
     ScopeInv, CloserOwnsRequest, CancelledBeforeScope, TypeOK, OutTypeOK, EventTypeOK,
     AddAtmosphereResource, registryVars
<1>24. ASSUME NEW r \in Resource, PutAlive(r) PROVE OutOfScopeIsForgotten'
  BY <1>24 DEF PutAlive, ForgottenInv, RemovedStaysRemoved, OutOfScopeIsForgotten,
     ScopeInv, CloserOwnsRequest, CancelledBeforeScope, TypeOK, OutTypeOK, EventTypeOK,
     AddAtmosphereResource, registryVars
<1>25. ASSUME NEW c \in Closer, NEW r \in Resource, NEW kind \in Kind, Guard(c, r, kind)
      PROVE  OutOfScopeIsForgotten'
  BY <1>25 DEF Guard, ForgottenInv, RemovedStaysRemoved, OutOfScopeIsForgotten,
     ScopeInv, CloserOwnsRequest, CancelledBeforeScope, TypeOK, OutTypeOK, EventTypeOK,
     CloserTypeOK, chanVars, eventVars, registryVars, CloserGoto
<1>26. ASSUME NEW c \in Closer, MarkClosed(c) PROVE OutOfScopeIsForgotten'
  BY <1>26 DEF MarkClosed, ForgottenInv, RemovedStaysRemoved, OutOfScopeIsForgotten,
     ScopeInv, CloserOwnsRequest, CancelledBeforeScope, TypeOK, OutTypeOK, EventTypeOK,
     CloserTypeOK, chanVars, eventVars, registryVars, CloserGoto
<1>27. ASSUME NEW c \in Closer, Flag(c) PROVE OutOfScopeIsForgotten'
  BY <1>27 DEF Flag, ForgottenInv, RemovedStaysRemoved, OutOfScopeIsForgotten, ScopeInv,
     CloserOwnsRequest, CancelledBeforeScope, TypeOK, OutTypeOK, EventTypeOK,
     CloserTypeOK, chanVars, eventVars, registryVars, CloserGoto
<1>28. ASSUME NEW c \in Closer, InvokeOutOfScope(c) PROVE OutOfScopeIsForgotten'
  BY <1>28 DEF InvokeOutOfScope, ForgottenInv, RemovedStaysRemoved,
     OutOfScopeIsForgotten, ScopeInv, CloserOwnsRequest, CancelledBeforeScope, TypeOK,
     OutTypeOK, EventTypeOK, CloserTypeOK, chanVars, eventVars, registryVars, CloserGoto
<1>29. ASSUME NEW c \in Closer, InvokeSkips(c) PROVE OutOfScopeIsForgotten'
  BY <1>29 DEF InvokeSkips, ForgottenInv, RemovedStaysRemoved, OutOfScopeIsForgotten,
     ScopeInv, CloserOwnsRequest, CancelledBeforeScope, TypeOK, OutTypeOK, EventTypeOK,
     CloserTypeOK, chanVars, eventVars, registryVars, CloserGoto
<1>30. ASSUME NEW c \in Closer, InvokeWrites(c) PROVE OutOfScopeIsForgotten'
  BY <1>30 DEF InvokeWrites, ForgottenInv, RemovedStaysRemoved, OutOfScopeIsForgotten,
     ScopeInv, CloserOwnsRequest, CancelledBeforeScope, TypeOK, OutTypeOK, EventTypeOK,
     CloserTypeOK, chanVars, eventVars, registryVars, CloserGoto
<1>31. ASSUME NEW c \in Closer, Destroy(c) PROVE OutOfScopeIsForgotten'
  BY <1>31 DEF Destroy, ForgottenInv, RemovedStaysRemoved, OutOfScopeIsForgotten,
     ScopeInv, CloserOwnsRequest, CancelledBeforeScope, TypeOK, OutTypeOK, EventTypeOK,
     CloserTypeOK, chanVars, eventVars, registryVars, CloserGoto
<1>32. ASSUME NEW c \in Closer, RemoveAll(c) PROVE OutOfScopeIsForgotten'
  BY <1>32 DEF RemoveAll, ForgottenInv, RemovedStaysRemoved, OutOfScopeIsForgotten,
     ScopeInv, CloserOwnsRequest, CancelledBeforeScope, TypeOK, OutTypeOK, EventTypeOK,
     CloserTypeOK, chanVars, eventVars, registryVars, CloserGoto
<1>33. ASSUME NEW c \in Closer, LeaveScope(c) PROVE OutOfScopeIsForgotten'
  BY <1>33 DEF LeaveScope, ForgottenInv, RemovedStaysRemoved, OutOfScopeIsForgotten,
     ScopeInv, CloserOwnsRequest, CancelledBeforeScope, TypeOK, OutTypeOK, EventTypeOK,
     CloserTypeOK, chanVars, eventVars, registryVars, CloserGoto
<1>34. ASSUME NEW c \in Closer, DestroyAgain(c) PROVE OutOfScopeIsForgotten'
  BY <1>34 DEF DestroyAgain, ForgottenInv, RemovedStaysRemoved, OutOfScopeIsForgotten,
     ScopeInv, CloserOwnsRequest, CancelledBeforeScope, TypeOK, OutTypeOK, EventTypeOK,
     CloserTypeOK, chanVars, eventVars, registryVars, CloserGoto
<1>35. CASE UNCHANGED vars
  BY <1>35 DEF vars, chanVars, poolVars, eventVars, closeVars, ForgottenInv,
     RemovedStaysRemoved, OutOfScopeIsForgotten, ScopeInv, CloserOwnsRequest,
     CancelledBeforeScope, registryVars
<1> QED
  BY <1>1, <1>2, <1>3, <1>4, <1>5, <1>6, <1>7, <1>8, <1>9, <1>10, <1>11, <1>12, <1>13,
     <1>14, <1>15, <1>16, <1>17, <1>18, <1>19, <1>20, <1>21, <1>22, <1>23, <1>24, <1>25,
     <1>26, <1>27, <1>28, <1>29, <1>30, <1>31, <1>32, <1>33, <1>34, <1>35 DEF Next,
     Channel, Notifier, Pool, Request, Closing

\* After one write to a cancelled response no other one starts.
LEMMA LateStep ==
  ASSUME TypeOK, WriterOwnsMonitor, LateInv, [Next]_vars
  PROVE  LateInv'
<1>1. ASSUME NEW to \in Target \cup {All}, Broadcast(to), UNCHANGED closeVars
      PROVE  LateInv'
  BY <1>1, ChannelAssumption DEF Broadcast, LateInv, TypeOK, PoolTypeOK, OutTypeOK,
     EventTypeOK, outVars, eventVars, Goto, Exit
<1>2. ASSUME PushToNobody, UNCHANGED closeVars PROVE LateInv'
  BY <1>2 DEF PushToNobody, LateInv, poolVars, eventVars, outVars
<1>3. ASSUME PushEntry, UNCHANGED closeVars PROVE LateInv'
  BY <1>3 DEF PushEntry, LateInv, poolVars, eventVars, outVars
<1>4. ASSUME NEW r \in Resource, PushOne(r), UNCHANGED closeVars PROVE LateInv'
  BY <1>4 DEF PushOne, LateInv, poolVars, eventVars, outVars
<1>5. ASSUME NEW r \in Resource, PushOutOfScope(r), UNCHANGED closeVars PROVE LateInv'
  BY <1>5 DEF PushOutOfScope, LateInv, poolVars, eventVars, outVars
<1>6. ASSUME NEW r \in Resource, PushSkips(r), UNCHANGED closeVars PROVE LateInv'
  BY <1>6 DEF PushSkips, LateInv, poolVars, eventVars, outVars
<1>7. ASSUME NEW w \in Worker, Take(w), UNCHANGED closeVars PROVE LateInv'
  BY <1>7, ChannelAssumption DEF Take, LateInv, TypeOK, PoolTypeOK, OutTypeOK,
     EventTypeOK, outVars, eventVars, Goto, Exit
<1>8. ASSUME NEW w \in Worker, NEW f \in Worker, Enter(w, f), UNCHANGED closeVars
      PROVE  LateInv'
  BY <1>8, ChannelAssumption DEF Enter, LateInv, TypeOK, PoolTypeOK, OutTypeOK,
     EventTypeOK, outVars, eventVars, Goto, Exit
<1>9. ASSUME NEW w \in Worker, DropToken(w), UNCHANGED closeVars PROVE LateInv'
  BY <1>9, ChannelAssumption DEF DropToken, LateInv, TypeOK, PoolTypeOK, OutTypeOK,
     EventTypeOK, outVars, eventVars, Goto, Exit
<1>10. ASSUME NEW w \in Worker, SetMessage(w), UNCHANGED closeVars PROVE LateInv'
  BY <1>10, ChannelAssumption DEF SetMessage, LateInv, TypeOK, PoolTypeOK, OutTypeOK,
     EventTypeOK, outVars, eventVars, Goto, Exit
<1>11. ASSUME NEW w \in Worker, Touch(w), UNCHANGED closeVars PROVE LateInv'
  BY <1>11, ChannelAssumption DEF Touch, LateInv, TypeOK, PoolTypeOK, OutTypeOK,
     EventTypeOK, outVars, eventVars, Goto, Exit
<1>12. ASSUME NEW w \in Worker, Mark(w), UNCHANGED closeVars PROVE LateInv'
  BY <1>12, ChannelAssumption DEF Mark, LateInv, TypeOK, PoolTypeOK, OutTypeOK,
     EventTypeOK, outVars, eventVars, Goto, Exit
<1>13. ASSUME NEW w \in Worker, MarkFails(w), UNCHANGED closeVars PROVE LateInv'
  BY <1>13, ChannelAssumption DEF MarkFails, LateInv, TypeOK, PoolTypeOK, OutTypeOK,
     EventTypeOK, outVars, eventVars, Goto, Exit
<1>14. ASSUME NEW w \in Worker, HandlerSkips(w), UNCHANGED closeVars PROVE LateInv'
  BY <1>14, ChannelAssumption DEF HandlerSkips, LateInv, TypeOK, PoolTypeOK, OutTypeOK,
     EventTypeOK, outVars, eventVars, Goto, Exit
<1>15. ASSUME NEW w \in Worker, HandlerWrites(w), UNCHANGED closeVars PROVE LateInv'
  BY <1>15, ChannelAssumption DEF HandlerWrites, LateInv, WriterOwnsMonitor, Inside,
     TypeOK, PoolTypeOK, OutTypeOK, EventTypeOK, eventVars, Goto
<1>16. ASSUME NEW w \in Worker, NEW h \in Worker, HandlerFails(w, h), UNCHANGED closeVars
      PROVE  LateInv'
  BY <1>16, ChannelAssumption DEF HandlerFails, LateInv, TypeOK, PoolTypeOK, OutTypeOK,
     EventTypeOK, outVars, eventVars, Goto, Exit
<1>17. ASSUME NEW w \in Worker, Finish(w), UNCHANGED closeVars PROVE LateInv'
  BY <1>17, ChannelAssumption DEF Finish, LateInv, TypeOK, PoolTypeOK, OutTypeOK,
     EventTypeOK, outVars, eventVars, Goto, Exit
<1>18. ASSUME NEW w \in Worker, Resume(w), UNCHANGED closeVars PROVE LateInv'
  BY <1>18, ChannelAssumption DEF Resume, LateInv, TypeOK, PoolTypeOK, OutTypeOK,
     EventTypeOK, outVars, eventVars, Goto, Exit
<1>19. ASSUME NEW w \in Worker, ResumeAction(w), UNCHANGED closeVars PROVE LateInv'
  BY <1>19, ChannelAssumption DEF ResumeAction, LateInv, TypeOK, PoolTypeOK, OutTypeOK,
     EventTypeOK, outVars, eventVars, Goto, Exit
<1>20. ASSUME NEW w \in Worker, ResumeLeave(w), UNCHANGED closeVars PROVE LateInv'
  BY <1>20, ChannelAssumption DEF ResumeLeave, LateInv, TypeOK, PoolTypeOK, OutTypeOK,
     EventTypeOK, outVars, eventVars, Goto, Exit
<1>21. ASSUME NEW r \in Resource, Suspend(r) PROVE LateInv'
  BY <1>21 DEF Suspend, LateInv, poolVars, eventVars, outVars
<1>22. ASSUME NEW r \in Resource, Subscribe(r) PROVE LateInv'
  BY <1>22 DEF Subscribe, LateInv, poolVars, eventVars, outVars
<1>23. ASSUME NEW r \in Resource, CheckSuspended(r) PROVE LateInv'
  BY <1>23 DEF CheckSuspended, LateInv, poolVars, eventVars, outVars
<1>24. ASSUME NEW r \in Resource, PutAlive(r) PROVE LateInv'
  BY <1>24 DEF PutAlive, LateInv, poolVars, eventVars, outVars
<1>25. ASSUME NEW c \in Closer, NEW r \in Resource, NEW kind \in Kind, Guard(c, r, kind)
      PROVE  LateInv'
  BY <1>25 DEF Guard, LateInv, chanVars, poolVars, eventVars, outVars
<1>26. ASSUME NEW c \in Closer, MarkClosed(c) PROVE LateInv'
  BY <1>26 DEF MarkClosed, LateInv, poolVars, eventVars, outVars
<1>27. ASSUME NEW c \in Closer, Flag(c) PROVE LateInv'
  BY <1>27 DEF Flag, LateInv, TypeOK, EventTypeOK, CloserTypeOK, outVars, poolVars
<1>28. ASSUME NEW c \in Closer, InvokeOutOfScope(c) PROVE LateInv'
  BY <1>28 DEF InvokeOutOfScope, LateInv, chanVars, poolVars, eventVars, outVars
<1>29. ASSUME NEW c \in Closer, InvokeSkips(c) PROVE LateInv'
  BY <1>29 DEF InvokeSkips, LateInv, chanVars, poolVars, eventVars, outVars
<1>30. ASSUME NEW c \in Closer, InvokeWrites(c) PROVE LateInv'
  BY <1>30 DEF InvokeWrites, LateInv, chanVars, poolVars, eventVars, outVars
<1>31. ASSUME NEW c \in Closer, Destroy(c) PROVE LateInv'
  BY <1>31 DEF Destroy, LateInv, poolVars, eventVars, outVars
<1>32. ASSUME NEW c \in Closer, RemoveAll(c) PROVE LateInv'
  BY <1>32 DEF RemoveAll, LateInv, poolVars, eventVars, outVars
<1>33. ASSUME NEW c \in Closer, LeaveScope(c) PROVE LateInv'
  BY <1>33 DEF LeaveScope, LateInv, poolVars, eventVars, outVars
<1>34. ASSUME NEW c \in Closer, DestroyAgain(c) PROVE LateInv'
  BY <1>34 DEF DestroyAgain, LateInv, poolVars, eventVars, outVars
<1>35. CASE UNCHANGED vars
  BY <1>35 DEF vars, chanVars, poolVars, eventVars, closeVars, LateInv, outVars
<1> QED
  BY <1>1, <1>2, <1>3, <1>4, <1>5, <1>6, <1>7, <1>8, <1>9, <1>10, <1>11, <1>12, <1>13,
     <1>14, <1>15, <1>16, <1>17, <1>18, <1>19, <1>20, <1>21, <1>22, <1>23, <1>24, <1>25,
     <1>26, <1>27, <1>28, <1>29, <1>30, <1>31, <1>32, <1>33, <1>34, <1>35 DEF Next,
     Channel, Notifier, Pool, Request, Closing
===========================================================================
