---------------------------- MODULE DelayedProofs ---------------------------
(***************************************************************************)
(* No delayed message is forgotten, for any number of messages and timers  *)
(* and any depth of the stack.  A call of push that is not the innermost   *)
(* one of its thread waits for its current entry, which is the message of  *)
(* the call above it (Linked): when it removes the entry from the queue,   *)
(* the call above has put it on the write queue or dropped it.             *)
(*                                                                         *)
(* And the first broadcast after a text carries it: the iterator passes    *)
(* over nothing that is in the queue (NothingPassed), so that what was     *)
(* there when the notifier began is in its hands at the end (Carrying).    *)
(*                                                                         *)
(* And the texts are sent in order: they leave the queue from its front    *)
(* (Leaving), while the iterator stands right behind those that have left. *)
(***************************************************************************)
EXTENDS DelayedBroadcast, SequenceTheorems, WellFoundedInduction, TLAPS

TimerStates == {"unset", "armed", "running", "pushing", "cancelled", "done"}

\* The types of what TypeOK does not speak about.
Types ==
  /\ offered \in Seq(Delayed) /\ sent \in Seq(Message)
  /\ timer \in [Timed -> TimerStates]
  /\ stack \in [Thread -> Seq(Frame)]

\* What holds of the calls of one thread: an iterator stands in the queue, and
\* every call was made for the current entry of the call below it.
Sound(calls) ==
  /\ calls \in Seq(Frame) /\ Len(calls) <= MaxDepth
  /\ \A i \in 1 .. Len(calls) : calls[i].next <= Len(offered)
  /\ \A i \in 1 .. Len(calls) - 1 :
       calls[i].current # None /\ calls[i + 1].entry = calls[i].current

Linked == \A t \in Thread : Sound(stack[t])

IInv == Types /\ TypeOK /\ Linked /\ NoTextForgotten

\* What one call is about to send.
Holds(frame, m) == m = frame.entry \/ m \in ToSet(frame.text)

---------------------------------------------------------------------------
(* Numbers and sequences.                                                  *)

\* A set of naturals has a least element, which is its Min.
LEMMA LeastIsThere ==
  ASSUME NEW S \in SUBSET Nat, S # {} PROVE \E x \in S : \A y \in S : x =< y
<1> DEFINE R == OpToRel(<, Nat)
<1>1. IsWellFoundedOn(R, Nat)
  BY NatLessThanWellFounded
<1>2. PICK x \in S : \A y \in S : ~ (<<y, x>> \in R)
  <2> HIDE DEF R
  <2> QED BY <1>1, WFMin
<1>3. \A y \in S : <<y, x>> \in R <=> y < x
  BY DEF OpToRel
<1>4. \A y \in S : x =< y
  <2> TAKE y \in S
  <2>1. x \in Nat /\ y \in Nat /\ ~ (y < x)
    BY <1>2, <1>3
  <2> QED BY <2>1
<1> QED BY <1>4

LEMMA MinIsIn ==
  ASSUME NEW S \in SUBSET Nat, S # {}
  PROVE  Min(S) \in S /\ \A y \in S : Min(S) =< y
BY LeastIsThere DEF Min

\* The iterator's next place is a place of the queue, or 0.
LEMMA AfterIsPlace ==
  ASSUME offered \in Seq(Delayed), NEW i \in Nat, NEW queue
  PROVE  After(i, queue) \in Nat /\ After(i, queue) <= Len(offered)
<1> DEFINE places == {j \in i + 1 .. Len(offered) : offered[j] \in queue}
<1>1. Len(offered) \in Nat /\ places \in SUBSET Nat /\ \A j \in places : j <= Len(offered)
  OBVIOUS
<1>2. CASE places = {}
  BY <1>1, <1>2 DEF After
<1>3. CASE places # {}
  <2>1. After(i, queue) = Min(places)
    BY <1>3 DEF After
  <2>2. Min(places) \in places
    <3> HIDE DEF places
    <3> QED BY <1>1, <1>3, MinIsIn
  <2> QED BY <2>1, <2>2, <1>1
<1> QED BY <1>2, <1>3

\* The elements of a sequence that grows.
LEMMA Appended ==
  ASSUME NEW S, NEW s \in Seq(S), NEW e \in S
  PROVE  ToSet(Append(s, e)) = ToSet(s) \cup {e}
<1>1. /\ Append(s, e) \in Seq(S) /\ Len(Append(s, e)) = Len(s) + 1
      /\ \A i \in 1 .. Len(s) : Append(s, e)[i] = s[i]
      /\ Append(s, e)[Len(s) + 1] = e
      /\ DOMAIN s = 1 .. Len(s) /\ DOMAIN Append(s, e) = 1 .. Len(s) + 1
  OBVIOUS
<1> QED BY <1>1 DEF ToSet

LEMMA Joined ==
  ASSUME NEW S, NEW s \in Seq(S), NEW u \in Seq(S)
  PROVE  ToSet(s \o u) = ToSet(s) \cup ToSet(u)
<1>1. /\ s \o u \in Seq(S) /\ Len(s \o u) = Len(s) + Len(u)
      /\ \A i \in 1 .. Len(s) + Len(u) :
           (s \o u)[i] = IF i <= Len(s) THEN s[i] ELSE u[i - Len(s)]
  BY ConcatProperties
<1>2. /\ DOMAIN s = 1 .. Len(s) /\ DOMAIN u = 1 .. Len(u)
      /\ DOMAIN (s \o u) = 1 .. Len(s) + Len(u) /\ Len(s) \in Nat /\ Len(u) \in Nat
  BY <1>1, LenProperties
<1>3. \A i \in 1 .. Len(u) : (s \o u)[Len(s) + i] = u[i] /\ Len(s) + i \in 1 .. Len(s) + Len(u)
  BY <1>1, <1>2
<1>4. \A i \in 1 .. Len(s) : (s \o u)[i] = s[i] /\ i \in 1 .. Len(s) + Len(u)
  BY <1>1, <1>2
<1>5. \A i \in 1 .. Len(s) + Len(u) : (s \o u)[i] \in ToSet(s) \cup ToSet(u)
  BY <1>1, <1>2 DEF ToSet
<1>6. ToSet(s \o u) \subseteq ToSet(s) \cup ToSet(u)
  BY <1>2, <1>5 DEF ToSet
<1>7. ToSet(s) \subseteq ToSet(s \o u)
  BY <1>2, <1>4 DEF ToSet
<1>8. ToSet(u) \subseteq ToSet(s \o u)
  <2> SUFFICES ASSUME NEW x \in ToSet(u) PROVE x \in ToSet(s \o u)
    OBVIOUS
  <2>1. PICK i \in 1 .. Len(u) : x = u[i]
    BY <1>2 DEF ToSet
  <2>2. x = (s \o u)[Len(s) + i] /\ Len(s) + i \in DOMAIN (s \o u)
    BY <1>2, <1>3, <2>1
  <2> QED BY <2>2 DEF ToSet
<1> QED BY <1>6, <1>7, <1>8

\* A stack whose uppermost frame is replaced, and one that loses that frame.
LEMMA FrontIs ==
  ASSUME NEW S, NEW s \in Seq(S), s # << >>
  PROVE  /\ Front(s) \in Seq(S) /\ Len(Front(s)) = Len(s) - 1
         /\ \A i \in 1 .. Len(s) - 1 : Front(s)[i] = s[i]
         /\ Len(s) \in Nat \ {0}
<1>1. Len(s) \in Nat \ {0}
  BY EmptySeq
<1>2. \A i \in 1 .. Len(s) - 1 : s[i] \in S
  BY <1>1, ElementOfSeq
<1> DEFINE n == Len(s) - 1
<1>3. n \in Int /\ 1 \in Int /\ \A i \in 1 .. n : s[i] \in S
  BY <1>1, <1>2
<1> HIDE DEF n
<1>4. /\ SubSeq(s, 1, n) \in Seq(S)
      /\ Len(SubSeq(s, 1, n)) = IF 1 <= n THEN n - 1 + 1 ELSE 0
      /\ \A i \in 1 .. n - 1 + 1 : SubSeq(s, 1, n)[i] = s[1 + i - 1]
  BY ONLY <1>3, SubSeqProperties
<1>5. n \in Nat /\ n - 1 + 1 = n /\ \A i \in 1 .. n : 1 + i - 1 = i
  BY <1>1 DEF n
<1>6. /\ SubSeq(s, 1, n) \in Seq(S) /\ Len(SubSeq(s, 1, n)) = n
      /\ \A i \in 1 .. n : SubSeq(s, 1, n)[i] = s[i]
  BY <1>4, <1>5
<1> QED BY <1>1, <1>6 DEF Front, n

LEMMA TopReplaced ==
  ASSUME NEW S, NEW s \in Seq(S), s # << >>, NEW e \in S
  PROVE  LET r == Append(Front(s), e)
         IN  /\ r \in Seq(S) /\ Len(r) = Len(s) /\ r[Len(s)] = e
             /\ \A i \in 1 .. Len(s) - 1 : r[i] = s[i]
<1> DEFINE f == Front(s)
<1>1. /\ f \in Seq(S) /\ Len(f) = Len(s) - 1 /\ Len(s) \in Nat
      /\ \A i \in 1 .. Len(s) - 1 : f[i] = s[i]
  BY FrontIs
<1> HIDE DEF f
<1>2. /\ Append(f, e) \in Seq(S) /\ Len(Append(f, e)) = Len(f) + 1
      /\ Append(f, e)[Len(f) + 1] = e
      /\ \A i \in 1 .. Len(f) : Append(f, e)[i] = f[i]
  BY <1>1, AppendProperties
<1>3. Len(f) + 1 = Len(s)
  BY <1>1
<1>4. Append(f, e)[Len(s)] = e /\ \A i \in 1 .. Len(s) - 1 : Append(f, e)[i] = s[i]
  BY <1>1, <1>2, <1>3
<1> QED BY <1>2, <1>3, <1>4 DEF f

LEMMA TopRemoved ==
  ASSUME NEW S, NEW s \in Seq(S), Len(s) > 1, NEW e \in S
  PROVE  LET r == Append(Front(Front(s)), e)
         IN  /\ r \in Seq(S) /\ Len(r) = Len(s) - 1 /\ r[Len(s) - 1] = e
             /\ \A i \in 1 .. Len(s) - 2 : r[i] = s[i]
<1> DEFINE f == Front(s)
<1>1. /\ f \in Seq(S) /\ Len(f) = Len(s) - 1 /\ Len(s) \in Nat
      /\ \A i \in 1 .. Len(s) - 1 : f[i] = s[i]
  BY FrontIs
<1> HIDE DEF f
<1>2. f # << >> /\ Len(f) - 1 = Len(s) - 2
  BY <1>1
<1>3. /\ Append(Front(f), e) \in Seq(S) /\ Len(Append(Front(f), e)) = Len(f)
      /\ Append(Front(f), e)[Len(f)] = e
      /\ \A i \in 1 .. Len(f) - 1 : Append(Front(f), e)[i] = f[i]
  BY <1>1, <1>2, TopReplaced
<1>4. \A i \in 1 .. Len(s) - 2 : Append(Front(f), e)[i] = s[i]
  BY <1>1, <1>2, <1>3
<1>5. Append(Front(f), e)[Len(s) - 1] = e
  BY <1>1, <1>3
<1> QED BY <1>1, <1>3, <1>4, <1>5 DEF f

\* What a stack of calls is about to send, call by call.
LEMMA InHandIs ==
  ASSUME NEW calls \in Seq(Frame), NEW m
  PROVE  m \in UNION {ToSet(Carried(calls[i])) : i \in DOMAIN calls}
           <=> \E i \in 1 .. Len(calls) : Holds(calls[i], m)
<1>1. \A i \in 1 .. Len(calls) : m \in ToSet(Carried(calls[i])) <=> Holds(calls[i], m)
  <2> TAKE i \in 1 .. Len(calls)
  <2>1. calls[i] \in Frame
    BY ElementOfSeq
  <2>2. calls[i].text \in Seq(Message) /\ calls[i].entry \in Message
    BY <2>1 DEF Frame
  <2> QED BY <2>2, Appended DEF Carried, Holds
<1>2. DOMAIN calls = 1 .. Len(calls)
  OBVIOUS
<1> QED BY <1>1, <1>2

---------------------------------------------------------------------------
(* The stacks.                                                             *)

\* The uppermost call of a thread.
LEMMA TopIs ==
  ASSUME IInv, NEW t \in Thread, stack[t] # << >>
  PROVE  /\ Top(t) = stack[t][Len(stack[t])] /\ Top(t) \in Frame
         /\ Len(stack[t]) \in Nat \ {0} /\ Len(stack[t]) <= MaxDepth
         /\ Top(t).next \in Nat /\ Top(t).next <= Len(offered)
         /\ Top(t).entry \in Message /\ Top(t).text \in Seq(Message)
         /\ Top(t).current \in Delayed \cup {None}
<1>1. stack[t] \in Seq(Frame) /\ Sound(stack[t])
  BY DEF IInv, Types, Linked
<1>2. Len(stack[t]) \in Nat \ {0}
  BY <1>1, EmptySeq
<1>3. Len(stack[t]) \in 1 .. Len(stack[t])
  BY <1>2
<1>4. Top(t) = stack[t][Len(stack[t])]
  BY DEF Top, Last
<1>5. Top(t) \in Frame
  BY <1>1, <1>3, <1>4, ElementOfSeq
<1>6. Top(t).next <= Len(offered) /\ Len(stack[t]) <= MaxDepth
  BY <1>1, <1>3, <1>4 DEF Sound
<1> QED BY <1>2, <1>4, <1>5, <1>6 DEF Frame

\* A stack may change for a sound one, if what leaves the hands of its thread
\* or the queue has been sent or dropped.
LEMMA Stepped ==
  ASSUME IInv, NEW t \in Thread, NEW calls, Sound(calls),
         stack' = [stack EXCEPT ![t] = calls],
         offered' = offered, sent' \in Seq(Message), present' \subseteq present,
         timer' \in [Timed -> TimerStates],
         interrupted' \subseteq {m \in Timed : timer'[m] \in {"running", "pushing"}},
         \A m \in Timed : stack'[m] # << >> <=> timer'[m] = "pushing",
         ToSet(sent) \subseteq ToSet(sent'), dropped \subseteq dropped',
         \A m \in present \cup InHand(t) :
           \/ m \in present' \cup ToSet(sent') \cup dropped'
           \/ \E i \in 1 .. Len(calls) : Holds(calls[i], m)
  PROVE  IInv'
<1>1. calls \in Seq(Frame) /\ stack \in [Thread -> Seq(Frame)]
  BY DEF Sound, IInv, Types
<1>2. Types'
  BY <1>1 DEF IInv, Types
<1>3. \A u \in Thread : Sound(stack[u]) /\ stack'[u] = IF u = t THEN calls ELSE stack[u]
  BY <1>1 DEF IInv, Linked
<1>4. \A u \in Thread : Sound(stack'[u])
  BY <1>3
<1>5. Linked'
  BY <1>4 DEF Linked, Sound
<1>6. TypeOK'
  <2>1. ToSet(offered') \subseteq Delayed /\ present' \subseteq ToSet(offered')
    BY DEF IInv, TypeOK, Running
  <2>2. \A u \in Thread : stack'[u] \in Seq(Frame) /\ Len(stack'[u]) <= MaxDepth
    BY <1>4 DEF Sound
  <2> QED BY <2>1, <2>2 DEF TypeOK, Running
<1>7. NoTextForgotten'
  <2> SUFFICES ASSUME NEW m \in ToSet(offered)
               PROVE  m \in present' \cup ToSet(sent') \cup dropped'
                              \cup UNION {InHand(u)' : u \in Thread}
    BY DEF NoTextForgotten
  <2>1. \A u \in Thread : u # t => InHand(u)' = InHand(u)
    BY <1>3 DEF InHand
  <2>2. (\E i \in 1 .. Len(calls) : Holds(calls[i], m)) => m \in InHand(t)'
    <3>1. InHand(t)' = UNION {ToSet(Carried(calls[i])) : i \in DOMAIN calls}
      BY <1>3 DEF InHand, Carried
    <3> QED BY <3>1, <1>1, InHandIs
  <2>3. \/ m \in ToSet(sent) \cup dropped
        \/ m \in present \cup InHand(t)
        \/ \E u \in Thread : u # t /\ m \in InHand(u)
    BY DEF IInv, NoTextForgotten
  <2> QED BY <2>1, <2>2, <2>3
<1> QED BY <1>2, <1>5, <1>6, <1>7 DEF IInv

\* The uppermost call may change its iterator, its current entry and its texts,
\* as long as it keeps what it holds.
LEMMA TopChanged ==
  ASSUME IInv, NEW t \in Thread, stack[t] # << >>, NEW frame \in Frame,
         frame.entry = Top(t).entry, frame.next <= Len(offered),
         ToSet(Top(t).text) \subseteq ToSet(frame.text)
  PROVE  LET calls == Append(Front(stack[t]), frame)
         IN  /\ Sound(calls) /\ calls # << >> /\ Len(calls) = Len(stack[t])
             /\ calls[Len(calls)] = frame
             /\ \A m \in InHand(t) : \E i \in 1 .. Len(calls) : Holds(calls[i], m)
<1> DEFINE n == Len(stack[t])
           calls == Append(Front(stack[t]), frame)
<1>0. n \in Nat \ {0} /\ Top(t) = stack[t][n]
  BY TopIs
<1>1. stack[t] \in Seq(Frame) /\ Sound(stack[t]) /\ n \in Nat \ {0} /\ Top(t) = stack[t][n]
  BY <1>0 DEF IInv, Types, Linked
<1>2. /\ calls \in Seq(Frame) /\ Len(calls) = n /\ calls[n] = frame
      /\ \A i \in 1 .. n - 1 : calls[i] = stack[t][i]
  BY <1>1, TopReplaced
<1> HIDE DEF n, calls
<1>3. \A i \in 1 .. n : /\ i = n \/ i \in 1 .. n - 1
                        /\ calls[i].entry = stack[t][i].entry
                        /\ calls[i].next <= Len(offered)
                        /\ ToSet(stack[t][i].text) \subseteq ToSet(calls[i].text)
  <2> TAKE i \in 1 .. n
  <2>1. CASE i = n
    BY <1>1, <1>2, <2>1
  <2>2. CASE i # n
    <3>1. i \in 1 .. n - 1 /\ i \in 1 .. Len(stack[t])
      BY <1>1, <2>2 DEF n
    <3> QED BY <1>1, <1>2, <3>1 DEF Sound
  <2> QED BY <2>1, <2>2
<1>4. \A i \in 1 .. n - 1 : /\ i \in 1 .. n /\ i + 1 \in 1 .. n
                            /\ calls[i].current # None
                            /\ calls[i + 1].entry = calls[i].current
  BY <1>1, <1>2, <1>3 DEF Sound, n
<1>5. Sound(calls)
  BY <1>1, <1>2, <1>3, <1>4 DEF Sound, n
<1>6. \A m \in InHand(t) : \E i \in 1 .. Len(calls) : Holds(calls[i], m)
  <2> TAKE m \in InHand(t)
  <2>1. PICK i \in 1 .. n : Holds(stack[t][i], m)
    BY <1>1, InHandIs DEF InHand, n
  <2> QED BY <2>1, <1>2, <1>3 DEF Holds
<1>7. calls # << >>
  BY <1>1, <1>2
<1> QED BY <1>2, <1>5, <1>6, <1>7 DEF n, calls

---------------------------------------------------------------------------
(* The steps of push.                                                      *)

LEMMA TakeStep == ASSUME IInv, NEW t \in Thread, Take(t) PROVE IInv'
<1> DEFINE m == offered[Top(t).next]
           frame == [Top(t) EXCEPT !.current = m, !.next = After(Top(t).next, present)]
           calls == Append(Front(stack[t]), frame)
<1>1. /\ stack[t] # << >> /\ Top(t).next # 0 /\ Cancel(m)
      /\ UNCHANGED <<offered, present, broadcasts, sent, due, dropped>>
      /\ stack' = [stack EXCEPT ![t] = calls]
  BY DEF Take, SetTop
<1>2. /\ Top(t) \in Frame /\ Top(t).next \in 1 .. Len(offered)
      /\ Top(t).text \in Seq(Message) /\ Top(t).next \in Nat
  BY <1>1, TopIs
<1>3. offered \in Seq(Delayed) /\ m \in Delayed
  BY <1>2, ElementOfSeq DEF IInv, Types
<1>4. After(Top(t).next, present) \in Nat /\ After(Top(t).next, present) <= Len(offered)
  BY <1>2, <1>3, AfterIsPlace
<1>5. /\ frame \in Frame /\ frame.entry = Top(t).entry /\ frame.text = Top(t).text
      /\ frame.next <= Len(offered)
  BY <1>2, <1>3, <1>4 DEF Frame
<1> HIDE DEF frame
<1>6. /\ Sound(calls) /\ calls # << >>
      /\ \A x \in InHand(t) : \E i \in 1 .. Len(calls) : Holds(calls[i], x)
  BY <1>1, <1>5, TopChanged
<1> HIDE DEF m, calls
<1>7. /\ timer' \in [Timed -> TimerStates]
      /\ interrupted' \subseteq {x \in Timed : timer'[x] \in {"running", "pushing"}}
      /\ \A x \in Timed : timer'[x] = "pushing" <=> timer[x] = "pushing"
  BY <1>1 DEF Cancel, IInv, Types, TypeOK, Running, TimerStates
<1>8. \A x \in Timed : stack'[x] # << >> <=> timer'[x] = "pushing"
  BY <1>1, <1>6, <1>7 DEF IInv, Types, TypeOK, Thread
<1>9. sent' \in Seq(Message)
  BY <1>1 DEF IInv, Types
<1> QED BY <1>1, <1>6, <1>7, <1>8, <1>9, Stepped

LEMMA MergeStep == ASSUME IInv, NEW t \in Thread, Merge(t) PROVE IInv'
<1> DEFINE m == Top(t).current
           frame == [Top(t) EXCEPT !.text = Append(@, m), !.current = None]
           calls == Append(Front(stack[t]), frame)
<1>1. /\ stack[t] # << >> /\ m # None /\ present' = present \ {m}
      /\ UNCHANGED <<offered, timer, interrupted, broadcasts, sent, history>>
      /\ stack' = [stack EXCEPT ![t] = calls]
  BY DEF Merge, SetTop
<1>2. /\ Top(t) \in Frame /\ Top(t).next <= Len(offered) /\ m \in Delayed
      /\ Top(t).text \in Seq(Message)
  BY <1>1, TopIs
<1>3. Append(Top(t).text, m) \in Seq(Message)
      /\ ToSet(Append(Top(t).text, m)) = ToSet(Top(t).text) \cup {m}
  BY <1>2, Appended, DelayAssumption
<1>4. /\ frame \in Frame /\ frame.entry = Top(t).entry /\ frame.next <= Len(offered)
      /\ ToSet(frame.text) = ToSet(Top(t).text) \cup {m}
  BY <1>2, <1>3 DEF Frame
<1> HIDE DEF frame
<1>5. /\ Sound(calls) /\ calls # << >> /\ Len(calls) = Len(stack[t])
      /\ calls[Len(calls)] = frame
      /\ \A x \in InHand(t) : \E i \in 1 .. Len(calls) : Holds(calls[i], x)
  BY <1>1, <1>4, TopChanged
<1>6. Holds(calls[Len(calls)], m) /\ Len(calls) \in 1 .. Len(calls)
  BY <1>1, <1>4, <1>5, TopIs DEF Holds
<1> HIDE DEF m, calls
<1>7. \A x \in Timed : stack'[x] # << >> <=> timer'[x] = "pushing"
  BY <1>1, <1>5 DEF IInv, Types, TypeOK, Thread
<1>8. /\ sent' \in Seq(Message) /\ timer' \in [Timed -> TimerStates]
      /\ interrupted' \subseteq {x \in Timed : timer'[x] \in {"running", "pushing"}}
      /\ dropped' = dropped
  BY <1>1 DEF IInv, Types, TypeOK, Running, history
<1>9. \A x \in present \cup InHand(t) :
        x \in present' \/ \E i \in 1 .. Len(calls) : Holds(calls[i], x)
  BY <1>1, <1>5, <1>6
<1> QED BY <1>1, <1>5, <1>7, <1>8, <1>9, Stepped

\* A new call on top of the others.
LEMMA CallIs ==
  ASSUME IInv, NEW m \in Message, NEW queue
  PROVE  Call(m, queue) \in Frame /\ Call(m, queue).next <= Len(offered)
         /\ Call(m, queue).entry = m
BY AfterIsPlace, EmptySeq DEF IInv, Types, Call, Frame

LEMMA NestStep == ASSUME IInv, NEW t \in Thread, Nest(t) PROVE IInv'
<1> DEFINE m == Top(t).current
           n == Len(stack[t])
           frame == Call(m, present)
           calls == Append(stack[t], frame)
<1>1. /\ stack[t] # << >> /\ m # None /\ n < MaxDepth
      /\ UNCHANGED <<offered, present, timer, interrupted, broadcasts, sent, history>>
      /\ stack' = [stack EXCEPT ![t] = calls]
  BY DEF Nest
<1>2. m \in Message /\ n \in Nat \ {0} /\ m = stack[t][n].current
  BY <1>1, TopIs, DelayAssumption
<1>3. frame \in Frame /\ frame.next <= Len(offered) /\ frame.entry = m
  BY <1>2, CallIs
<1>4. stack[t] \in Seq(Frame) /\ Sound(stack[t])
  BY DEF IInv, Types, Linked
<1> HIDE DEF m, frame
<1>5. /\ calls \in Seq(Frame) /\ Len(calls) = n + 1 /\ calls # << >>
      /\ calls[n + 1] = frame /\ \A i \in 1 .. n : calls[i] = stack[t][i]
  BY <1>3, <1>4, AppendProperties
<1> HIDE DEF n, calls
<1>6. \A i \in 1 .. n + 1 : calls[i].next <= Len(offered)
  BY <1>2, <1>3, <1>4, <1>5 DEF Sound, n
<1>7. \A i \in 1 .. n : calls[i].current # None /\ calls[i + 1].entry = calls[i].current
  <2> TAKE i \in 1 .. n
  <2>1. CASE i = n
    BY <1>1, <1>2, <1>3, <1>5, <2>1
  <2>2. CASE i # n
    <3>1. i \in 1 .. n - 1 /\ i + 1 \in 1 .. n
      BY <1>2, <2>2
    <3> QED BY <1>4, <1>5, <3>1 DEF Sound, n
  <2> QED BY <2>1, <2>2
<1>8. Sound(calls)
  BY <1>1, <1>2, <1>5, <1>6, <1>7, DelayAssumption DEF Sound
<1>9. \A x \in InHand(t) : \E i \in 1 .. Len(calls) : Holds(calls[i], x)
  <2> TAKE x \in InHand(t)
  <2>1. PICK i \in 1 .. n : Holds(stack[t][i], x)
    BY <1>4, InHandIs DEF InHand, n
  <2> QED BY <2>1, <1>2, <1>5
<1>10. \A x \in Timed : stack'[x] # << >> <=> timer'[x] = "pushing"
  BY <1>1, <1>5 DEF IInv, Types, TypeOK, Thread
<1>11. /\ sent' \in Seq(Message) /\ timer' \in [Timed -> TimerStates]
       /\ interrupted' \subseteq {x \in Timed : timer'[x] \in {"running", "pushing"}}
       /\ dropped' = dropped
  BY <1>1 DEF IInv, Types, TypeOK, Running, history
<1> QED BY <1>1, <1>8, <1>9, <1>10, <1>11, Stepped

\* A thread that is done: a timer changes its state, and was not interrupted or
\* is not any more.
LEMMA Finished ==
  ASSUME IInv, NEW t \in Thread, Finish(t), stack' = [stack EXCEPT ![t] = << >>],
         interrupted' = interrupted \ {t}
  PROVE  /\ timer' \in [Timed -> TimerStates]
         /\ interrupted' \subseteq {x \in Timed : timer'[x] \in {"running", "pushing"}}
         /\ \A x \in Timed : stack'[x] # << >> <=> timer'[x] = "pushing"
BY DelayAssumption DEF Finish, IInv, Types, TypeOK, Running, Thread, TimerStates

\* A stack without calls.
LEMMA NoCalls == Sound(<< >>)
BY EmptySeq, DelayAssumption DEF Sound

LEMMA OverflowStep == ASSUME IInv, NEW t \in Thread, Overflow(t) PROVE IInv'
<1>1. /\ stack' = [stack EXCEPT ![t] = << >>] /\ present' = present \ Currents(t)
      /\ dropped' = dropped \cup Currents(t) \cup InHand(t)
      /\ Finish(t) /\ interrupted' = interrupted \ {t}
      /\ UNCHANGED <<offered, sent>>
  BY DEF Overflow
<1>2. /\ timer' \in [Timed -> TimerStates]
      /\ interrupted' \subseteq {x \in Timed : timer'[x] \in {"running", "pushing"}}
      /\ \A x \in Timed : stack'[x] # << >> <=> timer'[x] = "pushing"
  BY <1>1, Finished
<1>3. sent' \in Seq(Message)
  BY <1>1 DEF IInv, Types
<1>4. \A m \in present \cup InHand(t) : m \in present' \cup dropped'
  BY <1>1
<1> QED BY <1>1, <1>2, <1>3, <1>4, NoCalls, Stepped

\* push returns after its texts and its message have been put or dropped.
LEMMA PopStep ==
  ASSUME IInv, NEW t \in Thread, stack[t] # << >>, Pop(t),
         interrupted' = interrupted \ {t}, offered' = offered, sent' \in Seq(Message),
         ToSet(sent) \subseteq ToSet(sent'), dropped \subseteq dropped',
         ToSet(Carried(Top(t))) \subseteq ToSet(sent') \cup dropped'
  PROVE  IInv'
<1> DEFINE n == Len(stack[t])
<1>1. /\ stack[t] \in Seq(Frame) /\ Sound(stack[t])
  BY DEF IInv, Types, Linked
<1>2. /\ n \in Nat \ {0} /\ Top(t) = stack[t][n] /\ n <= MaxDepth
      /\ Top(t).entry \in Message /\ Top(t).text \in Seq(Message)
  BY TopIs
<1>3. \A m : Holds(stack[t][n], m) => m \in ToSet(sent') \cup dropped'
  BY <1>2, Appended DEF Carried, Holds
<1>4. \A m \in InHand(t) : \E i \in 1 .. n : Holds(stack[t][i], m)
  BY <1>1, InHandIs DEF InHand
<1>5. CASE n = 1
  <2>1. stack' = [stack EXCEPT ![t] = << >>] /\ Finish(t) /\ present' = present
    BY <1>5 DEF Pop
  <2>2. /\ timer' \in [Timed -> TimerStates]
        /\ interrupted' \subseteq {x \in Timed : timer'[x] \in {"running", "pushing"}}
        /\ \A x \in Timed : stack'[x] # << >> <=> timer'[x] = "pushing"
    BY <2>1, Finished
  <2>3. \A m \in InHand(t) : m \in ToSet(sent') \cup dropped'
    BY <1>3, <1>4, <1>5
  <2> QED BY <2>1, <2>2, <2>3, NoCalls, Stepped
<1>6. CASE n # 1
  <2> DEFINE caller == stack[t][n - 1]
             frame == [caller EXCEPT !.current = None]
             calls == Append(Front(Front(stack[t])), frame)
  <2>1. /\ stack' = [stack EXCEPT ![t] = calls] /\ timer' = timer
        /\ present' = present \ {caller.current}
    BY <1>6 DEF Pop
  <2>2. /\ n > 1 /\ n - 1 \in 1 .. n /\ n - 1 \in 1 .. n - 1
        /\ n - 1 + 1 = n /\ n - 2 \in Nat
    <3>1. n \in Nat \ {0} /\ n # 1
      BY <1>2, <1>6
    <3> HIDE DEF n
    <3> QED BY <3>1
  <2>3. caller \in Frame /\ caller.next <= Len(offered)
    BY <1>1, <2>2, ElementOfSeq DEF Sound
  <2>4. Top(t).entry = caller.current
    BY <1>1, <1>2, <2>2 DEF Sound
  <2>5. /\ frame \in Frame /\ frame.next <= Len(offered)
        /\ frame.entry = caller.entry /\ frame.text = caller.text
    BY <2>3 DEF Frame
  <2>6. caller.current \in ToSet(sent') \cup dropped'
    BY <1>2, <1>3, <2>4 DEF Holds
  <2> HIDE DEF frame
  <2>7. /\ calls \in Seq(Frame) /\ Len(calls) = n - 1 /\ calls[n - 1] = frame
        /\ \A i \in 1 .. n - 2 : calls[i] = stack[t][i]
    BY <1>1, <2>2, <2>5, TopRemoved
  <2> HIDE DEF calls, n
  <2>8. \A i \in 1 .. n - 1 : /\ calls[i].next <= Len(offered)
                              /\ calls[i].entry = stack[t][i].entry
                              /\ calls[i].text = stack[t][i].text
    <3> TAKE i \in 1 .. n - 1
    <3>1. CASE i = n - 1
      BY <2>5, <2>7, <3>1
    <3>2. CASE i # n - 1
      <4>1. i \in 1 .. n - 2 /\ i \in 1 .. Len(stack[t])
        BY <1>2, <3>2 DEF n
      <4> QED BY <1>1, <2>7, <4>1 DEF Sound
    <3> QED BY <3>1, <3>2
  <2>9. \A i \in 1 .. n - 2 : /\ calls[i].current # None
                              /\ calls[i + 1].entry = calls[i].current
    <3> TAKE i \in 1 .. n - 2
    <3>1. i \in 1 .. Len(stack[t]) - 1 /\ i + 1 \in 1 .. n - 1
      BY <1>2 DEF n
    <3> QED BY <1>1, <2>7, <2>8, <3>1 DEF Sound
  <2>10. Sound(calls) /\ calls # << >>
    <3>1. Len(calls) - 1 = n - 2 /\ Len(calls) <= MaxDepth /\ Len(calls) # 0
      BY <1>2, <2>2, <2>7, DelayAssumption
    <3>2. \A i \in 1 .. Len(calls) : calls[i].next <= Len(offered)
      BY <2>7, <2>8
    <3>3. \A i \in 1 .. Len(calls) - 1 : /\ calls[i].current # None
                                         /\ calls[i + 1].entry = calls[i].current
      BY <2>9, <3>1
    <3>4. calls \in Seq(Frame) /\ calls # << >>
      <4>1. Len(<< >>) = 0
        BY EmptySeq
      <4> QED BY <2>7, <3>1, <4>1
    <3>5. Sound(calls)
      BY ONLY <3>1, <3>2, <3>3, <3>4 DEF Sound
    <3> QED BY <3>4, <3>5
  <2>11. \A m \in InHand(t) : \/ m \in ToSet(sent') \cup dropped'
                              \/ \E i \in 1 .. Len(calls) : Holds(calls[i], m)
    <3> TAKE m \in InHand(t)
    <3>1. PICK i \in 1 .. n : Holds(stack[t][i], m)
      BY <1>4
    <3>2. CASE i = n
      BY <3>1, <3>2, <1>3
    <3>3. CASE i # n
      <4>1. i \in 1 .. n - 1 /\ i \in 1 .. Len(calls)
        BY <1>2, <2>2, <2>7, <3>3
      <4>2. Holds(calls[i], m)
        BY <3>1, <4>1, <2>8 DEF Holds
      <4> QED BY <4>1, <4>2
    <3> QED BY <3>2, <3>3
  <2>12. \A x \in Timed : stack'[x] # << >> <=> timer'[x] = "pushing"
    BY <1>2, <2>1, <2>10 DEF IInv, Types, TypeOK, Thread
  <2>13. /\ timer' \in [Timed -> TimerStates]
         /\ interrupted' \subseteq {x \in Timed : timer'[x] \in {"running", "pushing"}}
    BY <2>1 DEF IInv, Types, TypeOK, Running
  <2> HIDE DEF caller
  <2>14. \A m \in present \cup InHand(t) :
           \/ m \in present' \cup ToSet(sent') \cup dropped'
           \/ \E i \in 1 .. Len(calls) : Holds(calls[i], m)
    BY <2>1, <2>6, <2>11
  <2> QED BY <2>1, <2>10, <2>12, <2>13, <2>14, Stepped
<1> QED BY <1>5, <1>6

LEMMA PutStep == ASSUME IInv, NEW t \in Thread, Put(t) PROVE IInv'
<1>1. /\ stack[t] # << >> /\ t \notin interrupted /\ Pop(t)
      /\ sent' = sent \o Carried(Top(t)) /\ UNCHANGED <<offered, interrupted, dropped>>
  BY DEF Put, history
<1>2. sent \in Seq(Message) /\ Carried(Top(t)) \in Seq(Message)
  BY <1>1, TopIs, AppendProperties DEF Carried, IInv, Types
<1>3. /\ sent' \in Seq(Message)
      /\ ToSet(sent') = ToSet(sent) \cup ToSet(Carried(Top(t)))
  BY <1>1, <1>2, Joined, ConcatProperties
<1>4. interrupted' = interrupted \ {t}
  BY <1>1
<1> QED BY <1>1, <1>3, <1>4, PopStep

LEMMA PutInterruptedStep ==
  ASSUME IInv, NEW t \in Thread, PutInterrupted(t) PROVE IInv'
<1>1. /\ stack[t] # << >> /\ interrupted' = interrupted \ {t} /\ Pop(t)
      /\ dropped' = dropped \cup ToSet(Carried(Top(t))) /\ UNCHANGED <<offered, sent>>
  BY DEF PutInterrupted
<1>2. sent' \in Seq(Message)
  BY <1>1 DEF IInv, Types
<1> QED BY <1>1, <1>2, PopStep

---------------------------------------------------------------------------
(* The steps that begin a push, and those that delay a message.            *)

\* A first call in an idle thread.
LEMMA FirstCall ==
  ASSUME IInv, NEW m \in Message, NEW queue
  PROVE  LET calls == <<Call(m, queue)>>
         IN  /\ Sound(calls) /\ calls # << >> /\ Len(calls) = 1
             /\ Holds(calls[1], m)
<1> DEFINE frame == Call(m, queue)
<1>1. frame \in Frame /\ frame.next <= Len(offered) /\ frame.entry = m
  BY CallIs
<1> HIDE DEF frame
<1>2. /\ <<frame>> \in Seq(Frame) /\ Len(<<frame>>) = 1 /\ <<frame>>[1] = frame
      /\ <<frame>> # << >>
  BY <1>1
<1>3. MaxDepth \in Nat \ {0}
  BY DelayAssumption
<1>4. Sound(<<frame>>) /\ Holds(<<frame>>[1], m)
  BY <1>1, <1>2, <1>3 DEF Sound, Holds
<1> QED BY <1>2, <1>4 DEF frame

\* A thread without calls has nothing in hand.
LEMMA EmptyHanded ==
  ASSUME NEW t \in Thread, stack[t] = << >> PROVE InHand(t) = {}
BY DEF InHand

LEMMA NotifyStep == ASSUME IInv, NEW b \in Message, Notify(b) PROVE IInv'
<1> DEFINE calls == <<Call(b, present)>>
<1>1. /\ stack[Notifier] = << >> /\ stack' = [stack EXCEPT ![Notifier] = calls]
      /\ UNCHANGED <<offered, present, timer, interrupted, sent, dropped>>
  BY DEF Notify
<1>2. Sound(calls) /\ calls # << >>
  BY FirstCall
<1> HIDE DEF calls
<1>3. Notifier \in Thread /\ Notifier \notin Timed /\ InHand(Notifier) = {}
  BY <1>1, EmptyHanded, DelayAssumption DEF Thread
<1>4. /\ sent' \in Seq(Message) /\ timer' \in [Timed -> TimerStates]
      /\ interrupted' \subseteq {x \in Timed : timer'[x] \in {"running", "pushing"}}
      /\ \A x \in Timed : stack'[x] # << >> <=> timer'[x] = "pushing"
  BY <1>1, <1>3 DEF IInv, Types, TypeOK, Running, Thread
<1> QED BY <1>1, <1>2, <1>3, <1>4, Stepped

LEMMA ExpireStep == ASSUME IInv, NEW m \in Timed, Expire(m) PROVE IInv'
<1> DEFINE calls == <<Call(m, present')>>
<1>1. /\ timer[m] = "running" /\ timer' = [timer EXCEPT ![m] = "pushing"]
      /\ present' = present \ {m} /\ stack' = [stack EXCEPT ![m] = calls]
      /\ UNCHANGED <<offered, interrupted, sent, dropped>>
  BY DEF Expire, history
<1>2. m \in Thread /\ m \in Message
  BY DelayAssumption DEF Thread
<1>3. Sound(calls) /\ calls # << >> /\ Len(calls) = 1 /\ Holds(calls[1], m)
  BY <1>2, FirstCall
<1> HIDE DEF calls
<1>4. stack[m] = << >>
  BY <1>1, <1>2 DEF IInv, TypeOK
<1>5. InHand(m) = {}
  BY <1>2, <1>4, EmptyHanded
<1>6. /\ sent' \in Seq(Message) /\ timer' \in [Timed -> TimerStates]
      /\ interrupted' \subseteq {x \in Timed : timer'[x] \in {"running", "pushing"}}
      /\ \A x \in Timed : stack'[x] # << >> <=> timer'[x] = "pushing"
  BY <1>1, <1>2, <1>3 DEF IInv, Types, TypeOK, Running, Thread, TimerStates
<1>7. \A x \in present \cup InHand(m) :
        x \in present' \/ \E i \in 1 .. Len(calls) : Holds(calls[i], x)
  BY <1>1, <1>3, <1>5
<1> QED BY <1>1, <1>2, <1>3, <1>6, <1>7, Stepped

\* A message that gets into the queue stands behind the others.
LEMMA OfferStep ==
  ASSUME IInv, NEW m \in Delayed, Offer(m),
         UNCHANGED <<timer, interrupted, stack, sent, dropped>>
  PROVE  IInv'
<1>1. offered' = Append(offered, m) /\ present' = present \cup {m}
  BY DEF Offer
<1>2. /\ offered' \in Seq(Delayed) /\ Len(offered') = Len(offered) + 1
      /\ ToSet(offered') = ToSet(offered) \cup {m} /\ Len(offered) \in Nat
  BY <1>1, Appended, AppendProperties DEF IInv, Types
<1>3. Types'
  BY <1>2 DEF IInv, Types
<1>4. TypeOK'
  BY <1>1, <1>2 DEF IInv, TypeOK, Running
<1>5. Linked'
  <2> SUFFICES ASSUME NEW t \in Thread
               PROVE  /\ stack[t] \in Seq(Frame) /\ Len(stack[t]) <= MaxDepth
                      /\ \A i \in 1 .. Len(stack[t]) : stack[t][i].next <= Len(offered')
                      /\ \A i \in 1 .. Len(stack[t]) - 1 :
                           /\ stack[t][i].current # None
                           /\ stack[t][i + 1].entry = stack[t][i].current
    BY DEF Linked, Sound
  <2>1. Sound(stack[t])
    BY DEF IInv, Linked
  <2>2. \A i \in 1 .. Len(stack[t]) : stack[t][i].next <= Len(offered')
    <3> TAKE i \in 1 .. Len(stack[t])
    <3>1. stack[t][i] \in Frame
      BY <2>1, ElementOfSeq DEF Sound
    <3>2. stack[t][i].next \in Nat /\ stack[t][i].next <= Len(offered)
      BY <2>1, <3>1 DEF Sound, Frame
    <3> QED BY <1>2, <3>2
  <2> QED BY <2>1, <2>2 DEF Sound
<1>6. NoTextForgotten'
  <2>1. \A t \in Thread : InHand(t)' = InHand(t)
    BY DEF InHand, Carried
  <2> QED BY <1>1, <1>2, <2>1 DEF IInv, NoTextForgotten
<1> QED BY <1>3, <1>4, <1>5, <1>6 DEF IInv

\* A timer that does not push yet changes its state.
LEMMA TimerChanged ==
  ASSUME IInv, NEW m \in Timed, NEW s \in {"armed", "running"},
         timer[m] \in {"unset", "armed"}, timer' = [timer EXCEPT ![m] = s],
         UNCHANGED <<offered, present, interrupted, stack, sent, dropped>>
  PROVE  IInv'
<1>1. Types' /\ TypeOK'
  BY DEF IInv, Types, TypeOK, Running, TimerStates
<1>2. Linked'
  BY DEF IInv, Linked, Sound
<1>3. NoTextForgotten'
  BY DEF IInv, NoTextForgotten, InHand, Carried
<1> QED BY <1>1, <1>2, <1>3 DEF IInv

LEMMA Invariance == ASSUME IInv, [Next]_vars PROVE IInv'
<1>1. ASSUME NEW m \in Delayed, Delay(m) PROVE IInv'
  BY <1>1, OfferStep DEF Delay, history
<1>2. ASSUME NEW m \in Timed, Schedule(m) PROVE IInv'
  BY <1>2, TimerChanged DEF Schedule, history
<1>3. ASSUME NEW m \in Timed, DelayTimed(m) PROVE IInv'
  BY <1>3, OfferStep, DelayAssumption DEF DelayTimed, history
<1>4. ASSUME NEW m \in Timed, Fire(m) PROVE IInv'
  BY <1>4, TimerChanged DEF Fire, history
<1>5. ASSUME NEW m \in Timed, Expire(m) PROVE IInv'
  BY <1>5, ExpireStep
<1>6. ASSUME NEW b \in Message, Notify(b) PROVE IInv'
  BY <1>6, NotifyStep
<1>7. ASSUME NEW t \in Thread, PushStep(t) PROVE IInv'
  BY <1>7, TakeStep, MergeStep, NestStep, OverflowStep, PutStep, PutInterruptedStep
     DEF PushStep
<1>8. CASE UNCHANGED vars
  <2>1. Types' /\ TypeOK'
    BY <1>8 DEF vars, IInv, Types, TypeOK, Running
  <2>2. Linked'
    BY <1>8 DEF vars, IInv, Linked, Sound
  <2>3. NoTextForgotten'
    BY <1>8 DEF vars, IInv, NoTextForgotten, InHand, Carried
  <2> QED BY <2>1, <2>2, <2>3 DEF IInv
<1> QED BY <1>1, <1>2, <1>3, <1>4, <1>5, <1>6, <1>7, <1>8 DEF Next, TimerStep

LEMMA Initially == Init => IInv
<1> SUFFICES ASSUME Init PROVE IInv
  OBVIOUS
<1>1. \A t \in Thread : stack[t] = << >>
  BY DEF Init
<1>2. Types
  BY EmptySeq DEF Init, Types, TimerStates
<1>3. TypeOK
  BY <1>1, EmptySeq, DelayAssumption DEF Init, TypeOK, Running, Thread, ToSet
<1>4. Linked
  BY <1>1, NoCalls DEF Linked
<1>5. NoTextForgotten
  BY DEF Init, NoTextForgotten, ToSet
<1> QED BY <1>2, <1>3, <1>4, <1>5 DEF IInv

---------------------------------------------------------------------------
(* The first broadcast after a text carries it.  While only texts are      *)
(* delayed and broadcast, and no timer is set, the notifier alone pushes,  *)
(* with one call of push.  What was in the queue when it took its message  *)
(* is then in its texts, or its current entry, or still in the queue at or *)
(* behind the iterator's place.                                            *)

\* m is in the queue at a place that the iterator has not passed.
Ahead(m, place) ==
  /\ place # 0 /\ m \in present
  /\ \E j \in 1 .. Len(offered) : place <= j /\ offered[j] = m

Collected(m, frame) ==
  m \in ToSet(frame.text) \/ m = frame.current \/ Ahead(m, frame.next)

Carrying ==
  LET calls == stack[Notifier]
  IN  /\ Len(calls) <= 1 /\ interrupted = {}
      /\ \A t \in Timed : stack[t] = << >>
      /\ calls = << >> => due \subseteq ToSet(sent)
      /\ calls # << >> => /\ calls[1].entry \in Text
                          /\ calls[1].current \in Text \cup {None}
                          /\ \A m \in due : Collected(m, calls[1])

FirstBroadcast == due \subseteq ToSet(offered) /\ (OnlyTexts => Carrying)

\* The iterator passes over nothing that is in the queue.
LEMMA NothingPassed ==
  ASSUME offered \in Seq(Delayed), NEW i \in Nat, NEW j \in 1 .. Len(offered), i < j,
         offered[j] \in present
  PROVE  After(i, present) # 0 /\ After(i, present) <= j
<1> DEFINE places == {k \in i + 1 .. Len(offered) : offered[k] \in present}
<1>1. places \in SUBSET Nat /\ j \in places
  OBVIOUS
<1>2. After(i, present) = Min(places)
  BY <1>1 DEF After
<1> HIDE DEF places
<1>3. Min(places) \in places /\ Min(places) <= j
  BY <1>1, MinIsIn
<1>4. Min(places) # 0
  BY <1>3 DEF places
<1> QED BY <1>2, <1>3, <1>4

\* Nothing leaves what was offered, broadcast or set, and what is due changes
\* only to what is in the queue.
Growing ==
  /\ ToSet(offered) \subseteq ToSet(offered') /\ broadcasts \subseteq broadcasts'
  /\ \A m \in Timed : timer'[m] = "unset" => timer[m] = "unset"
  /\ due' \in {due, present}

LEMMA Grows == ASSUME IInv, [Next]_vars PROVE Growing
<1>1. ASSUME NEW m \in Delayed, Offer(m) PROVE ToSet(offered) \subseteq ToSet(offered')
  BY <1>1, Appended DEF Offer, IInv, Types
<1>2. timer \in [Timed -> TimerStates]
  BY DEF IInv, Types
<1>3. CASE UNCHANGED vars
  BY <1>3 DEF vars, Growing
<1>4. ASSUME NEW m \in Delayed, Delay(m) PROVE Growing
  BY <1>1, <1>4 DEF Delay, history, Growing
<1>5. ASSUME NEW m \in Timed, Schedule(m) \/ TimerStep(m) PROVE Growing
  BY <1>1, <1>2, <1>5, DelayAssumption
     DEF Schedule, TimerStep, DelayTimed, Fire, Expire, history, Growing
<1>6. ASSUME NEW b \in Message, Notify(b) PROVE Growing
  BY <1>6 DEF Notify, Growing
<1>7. ASSUME NEW t \in Thread, PushStep(t) PROVE Growing
  BY <1>2, <1>7
     DEF PushStep, Take, Cancel, Running, Merge, Nest, Overflow, Put, PutInterrupted, Pop, Finish,
         history, Growing
<1> QED BY <1>3, <1>4, <1>5, <1>6, <1>7 DEF Next

\* What holds while there are only texts.
LEMMA Before ==
  ASSUME IInv, FirstBroadcast, OnlyTexts', [Next]_vars
  PROVE  /\ OnlyTexts /\ Carrying /\ due \subseteq Delayed
         /\ offered \in Seq(Delayed) /\ stack \in [Thread -> Seq(Frame)]
         /\ Notifier \in Thread /\ \A t \in Thread : t # Notifier => stack[t] = << >>
<1>1. OnlyTexts
  BY Grows DEF Growing, OnlyTexts
<1>2. due \subseteq Delayed
  BY DEF FirstBroadcast, IInv, TypeOK
<1> QED BY <1>1, <1>2 DEF FirstBroadcast, IInv, Types, Thread, Carrying

\* The notifier's only call, and the same call after it has changed.
LEMMA OnlyCall ==
  ASSUME IInv, Carrying, stack[Notifier] # << >>
  PROVE  /\ Len(stack[Notifier]) = 1 /\ Top(Notifier) = stack[Notifier][1]
         /\ \A frame \in Frame : /\ Append(Front(stack[Notifier]), frame) = <<frame>>
                                 /\ <<frame>>[1] = frame /\ Len(<<frame>>) = 1
                                 /\ <<frame>> # << >>
<1>1. stack[Notifier] \in Seq(Frame) /\ Notifier \in Thread
  BY DEF IInv, Types, Thread
<1>2. Len(stack[Notifier]) = 1
  <2>1. Len(stack[Notifier]) \in Nat \ {0}
    BY <1>1, EmptySeq
  <2>2. Len(stack[Notifier]) <= 1
    BY DEF Carrying
  <2>3. \A n \in Nat \ {0} : n <= 1 => n = 1
    OBVIOUS
  <2> QED BY <2>1, <2>2, <2>3
<1>3. Front(stack[Notifier]) = << >>
  BY <1>2, SubSeqEmpty DEF Front
<1> QED BY <1>2, <1>3 DEF Top, Last

LEMMA CarryingOffer ==
  ASSUME IInv, FirstBroadcast, OnlyTexts', [Next]_vars, NEW x \in Delayed, Delay(x)
  PROVE  Carrying'
<1>1. /\ offered' = Append(offered, x) /\ present' = present \cup {x}
      /\ UNCHANGED <<stack, interrupted, sent, due>>
  BY DEF Delay, Offer, history
<1>2. Carrying /\ offered \in Seq(Delayed)
  BY Before
<1>3. ASSUME NEW m, NEW place, Ahead(m, place) PROVE Ahead(m, place)'
  <2>1. PICK j \in 1 .. Len(offered) : place <= j /\ offered[j] = m
    BY <1>3 DEF Ahead
  <2>2. offered'[j] = m /\ j \in 1 .. Len(offered')
    BY <1>1, <1>2, <2>1, AppendProperties
  <2> QED BY <1>1, <1>3, <2>1, <2>2 DEF Ahead
<1>4. \A m, frame : Collected(m, frame) => Collected(m, frame)'
  BY <1>3 DEF Collected
<1> QED BY <1>1, <1>2, <1>4 DEF Carrying

LEMMA CarryingNotify ==
  ASSUME IInv, FirstBroadcast, OnlyTexts', [Next]_vars, NEW b \in Message, Notify(b)
  PROVE  Carrying'
<1> DEFINE frame == Call(b, present)
<1>1. /\ stack' = [stack EXCEPT ![Notifier] = <<frame>>] /\ due' = present
      /\ broadcasts' = broadcasts \cup {b}
      /\ UNCHANGED <<offered, present, interrupted, sent>>
  BY DEF Notify
<1>2. /\ Carrying /\ offered \in Seq(Delayed) /\ stack \in [Thread -> Seq(Frame)]
      /\ Notifier \in Thread /\ Notifier \notin Timed
  BY Before, DelayAssumption
<1>3. b \in Text
  BY <1>1 DEF OnlyTexts
<1>4. frame.entry = b /\ frame.current = None /\ frame.next = After(0, present)
  BY DEF Call
<1>5. ASSUME NEW m \in present
      PROVE  /\ frame.next # 0 /\ m \in present'
             /\ \E j \in 1 .. Len(offered') : frame.next <= j /\ offered'[j] = m
  <2>1. PICK j \in 1 .. Len(offered) : offered[j] = m
    BY <1>2 DEF IInv, TypeOK, ToSet
  <2>2. After(0, present) # 0 /\ After(0, present) <= j
    BY <1>2, <2>1, NothingPassed
  <2> QED BY <1>1, <1>4, <2>1, <2>2
<1> HIDE DEF frame
<1>6. stack'[Notifier] = <<frame>> /\ \A t \in Timed : stack'[t] = stack[t]
  BY <1>1, <1>2 DEF Thread
<1>7. Len(<<frame>>) = 1 /\ <<frame>>[1] = frame /\ <<frame>> # << >>
  OBVIOUS
<1>8. \A m \in due' : Collected(m, stack[Notifier][1])'
  BY <1>1, <1>5, <1>6, <1>7 DEF Collected, Ahead
<1> QED BY <1>1, <1>2, <1>3, <1>4, <1>6, <1>7, <1>8 DEF Carrying

\* A step of the notifier inside its only call.
LEMMA CarryingInside ==
  ASSUME IInv, FirstBroadcast, OnlyTexts', [Next]_vars, NEW frame \in Frame,
         stack[Notifier] # << >>, SetTop(Notifier, frame),
         UNCHANGED <<interrupted, due, offered>>,
         frame.entry = stack[Notifier][1].entry, frame.current \in Text \cup {None},
         \A m \in due :
           \/ m \in ToSet(frame.text) \/ m = frame.current
           \/ /\ frame.next # 0 /\ m \in present'
              /\ \E j \in 1 .. Len(offered) : frame.next <= j /\ offered[j] = m
  PROVE  Carrying'
<1>1. /\ Carrying /\ stack \in [Thread -> Seq(Frame)]
      /\ Notifier \in Thread /\ Notifier \notin Timed
  BY Before, DelayAssumption
<1>2. stack' = [stack EXCEPT ![Notifier] = <<frame>>]
  BY <1>1, OnlyCall DEF SetTop
<1>3. stack'[Notifier] = <<frame>> /\ \A t \in Timed : stack'[t] = stack[t]
  BY <1>1, <1>2 DEF Thread
<1>4. Len(<<frame>>) = 1 /\ <<frame>>[1] = frame /\ <<frame>> # << >>
  OBVIOUS
<1>5. \A m \in due' : Collected(m, stack[Notifier][1])'
  BY <1>3, <1>4 DEF Collected, Ahead
<1>6. frame.entry \in Text
  BY <1>1 DEF Carrying
<1> QED BY <1>1, <1>3, <1>4, <1>5, <1>6 DEF Carrying

LEMMA CarryingTake ==
  ASSUME IInv, FirstBroadcast, OnlyTexts', [Next]_vars, Take(Notifier)
  PROVE  Carrying'
<1> DEFINE place == Top(Notifier).next
           next == After(place, present)
           frame == [Top(Notifier) EXCEPT !.current = offered[place], !.next = next]
<1>1. /\ stack[Notifier] # << >> /\ Top(Notifier).current = None /\ place # 0
      /\ SetTop(Notifier, frame) /\ Cancel(offered[place])
      /\ UNCHANGED <<offered, present, due>>
  BY DEF Take
<1>2. /\ OnlyTexts /\ Carrying /\ offered \in Seq(Delayed) /\ Notifier \in Thread
      /\ due \subseteq Delayed
  BY Before
<1>3. /\ Top(Notifier) = stack[Notifier][1] /\ Top(Notifier) \in Frame
      /\ place \in 1 .. Len(offered) /\ place \in Nat
  BY <1>1, <1>2, TopIs, OnlyCall
<1>4. offered[place] \in Delayed /\ offered[place] \in Text
  BY <1>2, <1>3, ElementOfSeq DEF OnlyTexts, ToSet
<1>5. next \in Nat
  BY <1>2, <1>3, AfterIsPlace
<1>6. /\ frame \in Frame /\ frame.entry = Top(Notifier).entry
      /\ frame.text = Top(Notifier).text /\ frame.current = offered[place]
      /\ frame.next = next
  BY <1>3, <1>4, <1>5 DEF Frame
<1>7. interrupted' = interrupted
  BY <1>1, <1>2 DEF Cancel, Running, OnlyTexts
<1>8. ASSUME NEW m \in due
      PROVE  \/ m \in ToSet(frame.text) \/ m = frame.current
             \/ /\ frame.next # 0 /\ m \in present'
                /\ \E j \in 1 .. Len(offered) : frame.next <= j /\ offered[j] = m
  <2>1. m # None /\ Collected(m, Top(Notifier))
    BY <1>1, <1>2, <1>3, DelayAssumption DEF Carrying
  <2>2. CASE m \in ToSet(Top(Notifier).text)
    BY <1>6, <2>2
  <2>3. CASE Ahead(m, place)
    <3>1. PICK j \in 1 .. Len(offered) : place <= j /\ offered[j] = m
      BY <2>3 DEF Ahead
    <3>2. CASE j = place
      BY <1>6, <3>1, <3>2
    <3>3. CASE j # place
      <4>1. place < j /\ m \in present
        BY <1>3, <2>3, <3>1, <3>3 DEF Ahead
      <4>2. next # 0 /\ next <= j
        BY <1>2, <1>3, <3>1, <4>1, NothingPassed
      <4> QED BY <1>1, <1>6, <3>1, <4>1, <4>2
    <3> QED BY <3>2, <3>3
  <2> QED BY <1>1, <2>1, <2>2, <2>3 DEF Collected
<1> HIDE DEF frame, next, place
<1> QED BY <1>1, <1>3, <1>4, <1>6, <1>7, <1>8, CarryingInside

LEMMA CarryingMerge ==
  ASSUME IInv, FirstBroadcast, OnlyTexts', [Next]_vars, Merge(Notifier)
  PROVE  Carrying'
<1> DEFINE x == Top(Notifier).current
           frame == [Top(Notifier) EXCEPT !.text = Append(@, x), !.current = None]
<1>1. /\ stack[Notifier] # << >> /\ x # None /\ SetTop(Notifier, frame)
      /\ present' = present \ {x} /\ UNCHANGED <<offered, interrupted, due>>
  BY DEF Merge, history
<1>2. Carrying /\ Notifier \in Thread
  BY Before
<1>3. /\ Top(Notifier) = stack[Notifier][1] /\ Top(Notifier) \in Frame
      /\ x \in Delayed /\ Top(Notifier).text \in Seq(Message)
  BY <1>1, <1>2, TopIs, OnlyCall
<1>4. /\ Append(Top(Notifier).text, x) \in Seq(Message)
      /\ ToSet(Append(Top(Notifier).text, x)) = ToSet(Top(Notifier).text) \cup {x}
  BY <1>3, Appended, DelayAssumption
<1>5. /\ frame \in Frame /\ frame.entry = Top(Notifier).entry /\ frame.current = None
      /\ ToSet(frame.text) = ToSet(Top(Notifier).text) \cup {x}
      /\ frame.next = Top(Notifier).next
  BY <1>3, <1>4 DEF Frame
<1>6. \A m \in due : Collected(m, Top(Notifier))
  BY <1>1, <1>2, <1>3 DEF Carrying
<1> HIDE DEF frame, x
<1>7. \A m \in due :
        \/ m \in ToSet(frame.text) \/ m = frame.current
        \/ /\ frame.next # 0 /\ m \in present'
           /\ \E j \in 1 .. Len(offered) : frame.next <= j /\ offered[j] = m
  BY <1>1, <1>5, <1>6 DEF Collected, Ahead, x
<1> QED BY <1>1, <1>3, <1>5, <1>7, CarryingInside

LEMMA CarryingPut ==
  ASSUME IInv, FirstBroadcast, OnlyTexts', [Next]_vars, Put(Notifier)
  PROVE  Carrying'
<1>1. /\ stack[Notifier] # << >> /\ Top(Notifier).current = None
      /\ Top(Notifier).next = 0 /\ sent' = sent \o Carried(Top(Notifier)) /\ Pop(Notifier)
      /\ UNCHANGED <<offered, interrupted, due>>
  BY DEF Put, history
<1>2. /\ Carrying /\ due \subseteq Delayed /\ stack \in [Thread -> Seq(Frame)]
      /\ Notifier \in Thread /\ Notifier \notin Timed
  BY Before, DelayAssumption
<1>3. /\ Top(Notifier) = stack[Notifier][1] /\ Len(stack[Notifier]) = 1
      /\ Top(Notifier).text \in Seq(Message) /\ Top(Notifier).entry \in Message
  BY <1>1, <1>2, TopIs, OnlyCall
<1>4. stack' = [stack EXCEPT ![Notifier] = << >>]
  BY <1>1, <1>3 DEF Pop
<1>5. due \subseteq ToSet(Top(Notifier).text)
  <2>1. \A m \in due : Collected(m, Top(Notifier))
    BY <1>1, <1>2, <1>3 DEF Carrying
  <2>2. None \notin due
    BY <1>2, DelayAssumption
  <2> QED BY <1>1, <2>1, <2>2 DEF Collected, Ahead
<1>6. /\ Carried(Top(Notifier)) \in Seq(Message) /\ sent \in Seq(Message)
      /\ ToSet(Top(Notifier).text) \subseteq ToSet(Carried(Top(Notifier)))
  BY <1>3, Appended, AppendProperties DEF Carried, IInv, Types
<1>7. due \subseteq ToSet(sent')
  BY <1>1, <1>5, <1>6, Joined
<1>8. stack'[Notifier] = << >> /\ \A t \in Timed : stack'[t] = stack[t]
  BY <1>2, <1>4 DEF Thread
<1>9. Len(<< >>) <= 1
  BY EmptySeq
<1> QED BY <1>1, <1>2, <1>7, <1>8, <1>9 DEF Carrying

LEMMA CarryingKept ==
  ASSUME IInv, FirstBroadcast, OnlyTexts', [Next]_vars PROVE Carrying'
<1>1. OnlyTexts /\ Carrying /\ \A t \in Thread : t # Notifier => stack[t] = << >>
  BY Before
<1>2. timer \in [Timed -> TimerStates]
  BY DEF IInv, Types
<1>3. ASSUME NEW m \in Timed PROVE ~ Schedule(m) /\ ~ TimerStep(m)
  BY <1>1, <1>2 DEF OnlyTexts, Schedule, TimerStep, DelayTimed, Fire, Expire
<1>4. ASSUME NEW t \in Thread, PushStep(t) PROVE Carrying'
  <2>1. stack[t] # << >>
    BY <1>4 DEF PushStep, Take, Merge, Nest, Overflow, Put, PutInterrupted
  <2>2. t = Notifier
    BY <1>1, <2>1
  <2>3. ~ Nest(t) /\ ~ Overflow(t) /\ ~ PutInterrupted(t)
    <3>1. Top(t) = stack[Notifier][1]
      BY <1>1, <2>1, <2>2, OnlyCall
    <3>2. Top(t).entry \in Text /\ Top(t).current \in Text \cup {None} /\ interrupted = {}
      BY <1>1, <2>1, <2>2, <3>1 DEF Carrying
    <3> QED BY <3>2 DEF Nest, Overflow, PutInterrupted
  <2> QED BY <1>4, <2>2, <2>3, CarryingTake, CarryingMerge, CarryingPut DEF PushStep
<1>5. CASE UNCHANGED vars
  <2>1. \A m, frame : Collected(m, frame)' <=> Collected(m, frame)
    BY <1>5 DEF vars, Collected, Ahead
  <2> QED BY <1>1, <1>5, <2>1 DEF vars, Carrying
<1>6. CASE Next
  BY <1>3, <1>4, <1>6, CarryingOffer, CarryingNotify DEF Next
<1> QED BY <1>5, <1>6

LEMMA FirstBroadcastKept ==
  ASSUME IInv, FirstBroadcast, [Next]_vars PROVE FirstBroadcast'
<1>1. due' \subseteq ToSet(offered')
  BY Grows DEF Growing, FirstBroadcast, IInv, TypeOK
<1>2. OnlyTexts' => Carrying'
  BY CarryingKept
<1> QED BY <1>1, <1>2 DEF FirstBroadcast

LEMMA FirstBroadcastInitially == Init => FirstBroadcast
<1> SUFFICES ASSUME Init PROVE FirstBroadcast
  OBVIOUS
<1>1. \A t \in Thread : stack[t] = << >>
  BY DEF Init
<1>2. Notifier \in Thread /\ Timed \subseteq Thread
  BY DEF Thread
<1>3. due = {} /\ interrupted = {}
  BY DEF Init
<1>4. Len(<< >>) <= 1
  BY EmptySeq
<1> QED BY <1>1, <1>2, <1>3, <1>4 DEF FirstBroadcast, Carrying

---------------------------------------------------------------------------
(* The order of the queue.  While there are only texts without timers, they *)
(* leave the queue from its front: the first g have been sent or are in    *)
(* front of what the notifier is about to send, and the iterator stands    *)
(* right behind them, or at the end of what it saw.                        *)

\* The delayed messages in s are the first g of the queue, in their order.
InStep(queue, s, g) ==
  /\ ToSet(s) \cap Delayed = {queue[l] : l \in 1 .. g}
  /\ \A i \in 1 .. Len(s) : s[i] \in Delayed =>
       \E k \in 1 .. Len(queue) :
         /\ s[i] = queue[k]
         /\ {s[j] : j \in 1 .. i - 1} \cap Delayed = {queue[l] : l \in 1 .. k - 1}

\* The call goes through the queue behind the first g messages.
Stands(queue, frame, g) ==
  /\ frame.entry \notin Delayed
  /\ \/ frame.current = None /\ frame.next \in {0, g + 1}
     \/ g < Len(queue) /\ frame.current = queue[g + 1] /\ frame.next \in {0, g + 2}

Leaving(g) ==
  /\ present = {offered[k] : k \in g + 1 .. Len(offered)}
  /\ stack[Notifier] = << >> => InStep(offered, sent, g)
  /\ stack[Notifier] # << >> => /\ InStep(offered, sent \o stack[Notifier][1].text, g)
                                /\ Stands(offered, stack[Notifier][1], g)

Distinct == \A i, j \in 1 .. Len(offered) : offered[i] = offered[j] => i = j

InLine == Distinct /\ (OnlyTexts => \E g \in 0 .. Len(offered) : Leaving(g))

\* The next message of the queue is put behind the others.
LEMMA StepOn ==
  ASSUME NEW queue \in Seq(Delayed), NEW g \in Nat, g < Len(queue),
         NEW s \in Seq(Message), InStep(queue, s, g)
  PROVE  InStep(queue, Append(s, queue[g + 1]), g + 1)
<1> DEFINE x == queue[g + 1]
           t == Append(s, x)
           n == Len(s)
<1>1. /\ g + 1 \in 1 .. Len(queue) /\ x \in Delayed /\ x \in Message /\ n \in Nat
      /\ (1 .. g + 1) = (1 .. g) \cup {g + 1} /\ DOMAIN s = 1 .. n /\ g + 1 - 1 = g
  BY ElementOfSeq, DelayAssumption
<1>2. /\ Len(t) = n + 1 /\ t[n + 1] = x /\ \A i \in 1 .. n : t[i] = s[i]
  BY <1>1, AppendProperties
<1>3. ToSet(t) = ToSet(s) \cup {x}
  BY <1>1, Appended
<1>4. /\ ToSet(s) \cap Delayed = {queue[l] : l \in 1 .. g}
      /\ \A i \in 1 .. n : s[i] \in Delayed =>
           \E k \in 1 .. Len(queue) :
             /\ s[i] = queue[k]
             /\ {s[j] : j \in 1 .. i - 1} \cap Delayed = {queue[l] : l \in 1 .. k - 1}
  BY DEF InStep
<1>5. {queue[l] : l \in 1 .. g + 1} = {queue[l] : l \in 1 .. g} \cup {x}
  BY <1>1
<1> HIDE DEF t, x
<1>6. ToSet(t) \cap Delayed = {queue[l] : l \in 1 .. g + 1}
  BY <1>1, <1>3, <1>4, <1>5
<1>7. ASSUME NEW i \in 1 .. n + 1, t[i] \in Delayed
      PROVE  \E k \in 1 .. Len(queue) :
               /\ t[i] = queue[k]
               /\ {t[j] : j \in 1 .. i - 1} \cap Delayed = {queue[l] : l \in 1 .. k - 1}
  <2>1. i \in 1 .. n \/ i = n + 1
    BY <1>1
  <2>2. {t[j] : j \in 1 .. i - 1} = {s[j] : j \in 1 .. i - 1}
    <3>1. \A j \in 1 .. i - 1 : j \in 1 .. n
      BY <1>1
    <3> QED BY <3>1, <1>2
  <2>3. CASE i \in 1 .. n
    BY <2>2, <2>3, <1>2, <1>4, <1>7
  <2>4. CASE i = n + 1
    <3>1. i - 1 = n
      BY <2>4, <1>1
    <3>2. {t[j] : j \in 1 .. i - 1} = ToSet(s)
      BY <3>1, <2>2, <1>1 DEF ToSet
    <3>3. t[i] = queue[g + 1]
      BY <2>4, <1>2 DEF x
    <3>4. {t[j] : j \in 1 .. i - 1} \cap Delayed = {queue[l] : l \in 1 .. g}
      BY <3>2, <1>4
    <3>5. {queue[l] : l \in 1 .. g} = {queue[l] : l \in 1 .. g + 1 - 1}
      BY <1>1
    <3> WITNESS g + 1 \in 1 .. Len(queue)
    <3> QED BY <3>3, <3>4, <3>5
  <2> QED BY <2>1, <2>3, <2>4
<1> HIDE DEF n
<1>8. InStep(queue, t, g + 1)
  BY <1>2, <1>6, <1>7 DEF InStep
<1> QED BY <1>8 DEF t, x

\* A message that was not delayed is put behind the others.
LEMMA StepAside ==
  ASSUME NEW queue \in Seq(Delayed), NEW g \in Nat,
         NEW s \in Seq(Message), NEW x \in Message \ Delayed, InStep(queue, s, g)
  PROVE  InStep(queue, Append(s, x), g)
<1> DEFINE t == Append(s, x)
           n == Len(s)
<1>1. n \in Nat /\ DOMAIN s = 1 .. n
  OBVIOUS
<1>2. /\ Len(t) = n + 1 /\ t[n + 1] = x /\ \A i \in 1 .. n : t[i] = s[i]
  BY AppendProperties
<1>3. ToSet(t) = ToSet(s) \cup {x}
  BY Appended
<1> HIDE DEF t
<1>4. ToSet(t) \cap Delayed = {queue[l] : l \in 1 .. g}
  BY <1>3 DEF InStep
<1>5. ASSUME NEW i \in 1 .. n + 1, t[i] \in Delayed
      PROVE  \E k \in 1 .. Len(queue) :
               /\ t[i] = queue[k]
               /\ {t[j] : j \in 1 .. i - 1} \cap Delayed = {queue[l] : l \in 1 .. k - 1}
  <2>1. i \in 1 .. n
    BY <1>1, <1>2, <1>5
  <2>2. {t[j] : j \in 1 .. i - 1} = {s[j] : j \in 1 .. i - 1}
    <3>1. \A j \in 1 .. i - 1 : j \in 1 .. n
      BY <1>1
    <3> QED BY <3>1, <1>2
  <2> QED BY <2>1, <2>2, <1>2, <1>5 DEF InStep
<1> HIDE DEF n
<1>6. InStep(queue, t, g)
  BY <1>2, <1>4, <1>5 DEF InStep
<1> QED BY <1>6 DEF t

\* The queue gets longer.
LEMMA StepLonger ==
  ASSUME NEW queue \in Seq(Delayed), NEW x \in Delayed, NEW g \in 0 .. Len(queue),
         NEW s, InStep(queue, s, g)
  PROVE  InStep(Append(queue, x), s, g)
<1> DEFINE more == Append(queue, x)
           n == Len(queue)
<1>1. /\ n \in Nat /\ Len(more) = n + 1 /\ \A k \in 1 .. n : more[k] = queue[k]
  BY AppendProperties
<1> HIDE DEF more
<1>2. \A k \in 0 .. n : {more[l] : l \in 1 .. k} = {queue[l] : l \in 1 .. k}
  <2> TAKE k \in 0 .. n
  <2>1. \A l \in 1 .. k : l \in 1 .. n
    BY <1>1
  <2> QED BY <2>1, <1>1
<1>3. \A k \in 1 .. n : k - 1 \in 0 .. n /\ k \in 1 .. n + 1
  BY <1>1
<1>4. ToSet(s) \cap Delayed = {more[l] : l \in 1 .. g}
  BY <1>2 DEF InStep
<1>5. ASSUME NEW i \in 1 .. Len(s), s[i] \in Delayed
      PROVE  \E k \in 1 .. n + 1 :
               /\ s[i] = more[k]
               /\ {s[j] : j \in 1 .. i - 1} \cap Delayed = {more[l] : l \in 1 .. k - 1}
  <2>1. PICK k \in 1 .. n :
          /\ s[i] = queue[k]
          /\ {s[j] : j \in 1 .. i - 1} \cap Delayed = {queue[l] : l \in 1 .. k - 1}
    BY <1>5 DEF InStep
  <2>2. k \in 1 .. n + 1 /\ s[i] = more[k]
    BY <2>1, <1>1, <1>3
  <2>3. {more[l] : l \in 1 .. k - 1} = {queue[l] : l \in 1 .. k - 1}
    BY <1>2, <1>3
  <2> QED BY <2>1, <2>2, <2>3
<1> HIDE DEF n
<1>6. InStep(more, s, g)
  BY <1>1, <1>4, <1>5 DEF InStep
<1> QED BY <1>6 DEF more

\* The iterator's next place is the first that is still in the queue.
LEMMA NextPlace ==
  ASSUME offered \in Seq(Delayed), Distinct, NEW g \in 0 .. Len(offered),
         present = {offered[k] : k \in g + 1 .. Len(offered)},
         NEW i \in Nat, NEW h \in Nat, i <= h, g <= h, i = h \/ g = h
  PROVE  After(i, present) \in {0, h + 1}
<1> DEFINE places == {j \in i + 1 .. Len(offered) : offered[j] \in present}
<1>1. Len(offered) \in Nat /\ g \in Nat
  OBVIOUS
<1>2. \A j \in 1 .. Len(offered) : offered[j] \in present <=> g < j
  <2> TAKE j \in 1 .. Len(offered)
  <2>1. CASE g < j
    <3>1. j \in g + 1 .. Len(offered)
      BY <2>1, <1>1
    <3> QED BY <2>1, <3>1
  <2>2. CASE offered[j] \in present
    <3>1. PICK k \in g + 1 .. Len(offered) : offered[j] = offered[k]
      BY <2>2
    <3>2. k \in 1 .. Len(offered) /\ g < k
      BY <1>1
    <3>3. j = k
      BY <3>1, <3>2 DEF Distinct
    <3> QED BY <2>2, <3>2, <3>3
  <2> QED BY <2>1, <2>2
<1>3. \A j \in places : j \in Nat /\ h + 1 <= j /\ j <= Len(offered)
  BY <1>1, <1>2
<1>4. places # {} => h + 1 \in places
  <2> SUFFICES ASSUME NEW j \in places PROVE h + 1 \in places
    OBVIOUS
  <2>1. h + 1 \in i + 1 .. Len(offered) /\ h + 1 \in 1 .. Len(offered) /\ g < h + 1
    BY <1>1, <1>3
  <2>2. offered[h + 1] \in present
    BY <1>2, <2>1
  <2> QED BY <2>1, <2>2
<1>5. After(i, present) = IF places = {} THEN 0 ELSE Min(places)
  BY DEF After
<1> HIDE DEF places
<1>6. places # {} => Min(places) = h + 1
  <2> SUFFICES ASSUME places # {} PROVE Min(places) = h + 1
    OBVIOUS
  <2>1. places \in SUBSET Nat
    BY <1>3
  <2>2. Min(places) \in places /\ \A y \in places : Min(places) =< y
    BY <2>1, MinIsIn
  <2>3. Min(places) \in Nat /\ h + 1 <= Min(places) /\ Min(places) <= h + 1
    BY <1>3, <1>4, <2>2
  <2> HIDE DEF Min
  <2> QED BY <2>3
<1> QED BY <1>5, <1>6

LEMMA DistinctKept == ASSUME IInv, Distinct, [Next]_vars PROVE Distinct'
<1>1. offered \in Seq(Delayed) /\ Len(offered) \in Nat /\ DOMAIN offered = 1 .. Len(offered)
  BY DEF IInv, Types
<1>2. CASE offered' = offered
  BY <1>2 DEF Distinct
<1>3. ASSUME NEW x \in Delayed, Offer(x) PROVE Distinct'
  <2>1. offered' = Append(offered, x) /\ \A i \in 1 .. Len(offered) : offered[i] # x
    BY <1>1, <1>3 DEF Offer, ToSet
  <2>2. /\ Len(offered') = Len(offered) + 1 /\ offered'[Len(offered) + 1] = x
        /\ \A i \in 1 .. Len(offered) : offered'[i] = offered[i]
    BY <1>1, <2>1, AppendProperties
  <2>3. \A i \in 1 .. Len(offered) + 1 : i \in 1 .. Len(offered) \/ i = Len(offered) + 1
    BY <1>1
  <2>4. ASSUME NEW i \in 1 .. Len(offered'), NEW j \in 1 .. Len(offered'),
               offered'[i] = offered'[j]
        PROVE  i = j
    BY <2>1, <2>2, <2>3, <2>4 DEF Distinct
  <2> QED BY <2>4 DEF Distinct
<1>4. ASSUME NEW t \in Thread, PushStep(t) PROVE offered' = offered
  BY <1>4 DEF PushStep, Take, Merge, Nest, Overflow, Put, PutInterrupted, history
<1>5. \/ offered' = offered
      \/ \E x \in Delayed : Offer(x)
  BY <1>4, DelayAssumption DEF Next, vars, Delay, Schedule, TimerStep, DelayTimed, Fire, Expire, Notify, history
<1> QED BY <1>2, <1>3, <1>5

\* The notifier's call at the front of the queue.
LEMMA AtTheFront ==
  ASSUME IInv, Carrying, NEW g \in 0 .. Len(offered), Leaving(g), stack[Notifier] # << >>
  PROVE  /\ Top(Notifier) = stack[Notifier][1] /\ Top(Notifier) \in Frame
         /\ Top(Notifier).text \in Seq(Message) /\ Top(Notifier).entry \in Message \ Delayed
         /\ Top(Notifier).next <= Len(offered)
         /\ sent \in Seq(Message) /\ sent \o Top(Notifier).text \in Seq(Message)
         /\ InStep(offered, sent \o Top(Notifier).text, g)
         /\ Stands(offered, Top(Notifier), g)
         /\ offered \in Seq(Delayed) /\ Len(offered) \in Nat /\ g \in Nat
<1>1. Notifier \in Thread /\ offered \in Seq(Delayed) /\ sent \in Seq(Message)
  BY DEF Thread, IInv, Types
<1>2. /\ Top(Notifier) = stack[Notifier][1] /\ Top(Notifier) \in Frame
      /\ Top(Notifier).text \in Seq(Message) /\ Top(Notifier).entry \in Message
      /\ Top(Notifier).next <= Len(offered)
  BY <1>1, OnlyCall, TopIs
<1>3. /\ InStep(offered, sent \o Top(Notifier).text, g)
      /\ Stands(offered, Top(Notifier), g)
  BY <1>2 DEF Leaving
<1>4. sent \o Top(Notifier).text \in Seq(Message)
  BY <1>1, <1>2, ConcatProperties
<1> QED BY <1>1, <1>2, <1>3, <1>4 DEF Stands

LEMMA LeavingOffer ==
  ASSUME IInv, Carrying, NEW g \in 0 .. Len(offered), Leaving(g), NEW x \in Delayed, Delay(x)
  PROVE  g \in 0 .. Len(offered') /\ Leaving(g)'
<1> DEFINE n == Len(offered)
<1>1. /\ offered' = Append(offered, x) /\ present' = present \cup {x}
      /\ UNCHANGED <<stack, sent>>
  BY DEF Delay, Offer, history
<1>2. offered \in Seq(Delayed) /\ n \in Nat /\ g \in Nat
  BY DEF IInv, Types
<1>3. /\ Len(offered') = n + 1 /\ offered'[n + 1] = x
      /\ \A k \in 1 .. n : offered'[k] = offered[k]
  BY <1>1, <1>2, AppendProperties
<1>4. present' = {offered'[k] : k \in g + 1 .. n + 1}
  <2>1. present = {offered[k] : k \in g + 1 .. n}
    BY DEF Leaving
  <2>2. (g + 1 .. n + 1) = (g + 1 .. n) \cup {n + 1} /\ \A k \in g + 1 .. n : k \in 1 .. n
    BY <1>2
  <2> HIDE DEF n
  <2> QED BY <2>1, <2>2, <1>1, <1>3
<1>5. stack[Notifier] = << >> => InStep(offered', sent, g)
  BY <1>1, <1>2, StepLonger DEF Leaving
<1>6. stack[Notifier] # << >> => /\ InStep(offered', sent \o stack[Notifier][1].text, g)
                                 /\ Stands(offered', stack[Notifier][1], g)
  <2> SUFFICES ASSUME stack[Notifier] # << >>
               PROVE  /\ InStep(offered', sent \o stack[Notifier][1].text, g)
                      /\ Stands(offered', stack[Notifier][1], g)
    OBVIOUS
  <2>1. InStep(offered', sent \o stack[Notifier][1].text, g)
    BY <1>1, <1>2, StepLonger DEF Leaving
  <2>2. g < n => g < n + 1 /\ offered'[g + 1] = offered[g + 1]
    BY <1>2, <1>3
  <2>3. Stands(offered, stack[Notifier][1], g)
    BY DEF Leaving
  <2> QED BY <2>1, <2>2, <2>3, <1>3 DEF Stands
<1>7. g \in 0 .. Len(offered')
  BY <1>2, <1>3
<1> QED BY <1>1, <1>3, <1>4, <1>5, <1>6, <1>7 DEF Leaving

LEMMA LeavingNotify ==
  ASSUME IInv, Carrying, Distinct, NEW g \in 0 .. Len(offered), Leaving(g),
         NEW b \in Message, Notify(b)
  PROVE  Leaving(g)'
<1> DEFINE frame == Call(b, present)
<1>1. /\ stack' = [stack EXCEPT ![Notifier] = <<frame>>] /\ stack[Notifier] = << >>
      /\ UNCHANGED <<offered, present, sent>> /\ b \notin Delayed
  BY DEF Notify
<1>2. /\ stack \in [Thread -> Seq(Frame)] /\ Notifier \in Thread
      /\ offered \in Seq(Delayed) /\ sent \in Seq(Message) /\ g \in Nat
  BY DEF IInv, Types, Thread
<1>3. /\ frame.entry = b /\ frame.current = None /\ frame.next = After(0, present)
      /\ frame.text = << >>
  BY DEF Call
<1>4. After(0, present) \in {0, g + 1}
  <2>1. present = {offered[k] : k \in g + 1 .. Len(offered)} /\ 0 \in Nat /\ 0 <= g /\ g <= g
    BY <1>2 DEF Leaving
  <2> QED BY <2>1, <1>2, NextPlace
<1> HIDE DEF frame
<1>5. stack'[Notifier] = <<frame>> /\ <<frame>>[1] = frame /\ <<frame>> # << >>
  BY <1>1, <1>2
<1>6. sent \o frame.text = sent
  BY <1>2, <1>3
<1>7. InStep(offered, sent, g)
  BY <1>1 DEF Leaving
<1>8. Stands(offered, frame, g)
  BY <1>1, <1>3, <1>4 DEF Stands
<1> QED BY <1>1, <1>5, <1>6, <1>7, <1>8 DEF Leaving

LEMMA LeavingTake ==
  ASSUME IInv, Carrying, Distinct, NEW g \in 0 .. Len(offered), Leaving(g), Take(Notifier)
  PROVE  Leaving(g)'
<1> DEFINE place == Top(Notifier).next
           next == After(place, present)
           frame == [Top(Notifier) EXCEPT !.current = offered[place], !.next = next]
<1>1. /\ stack[Notifier] # << >> /\ Top(Notifier).current = None /\ place # 0
      /\ SetTop(Notifier, frame) /\ UNCHANGED <<offered, present, sent>>
  BY DEF Take
<1>2. /\ Top(Notifier) \in Frame /\ Stands(offered, Top(Notifier), g)
      /\ InStep(offered, sent \o Top(Notifier).text, g) /\ place <= Len(offered)
      /\ offered \in Seq(Delayed) /\ Len(offered) \in Nat /\ g \in Nat
  BY <1>1, AtTheFront
<1>3. place = g + 1 /\ g < Len(offered)
  <2>1. g < Len(offered) => offered[g + 1] \in Delayed
    BY <1>2, ElementOfSeq
  <2>2. g < Len(offered) => offered[g + 1] # None
    BY <2>1, DelayAssumption
  <2>3. place = g + 1
    BY <1>1, <1>2, <2>2 DEF Stands
  <2> QED BY <2>3, <1>2
<1>4. next \in {0, g + 2}
  <2>1. present = {offered[k] : k \in g + 1 .. Len(offered)} /\ g + 1 \in Nat
        /\ g <= g + 1 /\ g + 1 <= g + 1 /\ g + 1 + 1 = g + 2
    BY <1>2 DEF Leaving
  <2>2. After(g + 1, present) \in {0, g + 1 + 1}
    BY <2>1, <1>2, NextPlace
  <2> QED BY <2>1, <2>2, <1>3
<1>5. /\ offered[place] \in Delayed /\ next \in Nat
  BY <1>2, <1>3, <1>4, ElementOfSeq
<1>6. /\ frame \in Frame /\ frame.entry = Top(Notifier).entry
      /\ frame.text = Top(Notifier).text /\ frame.current = offered[place]
      /\ frame.next = next
  <2> HIDE DEF next, place
  <2> QED BY <1>2, <1>5 DEF Frame
<1> HIDE DEF frame, next, place
<1>7. stack'[Notifier] = <<frame>> /\ <<frame>>[1] = frame /\ <<frame>> # << >>
  <2>1. stack \in [Thread -> Seq(Frame)] /\ Notifier \in Thread
    BY DEF IInv, Types, Thread
  <2> QED BY <2>1, <1>1, <1>6, OnlyCall DEF SetTop
<1>8. Stands(offered, frame, g)
  BY <1>2, <1>3, <1>4, <1>6 DEF Stands
<1> QED BY <1>1, <1>2, <1>6, <1>7, <1>8 DEF Leaving

LEMMA LeavingMerge ==
  ASSUME IInv, Carrying, Distinct, NEW g \in 0 .. Len(offered), Leaving(g), Merge(Notifier)
  PROVE  g + 1 \in 0 .. Len(offered) /\ Leaving(g + 1)'
<1> DEFINE x == Top(Notifier).current
           text == Append(Top(Notifier).text, x)
           frame == [Top(Notifier) EXCEPT !.text = text, !.current = None]
<1>1. /\ stack[Notifier] # << >> /\ x # None /\ SetTop(Notifier, frame)
      /\ present' = present \ {x} /\ UNCHANGED <<offered, sent>>
  BY DEF Merge, history
<1>2. /\ Top(Notifier) \in Frame /\ Stands(offered, Top(Notifier), g)
      /\ Top(Notifier).text \in Seq(Message) /\ sent \in Seq(Message)
      /\ sent \o Top(Notifier).text \in Seq(Message)
      /\ InStep(offered, sent \o Top(Notifier).text, g)
      /\ offered \in Seq(Delayed) /\ Len(offered) \in Nat /\ g \in Nat
  BY <1>1, AtTheFront
<1>3. x = offered[g + 1] /\ g < Len(offered) /\ Top(Notifier).next \in {0, g + 2}
  BY <1>1, <1>2 DEF Stands
<1>4. x \in Delayed /\ x \in Message /\ text \in Seq(Message)
  <2>1. x \in Delayed /\ x \in Message
    BY <1>2, <1>3, ElementOfSeq, DelayAssumption
  <2> HIDE DEF x
  <2> QED BY <2>1, <1>2, AppendProperties
<1>5. /\ frame \in Frame /\ frame.entry = Top(Notifier).entry /\ frame.current = None
      /\ frame.text = text /\ frame.next = Top(Notifier).next
  <2> HIDE DEF text
  <2> QED BY <1>2, <1>4 DEF Frame
<1>6. InStep(offered, sent \o text, g + 1)
  <2>1. InStep(offered, Append(sent \o Top(Notifier).text, offered[g + 1]), g + 1)
    BY <1>2, <1>3, StepOn
  <2>2. sent \o Append(Top(Notifier).text, x) = Append(sent \o Top(Notifier).text, x)
    <3> HIDE DEF x
    <3> QED BY <1>2, <1>4
  <2> QED BY <2>1, <2>2, <1>3
<1>7. present' = {offered[k] : k \in g + 2 .. Len(offered)}
  <2>1. present = {offered[k] : k \in g + 1 .. Len(offered)}
    BY DEF Leaving
  <2>2. (g + 1 .. Len(offered)) = (g + 2 .. Len(offered)) \cup {g + 1}
        /\ g + 1 \in 1 .. Len(offered)
        /\ \A k \in g + 2 .. Len(offered) : k \in 1 .. Len(offered) /\ k # g + 1
    BY <1>2, <1>3
  <2>3. \A k \in g + 2 .. Len(offered) : offered[k] # x
    BY <2>2, <1>3 DEF Distinct
  <2> HIDE DEF x
  <2> QED BY <2>1, <2>2, <2>3, <1>1, <1>3
<1>8. frame.entry \notin Delayed
  BY <1>2, <1>5 DEF Stands
<1> HIDE DEF frame, text, x
<1>9. stack'[Notifier] = <<frame>> /\ <<frame>>[1] = frame /\ <<frame>> # << >>
  <2>1. stack \in [Thread -> Seq(Frame)] /\ Notifier \in Thread
    BY DEF IInv, Types, Thread
  <2> QED BY <2>1, <1>1, <1>5, OnlyCall DEF SetTop
<1>10. g + 1 + 1 = g + 2 /\ g + 1 \in 0 .. Len(offered)
  BY <1>2, <1>3
<1>11. Stands(offered, frame, g + 1)
  BY <1>3, <1>5, <1>8, <1>10 DEF Stands
<1> QED BY <1>1, <1>5, <1>6, <1>7, <1>9, <1>10, <1>11 DEF Leaving

LEMMA LeavingPut ==
  ASSUME IInv, Carrying, NEW g \in 0 .. Len(offered), Leaving(g), Put(Notifier)
  PROVE  Leaving(g)'
<1> DEFINE text == Top(Notifier).text
           x == Top(Notifier).entry
<1>1. /\ stack[Notifier] # << >> /\ Top(Notifier).current = None
      /\ sent' = sent \o Append(text, x) /\ Pop(Notifier)
      /\ UNCHANGED offered
  BY DEF Put, Carried
<1>2. /\ text \in Seq(Message) /\ x \in Message \ Delayed /\ sent \in Seq(Message)
      /\ sent \o text \in Seq(Message) /\ InStep(offered, sent \o text, g)
      /\ offered \in Seq(Delayed) /\ g \in Nat
  BY <1>1, AtTheFront
<1>3. Len(stack[Notifier]) = 1
  BY <1>1, OnlyCall
<1>4. stack' = [stack EXCEPT ![Notifier] = << >>] /\ present' = present
  BY <1>1, <1>3 DEF Pop
<1> HIDE DEF text, x
<1>5. sent' = Append(sent \o text, x)
  BY <1>1, <1>2
<1>6. InStep(offered, sent', g)
  BY <1>2, <1>5, StepAside
<1>7. stack'[Notifier] = << >>
  <2>1. stack \in [Thread -> Seq(Frame)] /\ Notifier \in Thread
    BY DEF IInv, Types, Thread
  <2> QED BY <2>1, <1>4
<1> QED BY <1>1, <1>4, <1>6, <1>7 DEF Leaving

LEMMA InLineKept ==
  ASSUME IInv, FirstBroadcast, InLine, [Next]_vars PROVE InLine'
<1>1. Distinct /\ Distinct'
  BY DistinctKept DEF InLine
<1> SUFFICES ASSUME OnlyTexts' PROVE \E g \in 0 .. Len(offered') : Leaving(g)'
  BY <1>1 DEF InLine
<1>2. OnlyTexts /\ Carrying /\ \A t \in Thread : t # Notifier => stack[t] = << >>
  BY Before
<1>3. PICK g \in 0 .. Len(offered) : Leaving(g)
  BY <1>2 DEF InLine
<1>4. timer \in [Timed -> TimerStates]
  BY DEF IInv, Types
<1>5. ASSUME NEW m \in Timed PROVE ~ Schedule(m) /\ ~ TimerStep(m)
  BY <1>2, <1>4 DEF OnlyTexts, Schedule, TimerStep, DelayTimed, Fire, Expire
<1>6. ASSUME NEW t \in Thread, PushStep(t) PROVE \E h \in 0 .. Len(offered') : Leaving(h)'
  <2>1. stack[t] # << >>
    BY <1>6 DEF PushStep, Take, Merge, Nest, Overflow, Put, PutInterrupted
  <2>2. t = Notifier
    BY <1>2, <2>1
  <2>3. ~ Nest(t) /\ ~ Overflow(t) /\ ~ PutInterrupted(t)
    <3>1. Top(t) = stack[Notifier][1]
      BY <1>2, <2>1, <2>2, OnlyCall
    <3>2. Top(t).entry \in Text /\ Top(t).current \in Text \cup {None} /\ interrupted = {}
      BY <1>2, <2>1, <2>2, <3>1 DEF Carrying
    <3> QED BY <3>2 DEF Nest, Overflow, PutInterrupted
  <2>4. offered' = offered
    BY <1>6 DEF PushStep, Take, Merge, Nest, Overflow, Put, PutInterrupted, history
  <2>5. CASE Take(Notifier)
    BY <2>4, <2>5, <1>1, <1>2, <1>3, LeavingTake
  <2>6. CASE Merge(Notifier)
    BY <2>4, <2>6, <1>1, <1>2, <1>3, LeavingMerge
  <2>7. CASE Put(Notifier)
    BY <2>4, <2>7, <1>2, <1>3, LeavingPut
  <2> QED BY <1>6, <2>2, <2>3, <2>5, <2>6, <2>7 DEF PushStep
<1>7. CASE UNCHANGED vars
  <2>1. Leaving(g)' /\ offered' = offered
    BY <1>3, <1>7 DEF vars, Leaving
  <2> QED BY <2>1
<1>8. ASSUME NEW x \in Delayed, Delay(x) PROVE \E h \in 0 .. Len(offered') : Leaving(h)'
  BY <1>2, <1>3, <1>8, LeavingOffer
<1>9. ASSUME NEW b \in Message, Notify(b) PROVE \E h \in 0 .. Len(offered') : Leaving(h)'
  <2>1. offered' = offered
    BY <1>9 DEF Notify
  <2> QED BY <2>1, <1>1, <1>2, <1>3, <1>9, LeavingNotify
<1> QED BY <1>5, <1>6, <1>7, <1>8, <1>9 DEF Next

LEMMA InLineInitially == Init => InLine
<1> SUFFICES ASSUME Init PROVE InLine
  OBVIOUS
<1>1. /\ offered = << >> /\ sent = << >> /\ present = {} /\ Notifier \in Thread
      /\ stack[Notifier] = << >>
  BY DEF Init, Thread
<1>2. Len(<< >>) = 0 /\ 1 .. 0 = {} /\ 0 + 1 .. 0 = {} /\ 0 \in 0 .. 0
  OBVIOUS
<1>3. ToSet(<< >>) = {}
  BY DEF ToSet
<1>4. InStep(offered, sent, 0)
  BY <1>1, <1>2, <1>3 DEF InStep
<1>5. Leaving(0)
  BY <1>1, <1>2, <1>4 DEF Leaving
<1> QED BY <1>1, <1>2, <1>5 DEF InLine, Distinct

---------------------------------------------------------------------------
\* The types of the delayed messages: only a timer that pushes has calls of
\* push, and an interrupt never outlives the run that it was meant for.
THEOREM DelayTypes == Spec => []TypeOK
<1>1. IInv => TypeOK
  BY DEF IInv
<1> QED BY <1>1, Initially, Invariance, PTL DEF Spec

\* A delayed message is in the queue, in the hands of a push, sent, or was
\* dropped by a push that was interrupted or overflowed the stack.
THEOREM TextTheorem == Spec => []NoTextForgotten
<1>1. IInv => NoTextForgotten
  BY DEF IInv
<1> QED BY <1>1, Initially, Invariance, PTL DEF Spec

\* Texts that were delayed without a timer before a broadcast began are sent
\* when the notifier is done with that broadcast.
THEOREM BroadcastTheorem == Spec => []WithFirstBroadcast
<1>1. IInv /\ FirstBroadcast => WithFirstBroadcast
  BY DEF FirstBroadcast, Carrying, WithFirstBroadcast
<1>2. IInv /\ FirstBroadcast /\ [Next]_vars => (IInv /\ FirstBroadcast)'
  BY Invariance, FirstBroadcastKept
<1>3. Init => IInv /\ FirstBroadcast
  BY Initially, FirstBroadcastInitially
<1> QED BY <1>1, <1>2, <1>3, PTL DEF Spec

\* Texts that were delayed without a timer are sent once each, in the order in
\* which they got into the queue, for any number of them and of broadcasts.
THEOREM QueueTheorem == Spec => []DelayedInOrder
<1>1. IInv /\ FirstBroadcast /\ InLine => DelayedInOrder
  <2> SUFFICES ASSUME IInv, InLine, OnlyTexts, NEW i \in DOMAIN sent, sent[i] \in Delayed
               PROVE  \E k \in DOMAIN offered :
                        /\ sent[i] = offered[k]
                        /\ {sent[j] : j \in 1 .. i - 1} \cap Delayed
                             = {offered[l] : l \in 1 .. k - 1}
    BY DEF DelayedInOrder
  <2>1. /\ sent \in Seq(Message) /\ offered \in Seq(Delayed)
        /\ DOMAIN sent = 1 .. Len(sent) /\ DOMAIN offered = 1 .. Len(offered)
        /\ stack[Notifier] \in Seq(Frame) /\ Len(sent) \in Nat
    BY DEF IInv, Types, Thread
  <2>2. PICK g \in 0 .. Len(offered) : Leaving(g)
    BY DEF InLine
  <2>3. CASE stack[Notifier] = << >>
    BY <2>1, <2>2, <2>3 DEF Leaving, InStep
  <2>4. CASE stack[Notifier] # << >>
    <3> DEFINE text == stack[Notifier][1].text
               s == sent \o text
    <3>1. text \in Seq(Message)
      <4>1. 1 \in 1 .. Len(stack[Notifier])
        BY <2>1, <2>4, EmptySeq
      <4>2. stack[Notifier][1] \in Frame
        BY <2>1, <4>1, ElementOfSeq
      <4> QED BY <4>2 DEF Frame
    <3> HIDE DEF text
    <3>2. Len(s) = Len(sent) + Len(text) /\ Len(text) \in Nat
      BY <2>1, <3>1, ConcatProperties
    <3>3. \A j \in 1 .. Len(sent) : s[j] = sent[j] /\ j \in 1 .. Len(s)
      BY <2>1, <3>1, <3>2, ConcatProperties
    <3>4. InStep(offered, s, g)
      BY <2>2, <2>4 DEF Leaving, text
    <3> HIDE DEF s
    <3>5. {s[j] : j \in 1 .. i - 1} = {sent[j] : j \in 1 .. i - 1}
      <4>1. \A j \in 1 .. i - 1 : j \in 1 .. Len(sent)
        BY <2>1
      <4> QED BY <3>3, <4>1
    <3> QED BY <2>1, <3>3, <3>4, <3>5 DEF InStep
  <2> QED BY <2>3, <2>4
<1>2. IInv /\ FirstBroadcast /\ InLine /\ [Next]_vars => (IInv /\ FirstBroadcast /\ InLine)'
  BY Invariance, FirstBroadcastKept, InLineKept
<1>3. Init => IInv /\ FirstBroadcast /\ InLine
  BY Initially, FirstBroadcastInitially, InLineInitially
<1> QED BY <1>1, <1>2, <1>3, PTL DEF Spec
=============================================================================
