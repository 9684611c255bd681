-------------------------- MODULE DelayedBroadcast --------------------------
(***************************************************************************)
(* Delayed messages of a DefaultBroadcaster.  delayBroadcast keeps one in  *)
(* the queue delayedBroadcast, from which whoever pushes a message next    *)
(* takes it, to be sent in front of his own: the notifier with a broadcast *)
(* or the timer of another delayed message.  If it was given a delay it    *)
(* has such a timer itself.  The timers share the one thread of the        *)
(* broadcaster's scheduler, so that at any time the notifier and one timer *)
(* may run push.                                                           *)
(*                                                                         *)
(* The queue's iterator is weakly consistent: it holds the entry that it   *)
(* will return next, even if that is removed meanwhile.                    *)
(*                                                                         *)
(* Responses are suspended all the time, and a push puts one token on the  *)
(* write queue, whose way to the browser is in module DefaultBroadcaster.  *)
(***************************************************************************)
EXTENDS Integers, Sequences, SequencesExt

CONSTANTS
  Message,
  Text,       \* the messages that are Strings
  Delayed,    \* those that are delayed; the others are broadcast,
  Timed,      \* and those of them that may be delayed for a given time
  Notifier,
  None,
  MaxDepth    \* how deep push may call itself before the stack overflows

ASSUME DelayAssumption ==
  /\ Text \subseteq Message /\ Timed \subseteq Delayed /\ Delayed \subseteq Message
  /\ Notifier \notin Message /\ None \notin Message
  /\ MaxDepth \in Nat \ {0}

\* The timer of a message is named like the message.
Thread == Timed \cup {Notifier}

VARIABLES
  offered,      \* the messages in the order in which they got into the queue,
  present,      \* and those still in it
  timer,        \* the FutureTask of each timer
  cancelled,    \* those that were cancelled while they ran,
  interrupted,  \* and those whose interrupt is pending
  stack,        \* the calls of push in each thread
  broadcasts,   \* what was broadcast and has been taken by the notifier
  sent,         \* the messages in the order in which their tokens were put
  due,          \* the messages in the queue when the last broadcast was taken
  dropped       \* the messages that a push had when it was interrupted or overflowed

vars == <<offered, present, timer, cancelled, interrupted, stack, broadcasts, sent,
          due, dropped>>
history == <<due, dropped>>

\* A call of push: what it pushes, the texts it has put in front, the place of
\* the iterator's next entry in offered (0 at the end) and the current entry.
Frame == [entry : Message, text : Seq(Message), next : Nat, current : Delayed \cup {None}]

Init ==
  /\ offered = << >>
  /\ present = {}
  /\ timer = [m \in Timed |-> "unset"]
  /\ cancelled = {}
  /\ interrupted = {}
  /\ stack = [t \in Thread |-> << >>]
  /\ broadcasts = {}
  /\ sent = << >>
  /\ due = {}
  /\ dropped = {}

---------------------------------------------------------------------------
(* Delaying a message.                                                     *)

Offer(m) ==
  /\ m \notin ToSet(offered)
  /\ offered' = Append(offered, m)
  /\ present' = present \cup {m}

\* delayBroadcast(m)
Delay(m) ==
  /\ m \in Timed => timer[m] = "unset"
  /\ Offer(m)
  /\ UNCHANGED <<timer, cancelled, interrupted, stack, broadcasts, sent, history>>

\* delayBroadcast(m, delay, unit): first its timer is started ...
Schedule(m) ==
  /\ timer[m] = "unset" /\ m \notin ToSet(offered)
  /\ timer' = [timer EXCEPT ![m] = "armed"]
  /\ UNCHANGED <<offered, present, cancelled, interrupted, stack, broadcasts, sent, history>>

\* ... then it is put into the queue.
DelayTimed(m) ==
  /\ timer[m] # "unset"
  /\ Offer(m)
  /\ UNCHANGED <<timer, cancelled, interrupted, stack, broadcasts, sent, history>>

---------------------------------------------------------------------------
(* push.                                                                   *)

\* Where an iterator that stands at i finds its next entry.
After(i, queue) ==
  LET places == {j \in i + 1 .. Len(offered) : offered[j] \in queue}
  IN  IF places = {} THEN 0 ELSE Min(places)

Call(m, queue) ==
  [entry |-> m, text |-> << >>, next |-> After(0, queue), current |-> None]

Top(t) == Last(stack[t])
SetTop(t, frame) == stack' = [stack EXCEPT ![t] = Append(Front(@), frame)]

\* Mutant: the texts in front are forgotten.
CarriedAlone(frame) == <<frame.entry>>

\* What push puts: the texts and then its own message.
Carried(frame) == Append(frame.text, frame.entry)

\* What a thread is about to send, and the entries it is looking at.
InHand(t) == UNION {ToSet(Carried(stack[t][i])) : i \in DOMAIN stack[t]}
Currents(t) == {stack[t][i].current : i \in DOMAIN stack[t]} \ {None}

\* The notifier has nothing to do and takes a broadcast.
Notify(b) ==
  /\ b \in Message \ (Delayed \cup broadcasts)
  /\ stack[Notifier] = << >>
  /\ broadcasts' = broadcasts \cup {b}
  /\ stack' = [stack EXCEPT ![Notifier] = <<Call(b, present)>>]
  /\ due' = present
  /\ UNCHANGED <<offered, present, timer, cancelled, interrupted, sent, dropped>>

\* The tasks that the scheduler's thread has begun and not finished.
Running == {m \in Timed : timer[m] \in {"running", "pushing"}}

\* The delay of a message has passed and the scheduler's thread, which is the
\* only one, is free: the timer starts to run.
Fire(m) ==
  /\ timer[m] = "armed" /\ Running = {}
  /\ timer' = [timer EXCEPT ![m] = "running"]
  /\ UNCHANGED <<offered, present, cancelled, interrupted, stack, broadcasts, sent, history>>

\* It removes the message from the queue and pushes it.
Expire(m) ==
  /\ timer[m] = "running"
  /\ timer' = [timer EXCEPT ![m] = "pushing"]
  /\ present' = present \ {m}
  /\ stack' = [stack EXCEPT ![m] = <<Call(m, present')>>]
  /\ UNCHANGED <<offered, cancelled, interrupted, broadcasts, sent, history>>

\* Mutant: the thread of a timer that is done is interrupted as well.
CancelDone(m) ==
  /\ timer' = IF m \in Timed /\ timer[m] = "armed"
                THEN [timer EXCEPT ![m] = "cancelled"] ELSE timer
  /\ cancelled' = cancelled \cup ({m} \cap Timed)
  /\ interrupted' = interrupted \cup (({m} \cap Timed) \ cancelled)

\* e.future.cancel(true): a timer that has not begun never will, one that runs
\* is interrupted.  A second cancel does nothing.
Cancel(m) ==
  /\ timer' = IF m \in Timed /\ timer[m] = "armed"
                THEN [timer EXCEPT ![m] = "cancelled"] ELSE timer
  /\ cancelled' = cancelled \cup ({m} \cap Running)
  /\ interrupted' = interrupted \cup (({m} \cap Running) \ cancelled)

\* The iterator returns an entry and steps on; the entry is cancelled.
Take(t) ==
  /\ stack[t] # << >> /\ Top(t).current = None /\ Top(t).next # 0
  /\ LET m == offered[Top(t).next]
     IN  /\ SetTop(t, [Top(t) EXCEPT !.current = m, !.next = After(Top(t).next, present)])
         /\ Cancel(m)
  /\ UNCHANGED <<offered, present, broadcasts, sent, due, dropped>>

\* Mutant: the entry stays in the queue.
MergeKeeping(t) ==
  /\ stack[t] # << >> /\ Top(t).current # None
  /\ {Top(t).current, Top(t).entry} \subseteq Text
  /\ SetTop(t, [Top(t) EXCEPT !.text = Append(@, Top(t).current), !.current = None])
  /\ UNCHANGED <<offered, present, timer, cancelled, interrupted, broadcasts, sent, history>>

\* A text goes in front of a text, and out of the queue.
Merge(t) ==
  /\ stack[t] # << >> /\ Top(t).current # None
  /\ {Top(t).current, Top(t).entry} \subseteq Text
  /\ SetTop(t, [Top(t) EXCEPT !.text = Append(@, Top(t).current), !.current = None])
  /\ present' = present \ {Top(t).current}
  /\ UNCHANGED <<offered, timer, cancelled, interrupted, broadcasts, sent, history>>

\* Any other pair is not merged: the entry, still in the queue, is pushed ...
Nest(t) ==
  /\ stack[t] # << >> /\ Top(t).current # None
  /\ ~ {Top(t).current, Top(t).entry} \subseteq Text
  /\ Len(stack[t]) < MaxDepth
  /\ stack' = [stack EXCEPT ![t] = Append(@, Call(Top(t).current, present))]
  /\ UNCHANGED <<offered, present, timer, cancelled, interrupted, broadcasts, sent, history>>

\* A timer whose push has returned, in one way or the other, is done.
Finish(t) ==
  timer' = IF t \in Timed THEN [timer EXCEPT ![t] = "done"] ELSE timer

\* ... and, if push sees its own entry again and again, the stack overflows:
\* every call removes its entry, and none goes on.
Overflow(t) ==
  /\ stack[t] # << >> /\ Top(t).current # None
  /\ ~ {Top(t).current, Top(t).entry} \subseteq Text
  /\ Len(stack[t]) = MaxDepth
  /\ stack' = [stack EXCEPT ![t] = << >>]
  /\ present' = present \ Currents(t)
  /\ dropped' = dropped \cup Currents(t) \cup InHand(t)
  /\ Finish(t)
  /\ interrupted' = interrupted \ {t}
  /\ UNCHANGED <<offered, cancelled, broadcasts, sent, due>>

\* push returns, to the call that has to remove the entry, or altogether.
Pop(t) ==
  IF Len(stack[t]) = 1
    THEN /\ stack' = [stack EXCEPT ![t] = << >>]
         /\ Finish(t)
         /\ UNCHANGED present
    ELSE LET caller == stack[t][Len(stack[t]) - 1]
         IN  /\ stack' = [stack EXCEPT ![t] =
                            Append(Front(Front(@)), [caller EXCEPT !.current = None])]
             /\ present' = present \ {caller.current}
             /\ UNCHANGED timer

\* At the iterator's end everything is put on the write queue at once ...
Put(t) ==
  /\ stack[t] # << >> /\ Top(t).current = None /\ Top(t).next = 0
  /\ t \notin interrupted
  /\ sent' = sent \o Carried(Top(t))
  /\ Pop(t)
  /\ UNCHANGED <<offered, cancelled, interrupted, broadcasts, history>>

\* ... unless the thread was interrupted: put throws, and push returns.
PutInterrupted(t) ==
  /\ stack[t] # << >> /\ Top(t).current = None /\ Top(t).next = 0
  /\ t \in interrupted
  /\ interrupted' = interrupted \ {t}
  /\ dropped' = dropped \cup ToSet(Carried(Top(t)))
  /\ Pop(t)
  /\ UNCHANGED <<offered, cancelled, broadcasts, sent, due>>

PushStep(t) ==
  Take(t) \/ Merge(t) \/ Nest(t) \/ Overflow(t) \/ Put(t) \/ PutInterrupted(t)

TimerStep(m) == DelayTimed(m) \/ Fire(m) \/ Expire(m)

Next ==
  \/ \E m \in Delayed : Delay(m)
  \/ \E m \in Timed : Schedule(m) \/ TimerStep(m)
  \/ \E b \in Message : Notify(b)
  \/ \E t \in Thread : PushStep(t)

\* Threads go on and timers fire; nobody has to delay or to broadcast.
Fairness ==
  /\ \A m \in Timed : WF_vars(DelayTimed(m)) /\ WF_vars(Fire(m)) /\ WF_vars(Expire(m))
  /\ \A t \in Thread : WF_vars(PushStep(t))

Spec == Init /\ [][Next]_vars
FairSpec == Spec /\ Fairness

---------------------------------------------------------------------------
(* Properties.                                                             *)

\* The types; only a timer that pushes has a stack, and an interrupt never
\* outlives the run of the timer that it was meant for.
TypeOK ==
  /\ ToSet(offered) \subseteq Delayed /\ present \subseteq ToSet(offered)
  /\ interrupted \subseteq Running
  /\ \A t \in Thread : /\ stack[t] \in Seq(Frame) /\ Len(stack[t]) <= MaxDepth
                       /\ t \in Timed => (stack[t] # << >> <=> timer[t] = "pushing")

\* Nobody has set a timer, and nothing but texts was delayed or broadcast.
OnlyTexts ==
  ToSet(offered) \cup broadcasts \subseteq Text /\ \A m \in Timed : timer[m] = "unset"

\* Texts without timers are sent once each, in the order of the calls of
\* delayBroadcast, whichever broadcasts carry them and whatever is delayed
\* while a push goes through the queue: those sent before one of them are
\* those that got into the queue before it.
DelayedInOrder ==
  OnlyTexts =>
    \A i \in DOMAIN sent : sent[i] \in Delayed =>
      \E k \in DOMAIN offered :
        /\ sent[i] = offered[k]
        /\ {sent[j] : j \in 1 .. i - 1} \cap Delayed = {offered[l] : l \in 1 .. k - 1}

\* Broadcaster.java: the message "will be broadcasted when the first broadcast
\* is invoked": when the notifier is done with a broadcast, it has sent what
\* was in the queue when it began, if these are texts without timers.
WithFirstBroadcast == OnlyTexts /\ stack[Notifier] = << >> => due \subseteq ToSet(sent)

\* Whatever timers and broadcasts do at the same time, a text is in the queue,
\* or somebody is about to send it, or it was sent, unless a push that had it
\* was interrupted or overflowed the stack.
NoTextForgotten ==
  \A m \in ToSet(offered) :
    m \in present \cup ToSet(sent) \cup dropped \cup UNION {InHand(t) : t \in Thread}

\* Broadcaster.java: the message "will be broadcasted once the specified delay
\* expires or when the first broadcast": sooner or later it is sent.
DelayedArrives == \A m \in Timed : timer[m] = "armed" ~> m \in ToSet(sent)
===========================================================================
