---------------------------- MODULE OrderedFeed ----------------------------
(***************************************************************************)
(* What a push channel promises the browsers connected to it: updates are  *)
(* published one after the other, and each response receives some of them, *)
(* in the order of publication and none of them twice.                     *)
(***************************************************************************)
EXTENDS Integers, Sequences

CONSTANT Subscriber

VARIABLES
  published,   \* number of updates published so far
  feed         \* what each subscriber has received, oldest first

Init ==
  /\ published = 0
  /\ feed = [s \in Subscriber |-> << >>]

Publish ==
  /\ published' = published + 1
  /\ UNCHANGED feed

\* An update later than everything the subscriber has received so far.
Deliver(s, m) ==
  /\ m \in 1 .. published
  /\ \A i \in DOMAIN feed[s] : feed[s][i] < m
  /\ feed' = [feed EXCEPT ![s] = Append(@, m)]
  /\ UNCHANGED published

Next ==
  \/ Publish
  \/ \E s \in Subscriber, m \in 1 .. published : Deliver(s, m)

Spec == Init /\ [][Next]_<<published, feed>>
===========================================================================
