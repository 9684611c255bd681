--------------------------- MODULE AtmController ---------------------------
(***************************************************************************)
(* The start, stop and push actions of AtmController on one push service.  *)
(* They share the service's field data, without a lock: 0 is stopped.      *)
(* Every page that start (index) or stop renders issues a push of its own, *)
(* whose loop runs on in the server when the browser leaves the page.      *)
(* What a broadcast does is in module DefaultBroadcaster.                  *)
(***************************************************************************)
EXTENDS Integers

CONSTANTS
  Browser,
  Push,         \* the container's threads that serve pushes
  Iterations,   \* 1000 in the code
  MaxData       \* 149 in the code

ASSUME ControllerAssumption == Iterations \in Nat /\ MaxData \in Nat

VARIABLES
  data,     \* the service's field
  request,  \* what each browser is doing
  loop,     \* where each thread is in the loop of its push,
  left,     \* and how many iterations that has left
  late      \* how often its push broadcast since data became 0

vars == <<data, request, loop, left, late>>

Init ==
  /\ data = 0
  /\ request = [b \in Browser |-> "idle"]
  /\ loop = [p \in Push |-> "idle"]
  /\ left = [p \in Push |-> 0]
  /\ late = [p \in Push |-> 0]

---------------------------------------------------------------------------
Goto(b, step) == request' = [request EXCEPT ![b] = step]

\* index, the link "start": data is seeded if it is 0 ...
Index(b) ==
  /\ request[b] = "idle"
  /\ Goto(b, IF data = 0 THEN "seed" ELSE "page")
  /\ UNCHANGED <<data, loop, left, late>>

\* ... with a random number, which may be 0 too.  Other requests have been
\* running since data was read.
Seed(b) ==
  /\ request[b] = "seed"
  /\ data' \in 0 .. MaxData
  /\ late' = IF data' = 0 THEN late ELSE [p \in Push |-> 0]
  /\ Goto(b, "page")
  /\ UNCHANGED <<loop, left>>

\* stop
Stop(b) ==
  /\ request[b] = "idle"
  /\ data' = 0
  /\ Goto(b, "page")
  /\ UNCHANGED <<loop, left, late>>

\* The page subscribes and issues its push, which gets a thread.
Load(b, p) ==
  /\ request[b] = "page"
  /\ loop[p] = "idle"
  /\ loop' = [loop EXCEPT ![p] = "test"]
  /\ left' = [left EXCEPT ![p] = Iterations]
  /\ late' = [late EXCEPT ![p] = 0]
  /\ Goto(b, "idle")
  /\ UNCHANGED data

\* Mutant: data is tested before the first iteration only.
TestFirst(p) ==
  /\ loop[p] = "test" /\ left[p] > 0
  /\ \/ /\ data = 0 /\ left[p] = Iterations
        /\ left' = [left EXCEPT ![p] = 0]
        /\ UNCHANGED loop
     \/ /\ data # 0 \/ left[p] < Iterations
        /\ loop' = [loop EXCEPT ![p] = "sleep"]
        /\ UNCHANGED left
  /\ UNCHANGED <<data, request, late>>

\* Mutant: an iteration that finds 0 is not counted.
TestUncounted(p) ==
  /\ loop[p] = "test" /\ left[p] > 0
  /\ loop' = [loop EXCEPT ![p] = IF data = 0 THEN "test" ELSE "sleep"]
  /\ UNCHANGED <<data, left, request, late>>

\* One iteration of the loop: the return in the closure ends the iteration
\* only, so that a push which was stopped can go on when data is seeded anew.
Test(p) ==
  /\ loop[p] = "test" /\ left[p] > 0
  /\ \/ /\ data = 0
        /\ left' = [left EXCEPT ![p] = @ - 1]
        /\ UNCHANGED loop
     \/ /\ data # 0
        /\ loop' = [loop EXCEPT ![p] = "sleep"]
        /\ UNCHANGED left
  /\ UNCHANGED <<data, request, late>>

\* Having slept, it broadcasts.
Broadcast(p) ==
  /\ loop[p] = "sleep"
  /\ loop' = [loop EXCEPT ![p] = "test"]
  /\ left' = [left EXCEPT ![p] = @ - 1]
  /\ late' = IF data = 0 THEN [late EXCEPT ![p] = @ + 1] ELSE late
  /\ UNCHANGED <<data, request>>

\* render "success"
Return(p) ==
  /\ loop[p] = "test" /\ left[p] = 0
  /\ loop' = [loop EXCEPT ![p] = "idle"]
  /\ UNCHANGED <<data, request, left, late>>

PushStep(p) == Test(p) \/ Broadcast(p) \/ Return(p)

Next ==
  \/ \E b \in Browser : Index(b) \/ Seed(b) \/ Stop(b) \/ \E p \in Push : Load(b, p)
  \/ \E p \in Push : PushStep(p)

\* A thread that runs a push keeps running.
Spec == Init /\ [][Next]_vars /\ \A p \in Push : WF_vars(PushStep(p))

---------------------------------------------------------------------------
(* Properties.                                                             *)

\* stop works: from when data is 0 until it is seeded anew, each push that is
\* still running broadcasts at most once more, the one it slept for.
QuietAfterStop == \A p \in Push : late[p] <= 1

\* Whatever is started and stopped meanwhile, a push request returns, and the
\* thread that serves it is free again.
PushReturns == \A p \in Push : loop[p] = "test" ~> loop[p] = "idle"
===========================================================================
