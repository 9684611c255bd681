----------------------- MODULE BlockingIOCometSupport -----------------------
(***************************************************************************)
(* The container support that blocks the request's thread while a response *)
(* is suspended: the thread waits for a latch, which it has entered into   *)
(* the map latchs and into the request's attribute LATCH.  A failing write *)
(* resumes the response from another thread: from when onRequest has       *)
(* suspended it, whether or not the latch is there.                        *)
(*                                                                         *)
(* A request is also the name of its thread, its latch and the writer that *)
(* resumes it; what else suspending, resuming and timing out do to the     *)
(* tables is in module AsynchronousProcessor.                              *)
(***************************************************************************)
CONSTANTS
  Request,
  WithTimeout   \* the requests suspended with a timeout

ASSUME ContainerAssumption == WithTimeout \subseteq Request

VARIABLES
  thread,     \* what the thread of each request does next
  resume,     \* what the writer that resumes it does next
  type,       \* the request's action.type
  attribute,  \* the requests with the attribute LATCH
  latchs,     \* the latches in the map,
  open,       \* and those counted down
  aliveRequests

vars == <<thread, resume, type, attribute, latchs, open, aliveRequests>>

\* onRequest has suspended the response and added it to the broadcaster.
Init ==
  /\ thread = [r \in Request |-> "suspended"]
  /\ resume = [r \in Request |-> "none"]
  /\ type = [r \in Request |-> "SUSPEND"]
  /\ attribute = {}
  /\ latchs = {}
  /\ open = {}
  /\ aliveRequests = {}

---------------------------------------------------------------------------
(* The request's thread.                                                   *)

Goto(r, from, to) == thread[r] = from /\ thread' = [thread EXCEPT ![r] = to]

\* Is the response still suspended?
TestSuspended(r) ==
  /\ Goto(r, "suspended", IF type[r] = "SUSPEND" THEN "alive" ELSE "type")
  /\ UNCHANGED <<resume, type, attribute, latchs, open, aliveRequests>>

PutAlive(r) ==
  /\ Goto(r, "alive", "type")
  /\ aliveRequests' = aliveRequests \cup {r}
  /\ UNCHANGED <<resume, type, attribute, latchs, open>>

\* service looks at the type again; of a response that has been resumed, it
\* finds no latch and lets the request end.
TestType(r) ==
  /\ Goto(r, "type", IF type[r] = "SUSPEND" THEN "attribute" ELSE "done")
  /\ UNCHANGED <<resume, type, attribute, latchs, open, aliveRequests>>

SetAttribute(r) ==
  /\ Goto(r, "attribute", "put")
  /\ attribute' = attribute \cup {r}
  /\ UNCHANGED <<resume, type, latchs, open, aliveRequests>>

PutLatch(r) ==
  /\ Goto(r, "put", "await")
  /\ latchs' = latchs \cup {r}
  /\ UNCHANGED <<resume, type, attribute, open, aliveRequests>>

\* Mutant: a timeout is not passed to await.
AwaitForever(r) ==
  /\ r \in open
  /\ Goto(r, "await", "remove")
  /\ UNCHANGED <<resume, type, attribute, latchs, open, aliveRequests>>

\* The latch is counted down, or the time is over.
Await(r) ==
  /\ r \in open \cup WithTimeout
  /\ Goto(r, "await", "remove")
  /\ UNCHANGED <<resume, type, attribute, latchs, open, aliveRequests>>

RemoveLatch(r) ==
  /\ Goto(r, "remove", "timedout")
  /\ latchs' = latchs \ {r}
  /\ UNCHANGED <<resume, type, attribute, open, aliveRequests>>

Timedout(r) ==
  /\ Goto(r, "timedout", "done")
  /\ aliveRequests' = aliveRequests \ {r}
  /\ UNCHANGED <<resume, type, attribute, latchs, open>>

ThreadStep(r) ==
  \/ TestSuspended(r) \/ PutAlive(r) \/ TestType(r) \/ SetAttribute(r)
  \/ PutLatch(r) \/ Await(r) \/ RemoveLatch(r) \/ Timedout(r)

---------------------------------------------------------------------------
(* The writer whose write has failed.                                      *)

ResumeGoto(r, from, to) ==
  resume[r] = from /\ resume' = [resume EXCEPT ![r] = to]

\* resume() of a response that is suspended and has not timed out.
Resume(r) ==
  /\ type[r] = "SUSPEND" /\ thread[r] # "done"
  /\ ResumeGoto(r, "none", "alive")
  /\ type' = [type EXCEPT ![r] = "RESUME"]
  /\ UNCHANGED <<thread, attribute, latchs, open, aliveRequests>>

ForgetAlive(r) ==
  /\ ResumeGoto(r, "alive", "attribute")
  /\ aliveRequests' = aliveRequests \ {r}
  /\ UNCHANGED <<thread, type, attribute, latchs, open>>

\* Without the attribute it gives up: "Unable to resume the suspended
\* connection".
GetAttribute(r) ==
  /\ ResumeGoto(r, "attribute", IF r \in attribute THEN "take" ELSE "done")
  /\ UNCHANGED <<thread, type, attribute, latchs, open, aliveRequests>>

\* Mutant: the latch is taken and left shut.
TakeLatchShut(r) ==
  /\ ResumeGoto(r, "take", "done")
  /\ latchs' = latchs \ {r}
  /\ UNCHANGED <<thread, type, attribute, open, aliveRequests>>

\* Without a latch in the map as well.
TakeLatch(r) ==
  /\ ResumeGoto(r, "take", IF r \in latchs THEN "countDown" ELSE "done")
  /\ latchs' = latchs \ {r}
  /\ UNCHANGED <<thread, type, attribute, open, aliveRequests>>

CountDown(r) ==
  /\ ResumeGoto(r, "countDown", "done")
  /\ open' = open \cup {r}
  /\ UNCHANGED <<thread, type, attribute, latchs, aliveRequests>>

ResumeStep(r) == ForgetAlive(r) \/ GetAttribute(r) \/ TakeLatch(r) \/ CountDown(r)

---------------------------------------------------------------------------
Next == \E r \in Request : ThreadStep(r) \/ Resume(r) \/ ResumeStep(r)

\* Threads go on and clocks tick; no write has to fail.
Fairness == \A r \in Request : WF_vars(ThreadStep(r)) /\ WF_vars(ResumeStep(r))

Spec == Init /\ [][Next]_vars /\ Fairness

---------------------------------------------------------------------------
(* Properties.                                                             *)

\* A latch that is no longer in the map, where nobody else can find it, is
\* counted down sooner or later; so a response that was resumed with its latch
\* in place does not keep its thread.
TakenLatchOpens ==
  \A r \in Request :
    thread[r] = "await" /\ r \notin latchs => resume[r] = "countDown" \/ r \in open

\* Whenever it is resumed, or not at all, a request with a timeout returns its
\* thread and leaves no latch behind.
TimeoutReturns == \A r \in WithTimeout : <>[](thread[r] = "done" /\ r \notin latchs)

\* AtmosphereResource.java, resume(): "Complete the HttpServletResponse and
\* finish/commit it", for a response without a timeout.
ResumeCompletes == \A r \in Request : resume[r] # "none" ~> thread[r] = "done"
===========================================================================
