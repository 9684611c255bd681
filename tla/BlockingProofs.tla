--------------------------- MODULE BlockingProofs ---------------------------
(***************************************************************************)
(* A latch that was taken out of the map is counted down, for any number   *)
(* of requests, with and without timeouts.  The property is inductive once *)
(* the program counters have their types: a writer that has taken a latch  *)
(* stands in front of its countDown, and whoever finds the map empty after *)
(* that finds the latch open.                                              *)
(***************************************************************************)
EXTENDS BlockingIOCometSupport, TLAPS

ThreadSteps == {"suspended", "alive", "type", "attribute", "put", "await", "remove",
                "timedout", "done"}
ResumeSteps == {"none", "alive", "attribute", "take", "countDown", "done"}

\* The types of the counters.
Counters ==
  /\ thread \in [Request -> ThreadSteps]
  /\ resume \in [Request -> ResumeSteps]

IInv == Counters /\ TakenLatchOpens

\* No step but its own moves a counter.
LEMMA Types == ASSUME Counters, [Next]_vars PROVE Counters'
<1> USE DEF Counters, ThreadSteps, ResumeSteps
<1>1. ASSUME NEW r \in Request, ThreadStep(r) PROVE Counters'
  BY <1>1 DEF ThreadStep, TestSuspended, PutAlive, TestType, SetAttribute, PutLatch,
              Await, RemoveLatch, Timedout, Goto
<1>2. ASSUME NEW r \in Request, Resume(r) PROVE Counters'
  BY <1>2 DEF Resume, ResumeGoto
<1>3. ASSUME NEW r \in Request, ResumeStep(r) PROVE Counters'
  BY <1>3 DEF ResumeStep, ForgetAlive, GetAttribute, TakeLatch, CountDown, ResumeGoto
<1>4. CASE UNCHANGED vars
  BY <1>4 DEF vars
<1> QED BY <1>1, <1>2, <1>3, <1>4 DEF Next

\* The thread of a request: it waits only after it has put its latch into the
\* map, and takes it out only when it does not wait any more.
LEMMA ByThread ==
  ASSUME IInv, NEW r \in Request, ThreadStep(r) PROVE TakenLatchOpens'
<1> USE DEF IInv, Counters, TakenLatchOpens, Goto
<1>1. CASE TestSuspended(r) BY <1>1 DEF TestSuspended
<1>2. CASE PutAlive(r) BY <1>2 DEF PutAlive
<1>3. CASE TestType(r) BY <1>3 DEF TestType
<1>4. CASE SetAttribute(r) BY <1>4 DEF SetAttribute
<1>5. CASE PutLatch(r) BY <1>5 DEF PutLatch
<1>6. CASE Await(r) BY <1>6 DEF Await
<1>7. CASE RemoveLatch(r) BY <1>7 DEF RemoveLatch
<1>8. CASE Timedout(r) BY <1>8 DEF Timedout
<1> QED BY <1>1, <1>2, <1>3, <1>4, <1>5, <1>6, <1>7, <1>8 DEF ThreadStep

\* The writer: the latch that it takes is the one it counts down.
LEMMA ByWriter ==
  ASSUME IInv, NEW r \in Request, Resume(r) \/ ResumeStep(r) PROVE TakenLatchOpens'
<1> USE DEF IInv, Counters, TakenLatchOpens, ResumeGoto
<1>1. CASE Resume(r) BY <1>1 DEF Resume
<1>2. CASE ForgetAlive(r) BY <1>2 DEF ForgetAlive
<1>3. CASE GetAttribute(r) BY <1>3 DEF GetAttribute
<1>4. CASE TakeLatch(r) BY <1>4 DEF TakeLatch
<1>5. CASE CountDown(r) BY <1>5 DEF CountDown
<1> QED BY <1>1, <1>2, <1>3, <1>4, <1>5 DEF ResumeStep

\* A latch that is not in the map while its thread waits for it is open, or
\* about to be opened by the writer that has taken it.
THEOREM LatchTheorem == Spec => []TakenLatchOpens
<1>1. Init => IInv
  BY DEF Init, IInv, Counters, TakenLatchOpens, ThreadSteps, ResumeSteps
<1>2. IInv /\ [Next]_vars => IInv'
  <2> SUFFICES ASSUME IInv, [Next]_vars PROVE IInv'
    OBVIOUS
  <2>1. Counters'
    BY Types DEF IInv
  <2>2. CASE Next
    BY <2>2, <2>1, ByThread, ByWriter DEF Next, IInv
  <2>3. CASE UNCHANGED vars
    BY <2>1, <2>3 DEF IInv, Counters, TakenLatchOpens, vars
  <2> QED BY <2>2, <2>3
<1>3. IInv => TakenLatchOpens
  BY DEF IInv
<1> QED BY <1>1, <1>2, <1>3, PTL DEF Spec
=============================================================================
