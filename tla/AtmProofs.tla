----------------------------- MODULE AtmProofs ------------------------------
(***************************************************************************)
(* stop works for any number of browsers, pushes and iterations: what is   *)
(* invariant is that a push which still sleeps has not broadcast since the *)
(* stop, because it has not tested data since.                             *)
(***************************************************************************)
EXTENDS AtmController, TLAPS

TypeOK ==
  /\ data \in Nat
  /\ loop \in [Push -> {"idle", "test", "sleep"}]
  /\ late \in [Push -> {0, 1}]

IInv ==
  /\ TypeOK
  /\ \A p \in Push : data # 0 \/ loop[p] = "sleep" => late[p] = 0

LEMMA InvariantInit == Init => IInv
BY DEF Init, IInv, TypeOK

LEMMA InvariantStep ==
  ASSUME IInv, [Next]_vars
  PROVE  IInv'
<1> USE DEF IInv, TypeOK
<1>1. ASSUME NEW b \in Browser, Index(b)
      PROVE  IInv'
  BY <1>1 DEF Index
<1>2. ASSUME NEW b \in Browser, Seed(b)
      PROVE  IInv'
  BY <1>2, ControllerAssumption DEF Seed
<1>3. ASSUME NEW b \in Browser, Stop(b)
      PROVE  IInv'
  BY <1>3 DEF Stop
<1>4. ASSUME NEW b \in Browser, NEW p \in Push, Load(b, p)
      PROVE  IInv'
  BY <1>4 DEF Load
<1>5. ASSUME NEW p \in Push, Test(p)
      PROVE  IInv'
  BY <1>5 DEF Test
<1>6. ASSUME NEW p \in Push, Broadcast(p)
      PROVE  IInv'
  BY <1>6 DEF Broadcast
<1>7. ASSUME NEW p \in Push, Return(p)
      PROVE  IInv'
  BY <1>7 DEF Return
<1>8. CASE UNCHANGED vars
  BY <1>8 DEF vars
<1> QED
  BY <1>1, <1>2, <1>3, <1>4, <1>5, <1>6, <1>7, <1>8 DEF Next, PushStep

\* After a stop each push broadcasts at most once more.
THEOREM QuietTheorem == Spec => []QuietAfterStop
<1>1. IInv => QuietAfterStop
  BY DEF IInv, TypeOK, QuietAfterStop
<1> QED
  BY <1>1, InvariantInit, InvariantStep, PTL DEF Spec
=============================================================================
