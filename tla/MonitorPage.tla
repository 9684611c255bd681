----------------------------- MODULE MonitorPage ----------------------------
(***************************************************************************)
(* The page of AtmController: views/atm/index.gsp.  It listens to the push *)
(* channel with jQuery.atmosphere and adds what its callback gets to the   *)
(* chart.                                                                  *)
(***************************************************************************)
EXTENDS AtmosphereClient, SmoothieChart

CONSTANT Field  \* the second field of every message

ASSUME PageAssumption == Field \in [1 .. MaxMessage -> Number]

vars == <<clientVars, chartVars>>

PageInit == Init /\ ChartInit

\* The callback: the second field of a message, which is a String; of a text
\* that is no message, nothing that is a number.
Callback ==
  IF heard' = heard
    THEN UNCHANGED chartVars
    ELSE IF Last(heard') = Garbled
           THEN AppendPoint(NaN)
           ELSE AppendPoint(AsString(Field[Last(heard')]))

Next ==
  \/ ClientNext /\ Callback
  \/ ChartNext /\ UNCHANGED clientVars

\* The browser runs the page's timers.
Fairness == ClientFairness /\ WF_vars(ResetBounds /\ UNCHANGED clientVars)

Spec == PageInit /\ [][Next]_vars
FairSpec == Spec /\ Fairness

\* The types of the client's and of the chart's variables.
TypeOK == ClientTypeOK /\ ChartTypeOK
===========================================================================
