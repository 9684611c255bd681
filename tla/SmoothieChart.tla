---------------------------- MODULE SmoothieChart ---------------------------
(***************************************************************************)
(* A SmoothieChart that draws one TimeSeries: smoothie.js.  The series      *)
(* keeps its points and the bounds of their values; an interval timer      *)
(* works the bounds out again, and the loop of streamTo draws, which also  *)
(* deletes the points that have left the chart.                            *)
(*                                                                         *)
(* JavaScript has no types for a value: it is a number, NaN or a String,   *)
(* and a String that reads like a number is as good as one for everything  *)
(* but the method toFixed.                                                 *)
(***************************************************************************)
EXTENDS Integers, Sequences, SequencesExt

CONSTANTS
  Window,    \* how many ticks it takes a point to cross the chart
  Number     \* what values there are to draw; they are not negative

ASSUME ChartAssumption == Window \in Nat /\ Number \subseteq Nat /\ 0 \in Number

VARIABLES
  data,      \* the points, oldest first
  maxValue,
  minValue,
  drawing    \* whether streamTo goes on

chartVars == <<data, maxValue, minValue, drawing>>

NaN == [n |-> -1, string |-> FALSE]
AsNumber(n) == [n |-> n, string |-> FALSE]
AsString(n) == [n |-> n, string |-> TRUE]
IsNaN(value) == value.n = NaN.n

Value == {NaN} \cup [n : Number, string : BOOLEAN]

\* A point ages until it has left the chart.
Left == Window + 1
Point == [age : 0 .. Left, value : Value]

\* initData: the page's series starts with the number 0.
ChartInit ==
  /\ data = <<[age |-> 0, value |-> AsNumber(0)]>>
  /\ maxValue = AsNumber(0)
  /\ minValue = AsNumber(0)
  /\ drawing = TRUE

---------------------------------------------------------------------------

\* Math.max and Math.min make numbers of their arguments.
MathMax(v, w) ==
  IF IsNaN(v) \/ IsNaN(w) THEN NaN ELSE AsNumber(IF v.n > w.n THEN v.n ELSE w.n)
MathMin(v, w) ==
  IF IsNaN(v) \/ IsNaN(w) THEN NaN ELSE AsNumber(IF v.n < w.n THEN v.n ELSE w.n)

\* Mutant: the smaller one of the two as it is.
NarrowPlain(min, value) ==
  IF IsNaN(min) \/ value.n < min.n THEN value ELSE min

\* A bound and another value: the first value is taken as it is.
Widen(max, value) == IF IsNaN(max) THEN value ELSE MathMax(max, value)
Narrow(min, value) == IF IsNaN(min) THEN value ELSE MathMin(min, value)

\* Mutant: the upper bound is not updated.
AppendLow(value) ==
  /\ data' = Append(data, [age |-> 0, value |-> value])
  /\ minValue' = Narrow(minValue, value)
  /\ UNCHANGED <<maxValue, drawing>>

\* append
AppendPoint(value) ==
  /\ data' = Append(data, [age |-> 0, value |-> value])
  /\ maxValue' = Widen(maxValue, value)
  /\ minValue' = Narrow(minValue, value)
  /\ UNCHANGED drawing

\* Mutant: the bounds are not set to NaN first.
ResetBoundsFurther ==
  /\ maxValue' = FoldLeft(LAMBDA max, point : Widen(max, point.value), maxValue, data)
  /\ minValue' = FoldLeft(LAMBDA min, point : Narrow(min, point.value), minValue, data)
  /\ UNCHANGED <<data, drawing>>

\* The bounds of the first i points: where the loop of resetBounds has got to.
Highest[i \in 0 .. Len(data)] ==
  IF i = 0 THEN NaN ELSE Widen(Highest[i - 1], data[i].value)
Lowest[i \in 0 .. Len(data)] ==
  IF i = 0 THEN NaN ELSE Narrow(Lowest[i - 1], data[i].value)

\* resetBounds, the task of the interval timer
ResetBounds ==
  /\ maxValue' = Highest[Len(data)]
  /\ minValue' = Lowest[Len(data)]
  /\ UNCHANGED <<data, drawing>>

\* Mutant: all that have left the chart are deleted.
OnChartOnly == SelectSeq(data, LAMBDA point : point.age # Left)

\* The points without those that have left the chart, but with the last of
\* these, from which the line comes in.
OnChart ==
  LET left == {i \in DOMAIN data : data[i].age = Left}
  IN  SubSeq(data, IF left = {} THEN 1 ELSE Max(left), Len(data))

\* render: nothing without bounds; else old points are deleted, the line drawn,
\* and the bounds written.  toFixed of the lower one throws if it is a String,
\* and then streamTo does not come to set its next timeout.
Render ==
  /\ drawing
  /\ IF IsNaN(maxValue) /\ IsNaN(minValue)
       THEN UNCHANGED <<data, drawing>>
       ELSE /\ data' = OnChart
            /\ drawing' = ~ minValue.string
  /\ UNCHANGED <<maxValue, minValue>>

\* Time passes.
Tick ==
  /\ data' = [i \in DOMAIN data |->
                [data[i] EXCEPT !.age = IF @ = Left THEN Left ELSE @ + 1]]
  /\ UNCHANGED <<maxValue, minValue, drawing>>

ChartNext == ResetBounds \/ Render \/ Tick

---------------------------------------------------------------------------
(* Properties.                                                             *)

\* The types; points get older to the left.
ChartTypeOK ==
  /\ data \in Seq(Point) /\ data # << >>
  /\ \A i, j \in DOMAIN data : i < j => data[i].age >= data[j].age
  /\ {maxValue, minValue} \subseteq Value
  /\ drawing \in BOOLEAN

\* The values after the last that was not a number.
Scaled ==
  {data[i].value.n : i \in {j \in DOMAIN data :
     \A k \in j .. Len(data) : ~ IsNaN(data[k].value)}}

\* Appending, deleting and working out again keep the scale wide enough: no
\* point of the line is drawn outside, unless a value that was not a number
\* has come after it.
ScaleCovers ==
  IF Scaled = {} THEN IsNaN(maxValue) /\ IsNaN(minValue)
                 ELSE \A n \in Scaled : minValue.n <= n /\ n <= maxValue.n

\* The scale is no wider than the values after the last that was no number.
Tight == Scaled # {} => maxValue.n \in Scaled /\ minValue.n \in Scaled

\* smoothie.js: "so the graph rescales itself": a peak that has left the chart
\* does not keep the scale wide for ever.
Rescales == []<>Tight

\* smoothie.js: "We must always keep the last expired data point as we need
\* this to draw the line that comes into the chart".
LineComesIn ==
  [][(\E i \in DOMAIN data : data[i].age = Left) =>
       \E i \in DOMAIN data' : data'[i].age = Left]_chartVars

\* The chart stops only if one point is left, or one that is not a number: while
\* messages come in one by one nothing stops it.
StopsOnlyAlone ==
  [][drawing /\ ~ drawing' =>
       Len(data') = 1 \/ \E i \in DOMAIN data : IsNaN(data[i].value)]_chartVars

\* The tutorial of the library: "displaying smooth live time lines".
KeepsDrawing == drawing
===========================================================================
