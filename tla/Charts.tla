------------------------------- MODULE Charts -------------------------------
(***************************************************************************)
(* What is read from the snapshots: the chart of a device (app/devices).   *)
(* It is read with one SELECT, and so is a function of the committed rows. *)
(***************************************************************************)
EXTENDS History, FiniteSets

CONSTANTS
  Day,        \* the first of the periods a chart can have, 24 h
  Limit,      \* rows get_snapshots_for_chart returns at most, 2000
  MaxPoints   \* points a chart has at most, 250

\* A day has no more rows than a chart loads, see RowsApart.
ASSUME ChartAssumption ==
  /\ Day \in 0 .. Memory
  /\ Limit \in Nat /\ MaxPoints \in Nat \ {0}
  /\ Day \div Period < Limit

-----------------------------------------------------------------------------
(* get_device_snapshots.                                                   *)

Seen(d, span) == {r \in rows[d] : r.age <= span}

\* The place of a row among the rows R, from 0, the oldest.
Place(r, R) == Cardinality({s \in R : s.age > r.age})

\* get_snapshots_for_chart: the oldest rows of the span, up to the limit.
Loaded(d, span) ==
  {r \in Seen(d, span) : Place(r, Seen(d, span)) < Limit}

\* Variant: the step is a whole number.
TakenEveryFew(n, low) ==
  IF n <= MaxPoints THEN 0 .. n - 1
  ELSE {i * (n \div MaxPoints) : i \in 0 .. MaxPoints - 1}

\* The i for which int(i * step) may be one too low: i * step is a whole
\* number, and step is not, so that the product of floats may be below it.
Rounded(n) ==
  {i \in 1 .. MaxPoints - 1 : (i * n) % MaxPoints = 0 /\ n % MaxPoints # 0}

\* _downsample: the places it takes of n, when int() came out low for `low'.
Taken(n, low) ==
  IF n <= MaxPoints THEN 0 .. n - 1
  ELSE {(i * n) \div MaxPoints - (IF i \in low THEN 1 ELSE 0) :
          i \in 0 .. MaxPoints - 1}

Chart(d, span, low) ==
  LET R == Loaded(d, span)
  IN  {r \in R : Place(r, R) \in Taken(Cardinality(R), low)}

-----------------------------------------------------------------------------
(* Properties.                                                             *)

\* `Get historical snapshots for chart rendering (downsampled to <= 250
\* points)' and `evenly-spaced' (devices/service.py:124 and 176): no row of
\* the span, the newest included, is a whole step away from the point
\* before it, there are no more than MaxPoints points, and no two of them
\* are the same row.
Faithful(d, span) ==
  LET R == Seen(d, span)
      n == Cardinality(R)
      step == (n + MaxPoints - 1) \div MaxPoints IN
  \A low \in SUBSET Rounded(n) :
    LET C == Chart(d, span, low) IN
    /\ Cardinality(C) = IF n <= MaxPoints THEN n ELSE MaxPoints
    /\ \A r \in R : \E c \in C : /\ Place(c, R) <= Place(r, R)
                                 /\ Place(r, R) < Place(c, R) + step

\* The chart of a day is faithful, whatever was recorded and lost.
DayChartIsFaithful == \A d \in Devices : Faithful(d, Day)

=============================================================================
