\* Two devices, sweeps that outlast a period, and a day of up to six rows, of
\* which a chart shows four.
CONSTANTS
  Devices = {d1, d2}
  Powers = {1}
  Unreachable = Unreachable
  Period = 2
  Memory = 10
  MaxSweep = 3
  Day = 10
  Limit = 6
  MaxPoints = 4
SPECIFICATION Spec
INVARIANTS
  RowsApart
  DayChartIsFaithful
PROPERTIES
  RecordedAgain
