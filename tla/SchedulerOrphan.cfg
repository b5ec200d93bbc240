\* A runtime dies while its callback runs.
SPECIFICATION Spec
CONSTANTS
  a = a
  b = b
  Tasks = {a, b}
  Installed = {a}
  Editors = {e1}
  Interval <- MCInterval
  Place <- MCPlace
  HistoryLimit = 1
  MaxEdits = 1
  MaxCrashes = 2
  MaxClock = 1
  None = None
INVARIANT NoOverlappingExecution
