\* A registered and a new task, one command at a time next to the runtime.
SPECIFICATION Spec
CONSTANTS
  a = a
  b = b
  Tasks = {a, b}
  Installed = {a}
  Editors = {e1}
  Interval <- MCInterval
  Place <- MCPlace
  HistoryLimit = 1
  MaxEdits = 1
  MaxCrashes = 2
  MaxClock = 2
  None = None
INVARIANTS
  NoSyntheticSuccess
PROPERTY
  DueIsTried
