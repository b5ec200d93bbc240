\* A command saves the file it loaded before the runtime saved a success.
SPECIFICATION Spec
CONSTANTS
  a = a
  b = b
  Tasks = {a, b}
  Installed = {a}
  Editors = {e1}
  Interval <- MCInterval
  Place <- MCPlace
  HistoryLimit = 1
  MaxEdits = 1
  MaxCrashes = 2
  MaxClock = 1
  None = None
PROPERTY SuccessNotRolledBack
