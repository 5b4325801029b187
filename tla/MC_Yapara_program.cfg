\* Three lines, two jobs at a time, of which the UI keeps none, one or two;
\* it has no handle of its own.
CONSTANTS
  Child = {1, 2, 3}
  MaxLines = 3
  Fd = {out}
  MaxChildren = 2
  Recorder = {rec}
  WantsLines = FALSE
  Cap = {0, 1, 2}
  CapInCallback = FALSE
  ReapInCallback = FALSE
  UIKeepsLoop = FALSE
  MaxOutput = 0
  NoJob = nojob
SPECIFICATION YFairSpec
INVARIANTS ExitStatusTrue JobTables DestroyedOnce
PROPERTIES ValidWhenReported Ends
