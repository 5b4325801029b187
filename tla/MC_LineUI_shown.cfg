\* Two jobs, two pipes and three bytes in all: every way to cut the streams.
CONSTANTS
  Child = {j1, j2}
  Fd = {out, err}
  MaxChildren = 1
  Recorder = {rec}
  WantsLines = TRUE
  Cap = {0}
  CapInCallback = FALSE
  ReapInCallback = FALSE
  MaxOutput = 3
  MaxTotal = 3
  MaxPipes = 2
  NoJob = nojob
SPECIFICATION LSpec
SYMMETRY Symmetry
INVARIANTS LinesExact NotesAfterLines FilesExact
PROPERTIES ReportSpec
