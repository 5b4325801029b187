\* Two jobs at once, of which none, one or two are kept; their output and any keys.
CONSTANTS
  j1 = j1  j2 = j2  j3 = j3
  Child = {j1, j2}
  Fd = {}
  MaxChildren = 2
  Recorder = {}
  WantsLines = FALSE
  Cap = {0, 1, 2}
  CapInCallback = FALSE
  ReapInCallback = FALSE
  MaxOutput = 0
  NoJob = nojob
  MaxJobLines = 2
  Page = 1
SPECIFICATION TSpec
SYMMETRY Symmetry
INVARIANTS ScreenFresh
PROPERTIES SelectionStays
