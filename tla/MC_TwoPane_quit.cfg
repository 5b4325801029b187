\* The user quits, and the jobs end.
CONSTANTS
  j1 = j1  j2 = j2  j3 = j3
  Child = {j1}
  Fd = {}
  MaxChildren = 2
  Recorder = {}
  WantsLines = FALSE
  Cap = {1}
  CapInCallback = FALSE
  ReapInCallback = FALSE
  MaxOutput = 0
  NoJob = nojob
  MaxJobLines = 1
  Page = 1
SPECIFICATION TFairSpec
PROPERTIES QuitEnds
