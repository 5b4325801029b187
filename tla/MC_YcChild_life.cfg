\* One slot, a pipe we write and a socketpair: hangups, and run and destroy return.
CONSTANTS
  c1 = c1  c2 = c2  c3 = c3
  Child = {c1, c2}
  OutFd = {sock}
  InFd = {in, sock}
  Process = process
  NoChild = nochild
  NoFd = nofd
  InfoMaxChildren = 0
  MaxDone = 0
  PipeSize = 1
  Pauses = FALSE
  Greedy = FALSE
SPECIFICATION FairSpec
PROPERTIES HangupLosesNothing RunTerminates DestroyTerminates
