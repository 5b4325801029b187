\* Three children with one readable pipe each, two slots, one retained.
CONSTANTS
  c1 = c1  c2 = c2  c3 = c3
  Child = {c1, c2, c3}
  OutFd = {out}
  InFd = {}
  Process = process
  NoChild = nochild
  NoFd = nofd
  InfoMaxChildren = 2
  MaxDone = 1
  PipeSize = 1
  Pauses = FALSE
  Greedy = TRUE
SPECIFICATION Spec
SYMMETRY Symmetry
INVARIANTS IInv NoHandleOutlivesChild DoneWithLastHandle NoLostSlot LoopAliveWhileChildren
PROPERTIES RunUntilEveryChildDone ContractSpec
