\* Texts, frames with resizes, and keys.
CONSTANTS
  MaxPending = 5
  Unsigned = 1000000
  MaxHeight = 2
  Default <- DefaultSize
  Bounce = FALSE
  EveryRow = TRUE
  Sessions <- AllSessions
SPECIFICATION Spec
INVARIANTS ScreenShowsFrame Clipped KeysWhole Restored
CHECK_DEADLOCK FALSE
