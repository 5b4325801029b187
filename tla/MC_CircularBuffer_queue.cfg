\* Lines of up to three bytes in a ring of three bytes and three records.
CONSTANTS
  BufferSize = 3
  MaxLineLength = 3
  MaxLines = 3
  Utf8 = TRUE
  LineData = {stdout}
  MinLength = 0
  MaxText = 4
  Nothing = nothing
SPECIFICATION MCSpec
INVARIANTS LineToDrop
PROPERTIES QueueSpec
