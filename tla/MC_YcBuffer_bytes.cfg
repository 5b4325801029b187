\* Two buffers and up to four bytes, in native and foreign fragments of two.
CONSTANTS
  Buffer = {"a", "b"}
  Fragment <- MCFragment
  Byte <- MCByte
  NUL = "NUL"
  NewLine = "nl"
  Unset = unset
  Foreign = {lent}
  ForeignData <- MCForeignData
  Texts <- MCTexts
  BUF_CHUNK_SIZE = 2
  MAX_RECYCLED = 1
  MAX_FRAGMENTS_TO_WRITE = 2
  ExactFit = FALSE
  MaxSize = 3
  NIL = NIL
SPECIFICATION Spec
VIEW Seen
INVARIANTS FragmentsOK OwnersToldOnce LooksRight
PROPERTIES ByteQueueSpec
