\* Every command line of up to three items, in every form of each option.
CONSTANTS
  Table <- MCTable
  Shortcut <- MCShortcut
  Exclusions <- MCExclusions
  NumberOf <- MCNumberOf
  ColorOf <- MCColorOf
  PairOf <- MCPairOf
  KnownUIs <- MCKnownUIs
  KnownRecorders <- MCKnownRecorders
  MAX_RECORDERS = 1
  UIntMax = 8
  Lines <- MCLines
  Modes <- MCModes
  NoValue = NoValue
  Bad = Bad
SPECIFICATION Spec
CHECK_DEADLOCK FALSE
INVARIANTS Understood Remains AcceptedIfRight
