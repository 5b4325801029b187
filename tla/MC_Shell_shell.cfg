SPECIFICATION Spec
CONSTANTS
  Unset = Unset
  Lines <- MCLines
  Values <- MCValues
  MaxFd = 1024
  MaxName = 127
CHECK_DEADLOCK FALSE
INVARIANT DirectIsShells
INVARIANT DescriptorsAreShells
