CONSTANTS
  MaxPacket = 2
  Depth = 1
  InLengths = {1}
  OutLengths = {1, 3}
  MaxIn = 0
  MaxOut = 2
  MaxResets = 1
  None = None
SPECIFICATION Spec
CHECK_DEADLOCK FALSE
INVARIANT AclWhole
