CONSTANTS
  MaxPacket = 2
  Depth = 1
  InLengths = {1, 2, 3}
  OutLengths = {2}
  MaxIn = 2
  MaxOut = 2
  MaxResets = 1
  None = None
SPECIFICATION FairSpec
CHECK_DEADLOCK FALSE
INVARIANTS
  TypeOK
  OutPiecesInOrder
  LedTellsWriter
PROPERTIES
  ImplementsDelivery
  ConnectedShown
