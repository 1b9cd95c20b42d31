CONSTANTS
  Depth = 1
  RingSize = 10
  Kinds = {"known"}
  Indicators = {2, 4}
  MaxCmds = 2
  MaxAcls = 1
  MaxCtrls = 1
  MaxResets = 1
  None = None
SPECIFICATION Spec
CHECK_DEADLOCK FALSE
INVARIANTS
  TypeOK
  DownstreamInOrder
  UpstreamInOrder
  NoLostWakeup
PROPERTY ImplementsServer
