CONSTANTS
  Depth = 1
  RingSize = 10
  Kinds = {"known"}
  Indicators = {4}
  MaxCmds = 1
  MaxAcls = 0
  MaxCtrls = 0
  MaxResets = 1
  None = None
SPECIFICATION FairSpec
CHECK_DEADLOCK FALSE
PROPERTY DisconnectNoticed
