CONSTANTS
  Depth = 1
  RingSize = 10
  Kinds = {"known", "unknown"}
  Indicators = {4}
  MaxCmds = 2
  MaxAcls = 0
  MaxCtrls = 0
  MaxResets = 0
  None = None
SPECIFICATION FairSpec
CHECK_DEADLOCK FALSE
PROPERTY EveryCommandAnswered
