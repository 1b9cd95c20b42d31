CONSTANTS
  Depth = 2
  RingSize = 10
  Kinds = {"known", "unknown"}
  Indicators = {4}
  MaxCmds = 4
  MaxAcls = 0
  MaxCtrls = 0
  MaxResets = 2
  None = None
SPECIFICATION Spec
CHECK_DEADLOCK FALSE
INVARIANTS
  CreditsBoundCommands
  ChannelTakesCommands
  AnswersMatchCommands
