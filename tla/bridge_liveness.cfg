CONSTANTS
  Depth = 1
  RingSize = 5
  Kinds = {"known"}
  Indicators = {4}
  MaxCmds = 1
  MaxAcls = 0
  MaxCtrls = 3
  MaxResets = 1
  None = None
SPECIFICATION FirmwareSpec
CHECK_DEADLOCK FALSE
PROPERTIES
  CommandsTaken
  AnswersArrive
