CONSTANTS
  Commands <- MCCommands
  ParamSize <- MCParamSize
  ReturnSize <- MCReturnSize
  Statuses = {0, 12}
  MaxCmds = 2
SPECIFICATION Spec
CHECK_DEADLOCK FALSE
INVARIANT EveryPacketDispatched
