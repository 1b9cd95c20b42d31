CONSTANTS
  Commands <- MCCommands
  ParamSize <- MCParamSize
  ReturnSize <- MCReturnSize
  Statuses = {0, 12}
  MaxCmds = 3
SPECIFICATION Spec
CHECK_DEADLOCK FALSE
INVARIANTS
  TypeOK
  OneAnswerEach
  AnswersWellFormed
  EnoughParams
  StatusBeforeResult
PROPERTY ImplementsServer
