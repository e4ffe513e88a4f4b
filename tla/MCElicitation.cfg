SPECIFICATION TalkSpec
CONSTANTS
  c1 = c1
  c2 = c2
  h1 = h1
  h2 = h2
  Calls = {c1, c2}
  Requests = {q, p}
  Approvals = {p}
  Responders = {h1, h2}
  MaxRows = 1
  MaxRestarts = 1
  Messages = {1, 2}
  ToolCalls = {t1}
  PipeSize = 1
  MaxTurns = 1
  MaxOthers = 1
INVARIANTS ElicitationInv SessionInv
PROPERTIES AnswerReturns SessionMovesOn
CHECK_DEADLOCK FALSE
