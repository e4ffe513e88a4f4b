SPECIFICATION SumSpec
CONSTANTS
  MaxEvents = 3
  Projects = {p1}
  ProjectOf <- OneProject
  NumTriggers = 2
  Listening <- MCListening
  BufferSize = 2
  QueueSize = 1
  MaxBoots = 2
  Filed = {t1, t2}
  Native = {}
  Tags = {l}
  RuleTags = {l}
  Unmerged = Unmerged
  PROf <- MCPROf
  MaxVerbs = 3
  MaxClock = 2
INVARIANTS EngineInv
PROPERTIES FiredNeverReruns AckedIsEvaluated TriageHolds
CHECK_DEADLOCK FALSE
