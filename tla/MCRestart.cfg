SPECIFICATION RestartSpec
CONSTANTS
  a1 = a1
  Agents = {a1, a2}
  NoAgent = NoAgent
  Tickets = {}
  NoTicket = NoTicket
  NoColumn = NoColumn
  RunningColumns = {col}
  OtherColumns = {review}
  FirstRunning = col
  ReviewColumn = review
  InitialBoards <- AnyBoard
  MaxRuns = 2
  GlobalCap = 1
  AgentCap <- MCAgentCap
  WIPLimit <- NoWip
  DailyBudget = 0
  DailyCap <- NoDailyCap
  MaxSpend = 0
  MaxDrags = 0
  MaxCrashes = 1
  Pages = {1, 2}
  NoPage = NoPage
  Editors = {e1, e2}
  MaxEdits = 3
  MaxDay = 2
  Pulls = {1}
  MaxChanges = 2
  MaxNow = 2
  MaxFaults = 1
  Repos = {r1, r2}
  NoRepo = NoRepo
  u1 = u1
  u2 = u2
  r1 = r1
  Users = {u1, u2}
  Workers = {1, 2, 3}
  MaxOps = 3
  MaxRestarts = 1
  NumModules = 2
  PortIds = {"p", "q"}
  StopTime = 4
INVARIANTS CapsInv
PROPERTIES QueueDrains WikiHolds NewsIsTold OneWorkerOrNone SignalEndsIt
CHECK_DEADLOCK FALSE
