SPECIFICATION BoardSpec
CONSTANTS
  a1 = a1
  col = col
  backlog = backlog
  Agents = {a1}
  NoAgent = NoAgent
  Tickets = {t1, t2}
  NoTicket = NoTicket
  NoColumn = NoColumn
  RunningColumns = {col}
  OtherColumns = {backlog, review}
  FirstRunning = col
  ReviewColumn = review
  InitialBoards <- AllBacklog
  MaxRuns = 2
  GlobalCap = 2
  AgentCap <- NoAgentCap
  WIPLimit <- WipOne
  DailyBudget = 1
  DailyCap <- MCDailyCap
  MaxSpend = 1
  MaxDrags = 1
  MaxCrashes = 1
  ag1 = ag1
  AgentIds = {ag1, ag2}
  FirstAgent = ag1
  RosterNames = {"dev", "reviewer"}
  Starters <- MCStarters
  Bodies = {"b1", "b2"}
  RunIds = {r1}
  Clerks = {q1, q2, q3}
  Absent = Absent
  q1 = q1
  q2 = q2
  q3 = q3
  Serve = serve
  Doctor = doctor
  k1 = k1
  k2 = k2
  MasterKeys = {k1, k2}
  SecretIds = {1, 2}
  OAuthName = oauth
  APIKeyName = apikey
  PlainName = plain
  ServerEnv = {apikey}
  e1 = e1
  e2 = e2
  Editors = {e1, e2}
  NoSecret = NoSecret
  GoneSecret = GoneSecret
  NoKey = NoKey
  EmptyKey = EmptyKey
  v1 = v1
  v2 = v2
  c1 = c1
  c2 = c2
  c3 = c3
  c4 = c4
  wa = wa
  wp = wp
  wr = wr
  wm = wm
  Occurrences <- MCOccurrences
  ThreadOf <- MCThreadOf
  ReviewOf <- MCReviewOf
  InReplyTo <- MCInReplyTo
  Tree <- MCTree
  ScopeOf <- MCScopeOf
  NoReview = NoReview
  NoComment = NoComment
  NoCause = NoCause
  MaxHistory = 2
  MaxHops = 2
  LinkedTicket = TRUE
  MaxMoves = 1
  Entries = {1, 2, 3}
  PullEntries = {2}
  PageSize = 1
  MaxPages = 2
  MaxTurned = 4
INVARIANTS RosterInv SecretsInv PromptInv ListingInv
PROPERTIES NoOvertaking
CHECK_DEADLOCK FALSE
SYMMETRY TicketSymmetry
