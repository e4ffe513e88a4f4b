SPECIFICATION WorkspaceSpec
CONSTANTS
  a1 = a1
  Cards = {1, 2, 3}
  Lanes = {1, 2}
  Items = {1, 2, 3}
  Gap = 2
  Top = Top
  End = End
  MaxPlace = 2
  MaxDrops = 5
  Slots = {1, 2}
  Boards = {1, 2, 3, 4}
  Kinds = {"backlog", "running", "done"}
  Required = {"backlog", "running", "done"}
  FirstKind <- MCFirst
  Delegates = {a1}
  None = None
  Workers = {w1, w2}
  MaxRequests = 3
  Calls = {c1, c2}
  Humans = {h1}
  Tools = {"rm", "read"}
  Mutating = {"rm"}
  Destructive = {"rm"}
  Granted = {"read"}
  Covers <- MCCovers
  OldRules <- MCOldRules
  MaxCards = 2
  MaxRules = 2
  Reviewers = {c1}
  Readers = {poll}
  Scopes = {s1}
  MaxAttempts = 2
  MaxSleep = 1
  MaxTime = 3
  MaxPasses = 5
  m2 = m2
  Emails = {m1, m2}
  Invites = {i1}
  web1 = web1
  web2 = web2
  Clients = {web1, web2}
  Sessions = {1, 2}
  TTL = 4
  MaxNow = 4
  Nil = Nil
  Jobs = {d1, d2}
  Names <- MCNames
  HeadBranch = "head"
  BaseBranch = "main"
  OtherBranch = "other"
  NoBranch = "-"
  Somebody = somebody
  MaxFaults = 1
  Persons = {u1, u2}
  Asks = {ask1, ask2}
  Nothing = Nothing
  MaxReroutes = 1
  MaxCrashesN = 1
  TopicOf <- MCTopics
  Tabs = {tab}
  Wants <- MCWants
  RingSize = 2
  ConnBuffer = 1
  MaxConnects = 3
  p1 = p1
  p2 = p2
  d1 = d1
  d2 = d2
  Issues = {i1}
  Documents = {doc}
  Proposals = {t1}
  Suggested = {s1}
  Applies = {p1, p2}
  MaxTurns = 1
  MaxChecked = 2
INVARIANTS BootstrapInv AccountsInv DeliveryInv HubInv BoardConsistent PolicyHolds ForgeClientInv
PROPERTIES DragsAreExact AttentionIsTrue
CHECK_DEADLOCK FALSE
