SPECIFICATION GuardSpec
CONSTANTS
  dev = dev
  critic = critic
  p1 = p1
  p2 = p2
  p3 = p3
  MaxEvents = 3
  MaxRuns = 3
  MaxTime = 3
  MaxCrashes = 1
  Delay = 1
  Subjects = {s1}
  Human = Human
  External = External
  Reviews = {w}
  NoReview = NoReview
  NumTriggers = 2
  Listens <- MCListens
  RunAgent <- TwoAgents
  ActorSuppression <- Always
  Window <- MCWindow
  CancelInProgress <- Always
  DepthLimit <- MCDepth
  HopCap = 64
  Catalog <- MCCatalog
  Schedule = "schedule"
  Happenings <- MCHappenings
  RuleBranches = {"main"}
  Trees <- MCTrees
  MaxDepth = 3
  PatchedAtOnce <- MCPatched
  Patchers = {p1, p2, p3}
  NoRule = NoRule
  GoneRule = GoneRule
  Expressions <- MCExpressions
  When <- MCWhen
  FirstMinute = 0
  LastMinute = 4
  Lookback = 3
  NoMinute <- MinusOne
  MaxFaults = 1
  k1 = k1
  k2 = k2
  Clerks = {k1, k2}
  NoOne = NoOne
  MaxJobs = 3
  MaxHitches = 1
  Hands <- MCHands
  HandOf <- MCHandOf
  HandName <- MCHandName
  Templates <- MCTemplates
  MaxSlug = 5
  Person = "person"
  Stranger = "stranger"
  MaxPushes = 2
INVARIANTS RulesInv OneRunPerBurst Succession
PROPERTIES ScheduleKept DeskHolds AttributionHolds
CHECK_DEADLOCK FALSE
