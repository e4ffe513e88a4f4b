SPECIFICATION AgentsSpec
CONSTANTS
  Callers = {c1, c2}
  MaxParks = 1
  MaxCrashes = 1
  CRuns = {r1, r2}
  Owners = {o1, o2}
  NoOne = NoOne
  MaxTroubles = 1
  pass1 = pass1
  pass2 = pass2
  call1 = call1
  call2 = call2
  call3 = call3
  Passengers = {r1}
  Passes = {pass1, pass2}
  Calls = {call1, call2, call3}
  Policies <- MCPolicies
  AlwaysOpen <- MCAlwaysOpen
  Hosts <- MCHosts
  NoPass = NoPass
  NoCall = NoCall
  Window = 2
  MaxClock = 2
INVARIANTS EgressInv
PROPERTIES SupervisionHolds ContainersGo
CHECK_DEADLOCK FALSE
