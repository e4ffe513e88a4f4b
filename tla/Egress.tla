-------------------------------- MODULE Egress --------------------------------
(***************************************************************************)
(* The egress proxy (internal/module/docker/proxy.go): runs are registered *)
(* with a token and a policy; a request is authenticated, decided, logged  *)
(* once per window and then tunnelled or forwarded, each on its own while  *)
(* runs come and go.                                                       *)
(***************************************************************************)
EXTENDS Integers, Sequences

CONSTANTS
  Passengers,     \* runs
  Passes,         \* tokens, each given out once
  Policies,       \* a mode, and the patterns a project allows
  AlwaysOpen,     \* patterns every policy has: the model's hosts and the repository's
  Hosts,          \* hosts containers ask for, each as its labels
  Calls,          \* requests, each made once
  NoPass, NoCall,
  Window,         \* how long repeats are counted and not logged
  MaxClock        \* bound on time

Patterns == AlwaysOpen \cup UNION {p.allow : p \in Policies}

\* A registration, and a request: refused, or with the decision on it and with what it will
\* report besides itself.
Registrations == [run : Passengers, pass : Passes, mode : {"none", "allowlist", "open"},
                  patterns : SUBSET Patterns]
NoRegistration == [pass |-> NoPass]
Refusals == [step : {"refused"}, pass : Passes]
Decisions ==
  [step : {"decided", "logging", "dialing", "forbidden", "served"}, pass : Passes, host : Hosts,
   reg : Registrations, allowed : BOOLEAN, repeats : SUBSET Calls]

ASSUME EgressAssumption ==
  /\ NoPass \notin Passes /\ Window \in Nat \ {0} /\ MaxClock \in Nat
  /\ \A p \in Policies : p.mode \in {"none", "allowlist", "open"}
  /\ NoCall \notin Refusals \cup Decisions

VARIABLES
  byRun,        \* run -> its registration
  byToken,      \* token -> the registration it is accepted for
  recent,       \* decisions that were logged, and the ones like them since, which are counted
  calls,        \* requests
  tunnels,      \* connections that are copied both ways
  told,         \* decisions the run's activities speak of, or the log where one cannot be stored
  made,         \* history: decisions made
  wallClock

egressVars == <<byRun, byToken, recent, calls, tunnels, told, made, wallClock>>

------------------------------------------------------------------------------
(* Policies.                                                                 *)

\* A pattern is a host, or a star and a host: that host and all below it.  A star alone is
\* none.
Patterned(host, pattern) ==
  IF Head(pattern) = "*"
  THEN /\ Len(pattern) \in 2..(Len(host) + 1)
       /\ SubSeq(host, Len(host) - Len(pattern) + 2, Len(host)) = Tail(pattern)
  ELSE host = pattern

Compiled(policy) == AlwaysOpen \cup (IF policy.mode = "allowlist" THEN policy.allow ELSE {})

Allows(reg, host) ==
  reg.mode = "open" \/ \E p \in reg.patterns : Patterned(host, p)

Registered(run) == byRun[run] # NoRegistration

\* A decision is of a run, a host and its outcome.
Key(call) == [run |-> call.reg.run, host |-> call.host, allowed |-> call.allowed]
Keys == [run : Passengers, host : Hosts, allowed : BOOLEAN]
NoRecent == [at |-> -1, suppressed |-> {}]

------------------------------------------------------------------------------
(* The actions.                                                              *)

EgressInit ==
  /\ byRun = [r \in Passengers |-> NoRegistration]
  /\ byToken = [t \in Passes |-> NoRegistration]
  /\ recent = [k \in Keys |-> NoRecent]
  /\ calls = [c \in Calls |-> NoCall]
  /\ tunnels = {}
  /\ told = [k \in Keys |-> {}] /\ made = [k \in Keys |-> {}]
  /\ wallClock = 0

\* Mutant: the token the run had stays good.
AcceptingBoth(run, pass, reg) == [byToken EXCEPT ![pass] = reg]

\* The run's token is the new one, and the one it had is no more.
Accepting(run, pass, reg) ==
  [t \in Passes |-> IF t = pass THEN reg
                    ELSE IF t = byRun[run].pass THEN NoRegistration ELSE byToken[t]]

\* Preparing a run, or taking it up again after a restart.
Register(run, pass, policy) ==
  LET reg == [run |-> run, pass |-> pass, mode |-> policy.mode, patterns |-> Compiled(policy)]
  IN /\ \A r \in Passengers : byRun[r].pass # pass
     /\ \A c \in Calls : calls[c] # NoCall => calls[c].pass # pass
     /\ byRun' = [byRun EXCEPT ![run] = reg]
     /\ byToken' = Accepting(run, pass, reg)
  /\ UNCHANGED <<recent, calls, tunnels, told, made, wallClock>>

\* The end of a run: its token and its counts go.
Unregister(run) ==
  /\ byRun' = [byRun EXCEPT ![run] = NoRegistration]
  /\ byToken' = [t \in Passes |-> IF t = byRun[run].pass THEN NoRegistration ELSE byToken[t]]
  /\ recent' = [k \in Keys |-> IF k.run = run THEN NoRecent ELSE recent[k]]
  /\ made' = [k \in Keys |-> IF k.run = run THEN made[k] \ recent[k].suppressed ELSE made[k]]
  /\ UNCHANGED <<calls, tunnels, told, wallClock>>

\* The registration a request's token stands for.
Authenticated(pass) == byToken[pass]

\* A container asks: with a token that is not known it learns nothing.
AskHost(c, pass, host) ==
  /\ calls[c] = NoCall
  /\ calls' = [calls EXCEPT ![c] =
       IF Authenticated(pass) = NoRegistration THEN [step |-> "refused", pass |-> pass]
       ELSE [step |-> "decided", pass |-> pass, host |-> host, reg |-> Authenticated(pass),
             allowed |-> Allows(Authenticated(pass), host), repeats |-> {}]]
  /\ made' = IF Authenticated(pass) = NoRegistration THEN made
             ELSE [made EXCEPT ![Key(calls'[c])] = @ \cup {c}]
  /\ UNCHANGED <<byRun, byToken, recent, tunnels, told, wallClock>>

Answered(c) == IF calls[c].allowed THEN "dialing" ELSE "forbidden"

\* Within the window a repeat is counted; after it, the next is logged with the count.
Repeated(k) == recent[k] # NoRecent /\ wallClock - recent[k].at < Window

CountRepeat(c) ==
  LET k == Key(calls[c]) IN
  /\ Repeated(k)
  /\ recent' = [recent EXCEPT ![k] = [at |-> recent[k].at, suppressed |-> recent[k].suppressed \cup {c}]]
  /\ calls' = [calls EXCEPT ![c].step = Answered(c)]
LogWithCount(c) ==
  LET k == Key(calls[c]) IN
  /\ ~Repeated(k)
  /\ recent' = [recent EXCEPT ![k] = [at |-> wallClock, suppressed |-> {}]]
  /\ calls' = [calls EXCEPT ![c] = [@ EXCEPT !.step = "logging", !.repeats = recent[k].suppressed]]

LogDecision(c) ==
  /\ calls[c] # NoCall /\ calls[c].step = "decided"
  /\ CountRepeat(c) \/ LogWithCount(c)
  /\ UNCHANGED <<byRun, byToken, tunnels, told, made, wallClock>>

\* What the activity of a request speaks of: its own decision, and those counted before it.
Carries(c) == {c} \cup calls[c].repeats

\* The activity is written outside the lock, and whether the client is still there or not.
AppendActivity(c) ==
  /\ calls[c] # NoCall /\ calls[c].step = "logging"
  /\ told' = [told EXCEPT ![Key(calls[c])] = @ \cup Carries(c)]
  /\ calls' = [calls EXCEPT ![c].step = Answered(c)]
  /\ UNCHANGED <<byRun, byToken, recent, tunnels, made, wallClock>>

\* The host that was checked is dialed by the proxy; or it cannot be, or the client has gone.
Dial(c) ==
  /\ calls[c] # NoCall /\ calls[c].step = "dialing"
  /\ tunnels' \in {tunnels, tunnels \cup {c}}
  /\ calls' = [calls EXCEPT ![c].step = "served"]
  /\ UNCHANGED <<byRun, byToken, recent, told, made, wallClock>>

\* Either end of it closes, and then both.
CloseTunnel(c) ==
  /\ c \in tunnels /\ tunnels' = tunnels \ {c}
  /\ UNCHANGED <<byRun, byToken, recent, calls, told, made, wallClock>>

PassTime ==
  /\ wallClock < MaxClock /\ wallClock' = wallClock + 1
  /\ UNCHANGED <<byRun, byToken, recent, calls, tunnels, told, made>>

EgressNext ==
  \/ \E r \in Passengers : \/ \E t \in Passes, p \in Policies : Register(r, t, p)
                           \/ Registered(r) /\ Unregister(r)
  \/ \E c \in Calls : \/ \E t \in Passes, h \in Hosts : AskHost(c, t, h)
                      \/ LogDecision(c) \/ AppendActivity(c) \/ Dial(c) \/ CloseTunnel(c)
  \/ PassTime

EgressSpec == EgressInit /\ [][EgressNext]_egressVars

------------------------------------------------------------------------------
(* What must hold.                                                           *)

\* A token opens the way for the run that holds it now and for no other.
TokensAreCurrent ==
  /\ \A r \in Passengers : Registered(r) => byRun[r].run = r /\ byToken[byRun[r].pass] = byRun[r]
  /\ \A t \in Passes : byToken[t] # NoRegistration =>
       byToken[t].pass = t /\ byRun[byToken[t].run] = byToken[t]

Decided(c) == calls[c] # NoCall /\ calls[c].step # "refused"
InHand(k) == {c \in Calls : Decided(c) /\ calls[c].step \in {"decided", "logging"} /\ Key(calls[c]) = k}
OnItsWay(k) == {x \in Calls : \E c \in InHand(k) : x \in Carries(c)}

\* Every decision is spoken of once (proxy.go, logDecision): in an activity, in a count that
\* the next one will carry, or by a request that is about to; only a run that has ended takes
\* its counts with it.
EveryDecisionIsTold ==
  \A k \in Keys :
    /\ made[k] = told[k] \cup recent[k].suppressed \cup OnItsWay(k)
    /\ told[k] \cap recent[k].suppressed = {}
    /\ \A c \in InHand(k) :
         /\ Carries(c) \cap (told[k] \cup recent[k].suppressed) = {}
         /\ c \notin calls[c].repeats
         /\ \A d \in InHand(k) \ {c} : Carries(c) \cap Carries(d) = {}

\* Only what was decided is spoken of; a request carries nothing until it is logged.
OnlyDecisionsAreTold ==
  /\ \A k \in Keys : \A c \in made[k] : Decided(c) /\ Key(calls[c]) = k
  /\ \A c \in Calls : Decided(c) /\ calls[c].step = "decided" => calls[c].repeats = {}

\* What is let through is visible while it is: an activity of the run names the host, or is
\* about to.  So it is of every decision that was ever like one that is logged.
Spoken(k) == told[k] # {} \/ \E d \in InHand(k) : calls[d].step = "logging"
TunnelsAreVisible ==
  /\ \A c \in tunnels : Decided(c) /\ calls[c].step = "served"
  /\ \A c \in Calls : Decided(c) /\ calls[c].step # "decided" => Spoken(Key(calls[c]))
  /\ \A k \in Keys : recent[k] # NoRecent => Spoken(k)

EgressTypeOK ==
  /\ byRun \in [Passengers -> Registrations \cup {NoRegistration}]
  /\ byToken \in [Passes -> Registrations \cup {NoRegistration}]
  /\ calls \in [Calls -> Refusals \cup Decisions \cup {NoCall}] /\ tunnels \subseteq Calls
  /\ recent \in [Keys -> [at : Nat \cup {-1}, suppressed : SUBSET Calls]]
  /\ told \in [Keys -> SUBSET Calls] /\ made \in [Keys -> SUBSET Calls] /\ wallClock \in Nat

EgressInv ==
  EgressTypeOK /\ TokensAreCurrent /\ EveryDecisionIsTold /\ OnlyDecisionsAreTold /\ TunnelsAreVisible
==============================================================================
