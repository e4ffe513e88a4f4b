------------------------------ MODULE Accounts ------------------------------
(***************************************************************************)
(* Accounts, invites and sessions (internal/kernel/auth/service.go,        *)
(* middleware.go, http.go; internal/kernel/store/users.go, sessions.go,    *)
(* invites.go): requests that overlap, sessions that slide while they are  *)
(* used, log-outs and revocations between the steps of a request.          *)
(***************************************************************************)
EXTENDS FiniteSets, Naturals

CONSTANTS
  Emails,       \* the accounts that may come to exist
  Invites,
  Clients,      \* requests in flight
  Sessions,     \* 1..n: session ids, in the order they are minted
  TTL,          \* SessionTTL, in ticks; invites live as long here
  MaxNow,
  Nil

ASSUME AccountsAssumption ==
  /\ TTL \in Nat /\ TTL >= 2 /\ MaxNow \in Nat
  /\ Nil \notin Emails \cup Sessions \cup Invites
  /\ IsFiniteSet(Sessions) /\ Sessions = 1..Cardinality(Sessions)

VARIABLES
  role,         \* the users table
  hasUsers,     \* the cache that SetupGate reads
  invite,       \* "none", when it expires, or who redeemed it
  session,      \* the sessions table: whose, and until when
  minted,       \* session ids given out
  call,         \* what each client's request has found out so far
  now,
  ended,        \* history: sessions that were logged out or revoked
  lastUse       \* history: when a request used the session and left its row there

accountVars == <<role, hasUsers, invite, session, minted, call, now, ended, lastUse>>
userVars    == <<role, hasUsers, invite>>
sessionVars == <<session, minted, ended, lastUse>>

NoSession == [user |-> Nil, until |-> 0]
Unsent    == [does |-> "idle", who |-> Nil, at |-> 0]
Users     == {m \in Emails : role[m] # "none"}
Live      == {s \in Sessions : session[s] # NoSession}

UsersTyped ==
  /\ role \in [Emails -> {"none", "owner", "member"}] /\ hasUsers \in BOOLEAN
  /\ invite \in [Invites -> [until : 0..(MaxNow + TTL), by : Emails \cup {Nil}]]
SessionsTyped ==
  /\ session \in [Sessions -> [user : Emails \cup {Nil}, until : 0..(MaxNow + TTL)]]
  /\ minted \in 0..Cardinality(Sessions) /\ now \in 0..MaxNow
  /\ ended \subseteq Sessions /\ lastUse \in [Sessions -> 0..MaxNow]
CallsTyped ==
  call \in [Clients -> {Unsent} \cup [does : {"mint"}, who : Emails, at : 0..MaxNow]
                         \cup [does : {"extend"}, who : Sessions, at : 0..MaxNow]]
AccountsTypeOK == UsersTyped /\ SessionsTyped /\ CallsTyped

AccountsInit ==
  /\ role = [m \in Emails |-> "none"] /\ hasUsers = FALSE
  /\ invite = [i \in Invites |-> [until |-> 0, by |-> Nil]]
  /\ session = [s \in Sessions |-> NoSession] /\ minted = 0
  /\ call = [c \in Clients |-> Unsent]
  /\ now = 0 /\ ended = {} /\ lastUse = [s \in Sessions |-> 0]

------------------------------------------------------------------------------
(* Setup, invites, log-in: all of them end in startSession.                  *)

Will(c, d, w) == call' = [call EXCEPT ![c] = [does |-> d, who |-> w, at |-> now]]
Done(c)       == call' = [call EXCEPT ![c] = Unsent]

\* One transaction counts the users and creates the owner.
Setup(c, m) ==
  /\ call[c] = Unsent /\ Users = {}
  /\ role' = [role EXCEPT ![m] = "owner"] /\ hasUsers' = TRUE
  /\ Will(c, "mint", m)
  /\ UNCHANGED <<invite, sessionVars, now>>

\* SetupDone: the answer is kept once it is yes.
SetupGate ==
  /\ hasUsers' = (Users # {})
  /\ UNCHANGED <<role, invite, sessionVars, call, now>>

CreateInvite(i) ==
  /\ hasUsers /\ invite[i] = [until |-> 0, by |-> Nil]
  /\ \E m \in Emails : role[m] = "owner"
  /\ invite' = [invite EXCEPT ![i].until = now + TTL]
  /\ UNCHANGED <<role, hasUsers, sessionVars, call, now>>

\* One transaction: not redeemed, not expired, an email that is free; then the account, then
\* the mark.
Unredeemed(i) == invite[i].by = Nil /\ now < invite[i].until
Redeem(c, i, m) ==
  /\ call[c] = Unsent /\ hasUsers
  /\ Unredeemed(i) /\ m \notin Users
  /\ role' = [role EXCEPT ![m] = "member"] /\ hasUsers' = TRUE
  /\ invite' = [invite EXCEPT ![i].by = m]
  /\ Will(c, "mint", m)
  /\ UNCHANGED <<sessionVars, now>>

Login(c, m) ==
  /\ call[c] = Unsent /\ hasUsers /\ m \in Users
  /\ Will(c, "mint", m)
  /\ UNCHANGED <<userVars, sessionVars, now>>

\* CreateSession: the row, then a sweep of those that have expired.
CreateSession(c) ==
  /\ call[c].does = "mint" /\ minted < Cardinality(Sessions)
  /\ LET id == minted + 1 IN
       /\ session' = [s \in Sessions |->
            IF s = id THEN [user |-> call[c].who, until |-> now + TTL]
            ELSE IF session[s].until <= now THEN NoSession ELSE session[s]]
       /\ lastUse' = [lastUse EXCEPT ![id] = now]
  /\ minted' = minted + 1
  /\ Done(c)
  /\ UNCHANGED <<userVars, ended, now>>

------------------------------------------------------------------------------
(* Authenticate, in its two statements.                                      *)

HalfwayLate(s) == session[s].until - now < 1
Halfway(s)     == session[s].until - now < TTL \div 2

\* The row is read and is not expired; a session in its second half is to be extended.
Authenticate(c, s) ==
  /\ call[c] = Unsent /\ s \in Live /\ now < session[s].until
  /\ IF Halfway(s) THEN Will(c, "extend", s) /\ UNCHANGED lastUse
     ELSE lastUse' = [lastUse EXCEPT ![s] = now] /\ UNCHANGED call
  /\ UNCHANGED <<userVars, session, minted, ended, now>>

\* An UPDATE: a row that is gone stays gone, and the request goes on.
Extend(c) ==
  /\ call[c].does = "extend"
  /\ session' = [session EXCEPT ![call[c].who] =
       IF @ = NoSession THEN @ ELSE [@ EXCEPT !.until = call[c].at + TTL]]
  /\ lastUse' = [lastUse EXCEPT ![call[c].who] = IF session[call[c].who] # NoSession /\ @ < call[c].at
                                            THEN call[c].at ELSE @]
  /\ Done(c)
  /\ UNCHANGED <<userVars, minted, ended, now>>

Logout(s) ==
  /\ s \in Live
  /\ session' = [session EXCEPT ![s] = NoSession]
  /\ ended' = ended \cup {s}
  /\ UNCHANGED <<userVars, minted, lastUse, call, now>>

\* The owner revokes every session of an account.
RevokeSessions(m) ==
  /\ hasUsers /\ m \in Users
  /\ LET gone == {s \in Live : session[s].user = m} IN
       /\ gone # {}
       /\ session' = [s \in Sessions |-> IF s \in gone THEN NoSession ELSE session[s]]
       /\ ended' = ended \cup gone
  /\ UNCHANGED <<userVars, minted, lastUse, call, now>>

\* A request takes less than half a TTL.
Tick ==
  /\ now < MaxNow
  /\ \A c \in Clients : call[c] # Unsent => now + 1 - call[c].at < TTL \div 2
  /\ now' = now + 1
  /\ UNCHANGED <<userVars, sessionVars, call>>

\* A restart forgets the cache and the requests.
AccountsRestart ==
  /\ hasUsers /\ hasUsers' = FALSE /\ call' = [c \in Clients |-> Unsent]
  /\ UNCHANGED <<role, invite, sessionVars, now>>

------------------------------------------------------------------------------
AccountsNext ==
  \/ \E c \in Clients :
       \/ \E m \in Emails : Setup(c, m) \/ Login(c, m) \/ \E i \in Invites : Redeem(c, i, m)
       \/ \E s \in Sessions : Authenticate(c, s)
       \/ CreateSession(c) \/ Extend(c)
  \/ \E i \in Invites : CreateInvite(i)
  \/ \E s \in Sessions : Logout(s)
  \/ \E m \in Emails : RevokeSessions(m)
  \/ SetupGate \/ Tick \/ AccountsRestart

AccountsSpec == AccountsInit /\ [][AccountsNext]_accountVars

------------------------------------------------------------------------------
\* Setup makes one owner, however many race for it, and every other account is the one that
\* redeemed an invite.
OnlyTheInvited ==
  /\ Cardinality({m \in Emails : role[m] = "owner"}) <= 1
  /\ \A m \in Emails : role[m] = "member" => \E i \in Invites : invite[i].by = m
  /\ hasUsers => Users # {}

\* A session that was logged out or revoked authenticates nothing again, also when a request
\* that had read it before is still to extend it.
EndedStaysEnded == ended \cap Live = {}

\* Sessions slide: one that is used again within half a TTL is still there, whatever order
\* the extensions of overlapping requests are written in, unless somebody ended it.  (One
\* that expires between the two statements of a request may be swept there: the request is
\* served and the next one refused.)
UsedStaysUsable ==
  \A s \in Sessions :
    s \in 1..minted /\ s \notin ended
      => \/ session[s] # NoSession /\ session[s].until >= lastUse[s] + TTL \div 2
         \/ now >= lastUse[s] + TTL \div 2

\* Sessions are minted in order, and what is done with one is done by now, in requests that
\* take less than half a TTL.
SessionsInOrder ==
  /\ ended \cup Live \subseteq 1..minted
  /\ \A s \in Sessions : lastUse[s] <= now
RequestsAreQuick ==
  \A c \in Clients : call[c] # Unsent => call[c].at <= now /\ now - call[c].at < TTL \div 2

AccountsInv ==
  /\ AccountsTypeOK /\ OnlyTheInvited /\ SessionsInOrder /\ RequestsAreQuick
  /\ EndedStaysEnded /\ UsedStaysUsable
==============================================================================
