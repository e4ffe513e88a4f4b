--------------------------- MODULE ServiceProofs ----------------------------
(***************************************************************************)
(* The inductive invariants of the services behind the API: each component *)
(* keeps its own, whatever its requests and in whatever order their steps  *)
(* interleave.  One lemma per action, then the step and the theorem.  At   *)
(* the end the order of what people drag, whose promise is about steps.    *)
(***************************************************************************)
EXTENDS Accounts, Tickets, Secrets, Roster, Approvals, Delivery, Bootstrap, Ordering,
  FiniteSetTheorems, SequenceTheorems, NaturalsInduction, WellFoundedInduction, TLAPS

------------------------------------------------------------------------------
(* Accounts: setup, invites, sessions.                                       *)

\* What the proofs need to know of the times and of half of one.
LEMMA Times ==
  /\ TTL \in Nat /\ MaxNow \in Nat /\ TTL \div 2 \in Nat
  /\ 1 <= TTL \div 2 /\ TTL \div 2 + TTL \div 2 <= TTL
  BY AccountsAssumption

\* Sessions are numbered from 1.
LEMMA SessionNumbers == Cardinality(Sessions) \in Nat /\ Sessions = 1..Cardinality(Sessions)
  BY AccountsAssumption, FS_CardinalityType

\* The first account.
LEMMA SetupKeeps ==
  ASSUME AccountsInv, NEW c \in Clients, NEW m \in Emails, Setup(c, m)
  PROVE  AccountsInv'
  <1> USE DEF AccountsInv, AccountsTypeOK, userVars, sessionVars
  <1>1. UsersTyped'
    BY DEF Setup, Will, UsersTyped
  <1>2. CallsTyped'
    BY Times DEF Setup, Will, Unsent, CallsTyped, SessionsTyped, Live
  <1>3. OnlyTheInvited'
    <2>1. {e \in Emails : role'[e] = "owner"} = {m}
      BY DEF Setup, Users, UsersTyped
    <2>2. Cardinality({m}) = 1
      BY FS_Singleton
    <2>3. Users' # {}
      BY DEF Setup, Users, UsersTyped
    <2> QED
      BY <2>1, <2>2, <2>3 DEF Setup, OnlyTheInvited, Users, UsersTyped
  <1>4. RequestsAreQuick'
    BY Times DEF Setup, Will, RequestsAreQuick, Unsent, SessionsTyped, CallsTyped
  <1>5. SessionsTyped' /\ SessionsInOrder' /\ EndedStaysEnded' /\ UsedStaysUsable'
    BY DEF Setup, Will, SessionsTyped, SessionsInOrder, Live, EndedStaysEnded, UsedStaysUsable
  <1> QED
    BY <1>1, <1>2, <1>3, <1>4, <1>5

\* The gate looks whether there are users.
LEMMA SetupGateKeeps ==
  ASSUME AccountsInv, SetupGate
  PROVE  AccountsInv'
  <1> USE DEF AccountsInv, AccountsTypeOK, userVars, sessionVars
  <1>1. UsersTyped'
    BY DEF SetupGate, UsersTyped
  <1>2. OnlyTheInvited'
    BY DEF SetupGate, Users, OnlyTheInvited
  <1>3. /\ SessionsTyped'
       /\ CallsTyped'
       /\ SessionsInOrder'
       /\ RequestsAreQuick'
       /\ EndedStaysEnded'
       /\ UsedStaysUsable'
    BY DEF SetupGate, SessionsTyped, Unsent, CallsTyped, SessionsInOrder, Live,
       RequestsAreQuick, EndedStaysEnded, UsedStaysUsable
  <1> QED
    BY <1>1, <1>2, <1>3

\* The owner invites somebody.
LEMMA CreateInviteKeeps ==
  ASSUME AccountsInv, NEW i \in Invites, CreateInvite(i)
  PROVE  AccountsInv'
  <1> USE DEF AccountsInv, AccountsTypeOK, userVars, sessionVars
  <1>1. UsersTyped'
    BY Times DEF CreateInvite, UsersTyped, SessionsTyped, Unredeemed
  <1>2. OnlyTheInvited'
    BY DEF CreateInvite, Users, OnlyTheInvited
  <1>3. /\ SessionsTyped'
       /\ CallsTyped'
       /\ SessionsInOrder'
       /\ RequestsAreQuick'
       /\ EndedStaysEnded'
       /\ UsedStaysUsable'
    BY DEF CreateInvite, SessionsTyped, Unsent, CallsTyped, SessionsInOrder, Live,
       RequestsAreQuick, EndedStaysEnded, UsedStaysUsable
  <1> QED
    BY <1>1, <1>2, <1>3

\* An invite is redeemed.
LEMMA RedeemKeeps ==
  ASSUME AccountsInv, NEW c \in Clients, NEW i \in Invites, NEW m \in Emails, Redeem(c, i, m)
  PROVE  AccountsInv'
  <1> USE DEF AccountsInv, AccountsTypeOK, userVars, sessionVars
  <1>1. UsersTyped'
    BY DEF Redeem, Unredeemed, Will, UsersTyped
  <1>2. CallsTyped'
    BY Times DEF Redeem, Unredeemed, Will, Unsent, CallsTyped, SessionsTyped, Live
  <1>3. OnlyTheInvited'
    <2>1. {e \in Emails : role'[e] = "owner"} = {e \in Emails : role[e] = "owner"}
      BY DEF Redeem, Users, UsersTyped
    <2>2. ASSUME NEW e \in Emails, role'[e] = "member"
          PROVE  \E j \in Invites : invite'[j].by = e
      <3>1. CASE e = m
        BY <3>1 DEF Redeem, UsersTyped
      <3>2. CASE e # m
        <4>1. PICK j \in Invites : invite[j].by = e
          BY <2>2, <3>2 DEF Redeem, UsersTyped, OnlyTheInvited
        <4> QED
          BY <4>1, AccountsAssumption DEF Redeem, Unredeemed, UsersTyped
      <3> QED
        BY <3>1, <3>2
    <2>3. Users' # {}
      BY DEF Redeem, Users, UsersTyped
    <2> QED
      BY <2>1, <2>2, <2>3 DEF OnlyTheInvited
  <1>4. RequestsAreQuick'
    BY Times DEF Redeem, Unredeemed, Will, RequestsAreQuick, Unsent, SessionsTyped, CallsTyped
  <1>5. SessionsTyped' /\ SessionsInOrder' /\ EndedStaysEnded' /\ UsedStaysUsable'
    BY DEF Redeem, Unredeemed, Will, SessionsTyped, SessionsInOrder, Live, EndedStaysEnded,
       UsedStaysUsable
  <1> QED
    BY <1>1, <1>2, <1>3, <1>4, <1>5

\* A log-in.
LEMMA LoginKeeps ==
  ASSUME AccountsInv, NEW c \in Clients, NEW m \in Emails, Login(c, m)
  PROVE  AccountsInv'
  <1> USE DEF AccountsInv, AccountsTypeOK, userVars, sessionVars
  <1>1. CallsTyped'
    BY Times DEF Login, Will, Unsent, CallsTyped, SessionsTyped, Live
  <1>2. RequestsAreQuick'
    BY Times DEF Login, Will, RequestsAreQuick, Unsent, SessionsTyped, CallsTyped
  <1>3. /\ UsersTyped'
       /\ SessionsTyped'
       /\ OnlyTheInvited'
       /\ SessionsInOrder'
       /\ EndedStaysEnded'
       /\ UsedStaysUsable'
    BY DEF Login, Will, UsersTyped, SessionsTyped, Users, OnlyTheInvited, SessionsInOrder,
       Live, EndedStaysEnded, UsedStaysUsable
  <1> QED
    BY <1>1, <1>2, <1>3

\* A session is minted, and those that have expired are swept.
LEMMA CreateSessionKeeps ==
  ASSUME AccountsInv, NEW c \in Clients, CreateSession(c)
  PROVE  AccountsInv'
  <1> USE DEF AccountsInv, AccountsTypeOK, userVars, sessionVars
  <1>1. SessionsTyped'
    <2> DEFINE Row == [user : Emails \cup {Nil}, until : 0..(MaxNow + TTL)]
    <2>1. call[c].who \in Emails /\ call[c].does = "mint"
      BY DEF CreateSession, CallsTyped, Unsent
    <2>2. now \in 0..MaxNow /\ now + TTL \in 0..(MaxNow + TTL) /\ 0 \in 0..(MaxNow + TTL)
      BY Times DEF SessionsTyped
    <2>3. [user |-> call[c].who, until |-> now + TTL] \in Row /\ NoSession \in Row
      BY <2>1, <2>2 DEF NoSession
    <2>4. session \in [Sessions -> Row]
      BY DEF SessionsTyped
    <2>5. minted + 1 \in 0..Cardinality(Sessions)
      BY SessionNumbers DEF CreateSession, SessionsTyped
    <2> HIDE DEF Row
    <2>6. session' \in [Sessions -> Row]
      BY <2>3, <2>4 DEF CreateSession
    <2>7. lastUse' \in [Sessions -> 0..MaxNow]
      BY <2>2 DEF CreateSession, SessionsTyped
    <2> QED
      BY <2>5, <2>6, <2>7 DEF CreateSession, SessionsTyped, Row
  <1>2. CallsTyped'
    BY DEF CreateSession, Done, Unsent, CallsTyped
  <1>3. SessionsInOrder'
    BY DEF CreateSession, Done, SessionsInOrder, Live, SessionsTyped
  <1>4. RequestsAreQuick'
    BY DEF CreateSession, Done, RequestsAreQuick, Unsent
  <1>5. EndedStaysEnded'
    BY DEF CreateSession, Done, EndedStaysEnded, Live, SessionsInOrder, SessionsTyped,
       NoSession
  <1>6. UsedStaysUsable'
    BY Times DEF CreateSession, Done, UsedStaysUsable, SessionsTyped, CallsTyped, NoSession,
       Live, Unsent, Halfway
  <1>7. UsersTyped' /\ OnlyTheInvited'
    BY DEF CreateSession, Done, UsersTyped, Users, OnlyTheInvited
  <1> QED
    BY <1>1, <1>2, <1>3, <1>4, <1>5, <1>6, <1>7

\* A request presents its session.
LEMMA AuthenticateKeeps ==
  ASSUME AccountsInv, NEW c \in Clients, NEW s \in Sessions, Authenticate(c, s)
  PROVE  AccountsInv'
  <1> USE DEF AccountsInv, AccountsTypeOK, userVars, sessionVars
  <1>1. SessionsTyped'
    BY DEF Authenticate, Will, Halfway, SessionsTyped
  <1>2. CallsTyped'
    BY Times DEF Authenticate, Will, Halfway, Unsent, CallsTyped, SessionsTyped, Live
  <1>3. SessionsInOrder'
    BY DEF Authenticate, Will, Halfway, SessionsInOrder, Live, SessionsTyped
  <1>4. RequestsAreQuick'
    BY Times DEF Authenticate, Will, Halfway, RequestsAreQuick, Unsent, SessionsTyped,
       CallsTyped
  <1>5. UsedStaysUsable'
    BY Times DEF Authenticate, Will, Halfway, UsedStaysUsable, SessionsTyped, CallsTyped,
       NoSession, Live, Unsent
  <1>6. UsersTyped' /\ OnlyTheInvited' /\ EndedStaysEnded'
    BY DEF Authenticate, Will, Halfway, UsersTyped, Users, OnlyTheInvited, EndedStaysEnded,
       Live
  <1> QED
    BY <1>1, <1>2, <1>3, <1>4, <1>5, <1>6

\* And has it extended.
LEMMA ExtendKeeps ==
  ASSUME AccountsInv, NEW c \in Clients, Extend(c)
  PROVE  AccountsInv'
  <1> USE DEF AccountsInv, AccountsTypeOK, userVars, sessionVars
  <1>1. SessionsTyped'
    BY Times DEF Extend, Done, SessionsTyped, CallsTyped, NoSession, Unsent
  <1>2. CallsTyped'
    BY DEF Extend, Done, Unsent, CallsTyped
  <1>3. SessionsInOrder'
    <2>1. /\ call[c] # Unsent /\ call[c].who \in Sessions /\ call[c].at \in Nat /\ call[c].at <= now
          /\ UNCHANGED <<minted, ended, now>>
      BY Times DEF Extend, SessionsTyped, CallsTyped, Unsent, RequestsAreQuick
    <2>2. Live' \subseteq Live
      BY <2>1 DEF Extend, Live, SessionsTyped
    <2>3. \A s \in Sessions : lastUse'[s] \in {lastUse[s], call[c].at}
      BY <2>1 DEF Extend, SessionsTyped
    <2> QED
      BY <2>1, <2>2, <2>3, SessionNumbers DEF SessionsInOrder
  <1>4. RequestsAreQuick'
    BY DEF Extend, Done, RequestsAreQuick, Unsent
  <1>5. EndedStaysEnded'
    BY DEF Extend, Done, EndedStaysEnded, Live
  <1>6. UsedStaysUsable'
    <2> SUFFICES ASSUME NEW s \in Sessions, s \in 1..minted, s \notin ended
                 PROVE  \/ session'[s] # NoSession /\ session'[s].until >= lastUse'[s] + TTL \div 2
                        \/ now >= lastUse'[s] + TTL \div 2
      BY DEF Extend, UsedStaysUsable
    <2>1. CASE s = call[c].who /\ session[s] # NoSession
      <3>1. /\ call[c].at \in Nat /\ call[c].at <= now /\ now - call[c].at < TTL \div 2
            /\ lastUse[s] \in Nat /\ lastUse[s] <= now /\ now \in Nat
        BY DEF Extend, CallsTyped, Unsent, RequestsAreQuick, SessionsInOrder, SessionsTyped
      <3>2. session'[s] = [session[s] EXCEPT !.until = call[c].at + TTL]
        BY <2>1 DEF Extend, SessionsTyped
      <3>3. session'[s].until = call[c].at + TTL /\ call[c].at + TTL # 0
        BY <3>1, <3>2, Times DEF SessionsTyped
      <3>4. lastUse'[s] \in {lastUse[s], call[c].at}
        BY <2>1 DEF Extend, SessionsTyped
      <3> QED
        BY <3>1, <3>3, <3>4, Times DEF NoSession
    <2>2. CASE ~(s = call[c].who /\ session[s] # NoSession)
      BY <2>2 DEF Extend, SessionsTyped, UsedStaysUsable, NoSession
    <2> QED
      BY <2>1, <2>2
  <1>7. UsersTyped' /\ OnlyTheInvited'
    BY DEF Extend, Done, UsersTyped, Users, OnlyTheInvited
  <1> QED
    BY <1>1, <1>2, <1>3, <1>4, <1>5, <1>6, <1>7

\* A log-out.
LEMMA LogoutKeeps ==
  ASSUME AccountsInv, NEW s \in Sessions, Logout(s)
  PROVE  AccountsInv'
  <1> USE DEF AccountsInv, AccountsTypeOK, userVars, sessionVars
  <1>1. SessionsTyped'
    BY Times DEF Logout, SessionsTyped, Live, NoSession
  <1>2. SessionsInOrder'
    BY DEF Logout, SessionsInOrder, Live
  <1>3. EndedStaysEnded'
    BY DEF Logout, EndedStaysEnded, Live, SessionsTyped
  <1>4. UsedStaysUsable'
    BY DEF Logout, UsedStaysUsable
  <1>5. UsersTyped' /\ CallsTyped' /\ OnlyTheInvited' /\ RequestsAreQuick'
    BY DEF Logout, UsersTyped, Unsent, CallsTyped, Users, OnlyTheInvited, RequestsAreQuick
  <1> QED
    BY <1>1, <1>2, <1>3, <1>4, <1>5

\* An account's sessions are revoked.
LEMMA RevokeKeeps ==
  ASSUME AccountsInv, NEW m \in Emails, RevokeSessions(m)
  PROVE  AccountsInv'
  <1> USE DEF AccountsInv, AccountsTypeOK, userVars, sessionVars
  <1>1. SessionsTyped'
    BY Times DEF RevokeSessions, SessionsTyped, Live, NoSession
  <1>2. SessionsInOrder'
    BY DEF RevokeSessions, SessionsInOrder, Live
  <1>3. EndedStaysEnded'
    BY DEF RevokeSessions, EndedStaysEnded, Live
  <1>4. UsedStaysUsable'
    BY DEF RevokeSessions, UsedStaysUsable
  <1>5. UsersTyped' /\ CallsTyped' /\ OnlyTheInvited' /\ RequestsAreQuick'
    BY DEF RevokeSessions, UsersTyped, Unsent, CallsTyped, Users, OnlyTheInvited,
       RequestsAreQuick
  <1> QED
    BY <1>1, <1>2, <1>3, <1>4, <1>5

\* Time passes, and no request is slow.
LEMMA TickKeeps ==
  ASSUME AccountsInv, Tick
  PROVE  AccountsInv'
  <1> USE DEF AccountsInv, AccountsTypeOK, userVars, sessionVars
  <1>1. SessionsTyped'
    BY Times DEF Tick, SessionsTyped
  <1>2. SessionsInOrder'
    BY DEF Tick, SessionsInOrder, Live, SessionsTyped
  <1>3. RequestsAreQuick'
    BY Times DEF Tick, RequestsAreQuick, Unsent, SessionsTyped, CallsTyped
  <1>4. UsedStaysUsable'
    BY Times DEF Tick, UsedStaysUsable, SessionsTyped, CallsTyped, NoSession, Live, Unsent,
       Halfway
  <1>5. UsersTyped' /\ CallsTyped' /\ OnlyTheInvited' /\ EndedStaysEnded'
    BY DEF Tick, UsersTyped, Unsent, CallsTyped, Users, OnlyTheInvited, EndedStaysEnded, Live
  <1> QED
    BY <1>1, <1>2, <1>3, <1>4, <1>5

\* A restart.
LEMMA RestartKeeps ==
  ASSUME AccountsInv, AccountsRestart
  PROVE  AccountsInv'
  <1> USE DEF AccountsInv, AccountsTypeOK, userVars, sessionVars
  <1>1. UsersTyped'
    BY DEF AccountsRestart, UsersTyped
  <1>2. CallsTyped'
    BY DEF AccountsRestart, Unsent, CallsTyped
  <1>3. OnlyTheInvited'
    BY DEF AccountsRestart, Users, OnlyTheInvited
  <1>4. RequestsAreQuick'
    BY DEF AccountsRestart, RequestsAreQuick, Unsent
  <1>5. SessionsTyped' /\ SessionsInOrder' /\ EndedStaysEnded' /\ UsedStaysUsable'
    BY DEF AccountsRestart, SessionsTyped, SessionsInOrder, Live, EndedStaysEnded,
       UsedStaysUsable
  <1> QED
    BY <1>1, <1>2, <1>3, <1>4, <1>5

\* Nobody has an account, and there is no session.
LEMMA AccountsStart == AccountsInit => AccountsInv
  <1> SUFFICES ASSUME AccountsInit
               PROVE  AccountsInv
    OBVIOUS
  <1>1. AccountsTypeOK
    <2>1. MaxNow + TTL \in Nat /\ 0 \in 0..(MaxNow + TTL) /\ 0 \in 0..MaxNow
          /\ 0 \in 0..Cardinality(Sessions)
      BY Times, SessionNumbers
    <2>2. UsersTyped
      BY <2>1 DEF AccountsInit, UsersTyped
    <2>3. SessionsTyped
      BY <2>1 DEF AccountsInit, SessionsTyped, NoSession
    <2>4. CallsTyped
      BY DEF AccountsInit, CallsTyped
    <2> QED
      BY <2>2, <2>3, <2>4 DEF AccountsTypeOK
  <1>2. OnlyTheInvited
    <2>1. {m \in Emails : role[m] = "owner"} = {}
      BY DEF AccountsInit
    <2>2. Cardinality({m \in Emails : role[m] = "owner"}) = 0
      BY <2>1, FS_EmptySet
    <2>3. \A m \in Emails : role[m] # "member"
      BY DEF AccountsInit
    <2> QED
      BY <2>2, <2>3 DEF AccountsInit, OnlyTheInvited
  <1>3. Live = {}
    BY DEF AccountsInit, Live
  <1>4. SessionsInOrder
    BY <1>3 DEF AccountsInit, SessionsInOrder
  <1>5. RequestsAreQuick /\ EndedStaysEnded
    BY DEF AccountsInit, RequestsAreQuick, EndedStaysEnded
  <1>6. UsedStaysUsable
    <2>1. 1..0 = {}
      OBVIOUS
    <2> QED
      BY <2>1 DEF AccountsInit, UsedStaysUsable
  <1> QED
    BY <1>1, <1>2, <1>4, <1>5, <1>6 DEF AccountsInv

\* Every request, log-out, revocation, tick and restart keeps the invariant.
LEMMA AccountsStep == AccountsInv /\ [AccountsNext]_accountVars => AccountsInv'
  <1> SUFFICES ASSUME AccountsInv, [AccountsNext]_accountVars
               PROVE  AccountsInv'
    OBVIOUS
  <1>1. CASE AccountsNext
    BY <1>1, SetupKeeps, SetupGateKeeps, CreateInviteKeeps, RedeemKeeps, LoginKeeps,
       CreateSessionKeeps, AuthenticateKeeps, ExtendKeeps, LogoutKeeps, RevokeKeeps, TickKeeps,
       RestartKeeps DEF AccountsNext
  <1>2. CASE UNCHANGED accountVars
    BY <1>2 DEF accountVars, userVars, sessionVars, AccountsInv, AccountsTypeOK, UsersTyped,
       SessionsTyped, CallsTyped, OnlyTheInvited, Users, SessionsInOrder, Live,
       RequestsAreQuick, EndedStaysEnded, UsedStaysUsable
  <1> QED
    BY <1>1, <1>2

\* One owner and otherwise only invited members; a session that was ended authenticates nothing
\* again and one that is used within half its lifetime is still there, however requests, their
\* extensions, log-outs, revocations and restarts interleave, for any numbers of accounts,
\* invites and sessions and any lifetime (createOwner, redeem, Authenticate, extend).
THEOREM AccountsInvariant == AccountsSpec => []AccountsInv
  <1> QED
    BY AccountsStart, AccountsStep, PTL DEF AccountsSpec

------------------------------------------------------------------------------
(* Tickets: rows of tickets and columns.                                     *)

\* A ticket gets a parent, or none.
LEMMA ReparentKeeps ==
  ASSUME BoardConsistent, NEW t \in Slots, NEW p \in Slots \cup {None}, Reparent(t, p)
  PROVE  BoardConsistent'
  <1> USE DEF BoardConsistent, TicketsTypeOK
  <1>1. BoardTyped'
    BY DEF Reparent, Begin, OnlyTickets, ParentOK, BoardTyped, Exists, TicketRows
  <1>2. TicketsKeepColumns'
    BY DEF Reparent, Begin, OnlyTickets, ParentOK, TicketsKeepColumns, Exists, Standing
  <1>3. PlacedExist'
    BY TicketConstants DEF Reparent, Begin, OnlyTickets, ParentOK, PlacedExist, Exists, Idle,
       JobsTyped, BoardTyped, TicketRows
  <1>4. JobsTyped' /\ BoardKeepsCategories'
    BY DEF Reparent, Begin, OnlyTickets, ParentOK, JobsTyped, BoardKeepsCategories, ByCategory
  <1> QED
    BY <1>1, <1>2, <1>3, <1>4

\* Or a delegate.
LEMMA SetDelegateKeeps ==
  ASSUME BoardConsistent, NEW t \in Slots, NEW a \in Delegates \cup {None}, SetDelegate(t, a)
  PROVE  BoardConsistent'
  <1> USE DEF BoardConsistent, TicketsTypeOK
  <1>1. BoardTyped'
    BY DEF SetDelegate, Begin, OnlyTickets, BoardTyped, Exists, TicketRows
  <1>2. TicketsKeepColumns'
    BY DEF SetDelegate, Begin, OnlyTickets, TicketsKeepColumns, Exists, Standing
  <1>3. PlacedExist'
    BY TicketConstants DEF SetDelegate, Begin, OnlyTickets, PlacedExist, Exists, Idle,
       JobsTyped, BoardTyped, TicketRows
  <1>4. JobsTyped' /\ BoardKeepsCategories'
    BY DEF SetDelegate, Begin, OnlyTickets, JobsTyped, BoardKeepsCategories, ByCategory
  <1> QED
    BY <1>1, <1>2, <1>3, <1>4

\* It is moved, and its delegate perhaps started.
LEMMA MoveKeeps ==
  ASSUME BoardConsistent, NEW w \in Workers, NEW t \in Slots, NEW c \in Boards, Move(w, t, c)
  PROVE  BoardConsistent'
  <1> USE DEF BoardConsistent, TicketsTypeOK
  <1>1. BoardTyped'
    BY DEF Move, Begin, AutoStart, OnlyTickets, BoardTyped, Exists, TicketRows
  <1>2. JobsTyped'
    BY DEF Move, Begin, AutoStart, OnlyTickets, JobsTyped, Idle, BoardTyped, Exists, TicketRows
  <1>3. TicketsKeepColumns'
    BY DEF Move, Begin, AutoStart, OnlyTickets, TicketsKeepColumns, Exists, Standing
  <1>4. PlacedExist'
    BY TicketConstants DEF Move, Begin, AutoStart, OnlyTickets, PlacedExist, Exists, Idle,
       JobsTyped, BoardTyped, TicketRows
  <1>5. BoardKeepsCategories'
    BY DEF Move, Begin, AutoStart, OnlyTickets, BoardKeepsCategories, ByCategory
  <1> QED
    BY <1>1, <1>2, <1>3, <1>4, <1>5

\* A column is added.
LEMMA AddColumnKeeps ==
  ASSUME BoardConsistent, NEW c \in Boards, NEW k \in Kinds, AddColumn(c, k)
  PROVE  BoardConsistent'
  <1> USE DEF BoardConsistent, TicketsTypeOK
  <1>1. BoardTyped'
    BY DEF AddColumn, Begin, BoardTyped
  <1>2. BoardKeepsCategories'
    <2> SUFFICES ASSUME NEW k1 \in Required
                 PROVE  \E d \in Boards : kind'[d] = k1
      BY DEF BoardKeepsCategories, ByCategory
    <2>1. PICK d \in Boards : kind[d] = k1
      BY DEF BoardKeepsCategories, ByCategory
    <2>2. d # c
      BY <2>1, TicketConstants DEF AddColumn
    <2> QED
      BY <2>1, <2>2 DEF AddColumn, BoardTyped
  <1>3. TicketsKeepColumns'
    BY DEF AddColumn, Begin, TicketsKeepColumns, Exists, Standing
  <1>4. JobsTyped' /\ PlacedExist'
    BY DEF AddColumn, Begin, JobsTyped, PlacedExist, Exists
  <1> QED
    BY <1>1, <1>2, <1>3, <1>4

\* A column changes its category, unless it is the last of a required one.
LEMMA UpdateCategoryKeeps ==
  ASSUME BoardConsistent, NEW c \in Boards, NEW k \in Kinds, UpdateCategory(c, k)
  PROVE  BoardConsistent'
  <1> USE DEF BoardConsistent, TicketsTypeOK
  <1>1. BoardTyped'
    BY DEF UpdateCategory, Begin, BoardTyped
  <1>2. BoardKeepsCategories'
    <2> SUFFICES ASSUME NEW k1 \in Required
                 PROVE  \E d \in Boards : kind'[d] = k1
      BY DEF BoardKeepsCategories, ByCategory
    <2>1. PICK d \in Boards : kind[d] = k1
      BY DEF BoardKeepsCategories, ByCategory
    <2>2. CASE d # c
      BY <2>1, <2>2 DEF UpdateCategory, BoardTyped
    <2>3. CASE d = c
      <3>1. Cardinality(ByCategory(k1)) > 1
        BY <2>1, <2>3 DEF UpdateCategory, RequireCategorySurvives
      <3>2. Cardinality({c}) = 1
        BY FS_Singleton
      <3>3. PICK e \in ByCategory(k1) : e # c
        BY <2>1, <2>3, <3>1, <3>2 DEF ByCategory
      <3> QED
        BY <3>3 DEF ByCategory, UpdateCategory, BoardTyped
    <2> QED
      BY <2>2, <2>3
  <1>3. TicketsKeepColumns'
    BY TicketConstants DEF UpdateCategory, Begin, TicketsKeepColumns, Exists, Standing,
       BoardTyped, TicketRows
  <1>4. JobsTyped' /\ PlacedExist'
    BY DEF UpdateCategory, Begin, JobsTyped, PlacedExist, Exists
  <1> QED
    BY <1>1, <1>2, <1>3, <1>4

\* A column's automation is switched.
LEMMA ToggleAutoStartKeeps ==
  ASSUME BoardConsistent, NEW c \in Boards, ToggleAutoStart(c)
  PROVE  BoardConsistent'
  <1> USE DEF BoardConsistent, TicketsTypeOK
  <1>1. BoardTyped'
    BY DEF ToggleAutoStart, Begin, BoardTyped
  <1>2. JobsTyped' /\ BoardKeepsCategories' /\ TicketsKeepColumns' /\ PlacedExist'
    BY DEF ToggleAutoStart, Begin, JobsTyped, BoardKeepsCategories, ByCategory,
       TicketsKeepColumns, Exists, Standing, PlacedExist
  <1> QED
    BY <1>1, <1>2

\* A column is deleted, its tickets going to another.
LEMMA DropColumnKeeps ==
  ASSUME BoardConsistent, NEW c \in Boards, NEW d \in Boards, DropColumn(c, d)
  PROVE  BoardConsistent'
  <1> USE DEF BoardConsistent, TicketsTypeOK
  <1>1. BoardTyped'
    BY DEF DropColumn, Begin, BoardTyped, Exists, TicketRows
  <1>2. BoardKeepsCategories'
    <2> SUFFICES ASSUME NEW k1 \in Required
                 PROVE  \E b \in Boards : kind'[b] = k1
      BY DEF BoardKeepsCategories, ByCategory
    <2>1. PICK b \in Boards : kind[b] = k1
      BY DEF BoardKeepsCategories, ByCategory
    <2>2. CASE b # c
      BY <2>1, <2>2 DEF DropColumn, BoardTyped
    <2>3. CASE b = c
      <3>1. Cardinality(ByCategory(k1)) > 1
        BY <2>1, <2>3 DEF DropColumn, RequireCategorySurvives
      <3>2. Cardinality({c}) = 1
        BY FS_Singleton
      <3>3. PICK e \in ByCategory(k1) : e # c
        BY <2>1, <2>3, <3>1, <3>2 DEF ByCategory
      <3> QED
        BY <3>3 DEF ByCategory, DropColumn, BoardTyped
    <2> QED
      BY <2>2, <2>3
  <1>3. TicketsKeepColumns'
    BY DEF DropColumn, Begin, TicketsKeepColumns, Exists, Standing
  <1>4. PlacedExist'
    BY TicketConstants DEF DropColumn, Begin, PlacedExist, Exists, Idle, JobsTyped, BoardTyped,
       TicketRows
  <1>5. JobsTyped'
    BY DEF DropColumn, Begin, JobsTyped
  <1> QED
    BY <1>1, <1>2, <1>3, <1>4, <1>5

\* A ticket is to be inserted.
LEMMA CreateReadKeeps ==
  ASSUME BoardConsistent, NEW w \in Workers, NEW t \in Slots, NEW c \in Boards, NEW p \in Slots \cup {None}, CreateRead(w, t, c, p)
  PROVE  BoardConsistent'
  <1> USE DEF BoardConsistent, TicketsTypeOK
  <1>1. JobsTyped'
    BY DEF CreateRead, Begin, OnlyTickets, ParentOK, JobsTyped, Idle, BoardTyped, Exists,
       TicketRows
  <1>2. PlacedExist'
    BY DEF CreateRead, Begin, OnlyTickets, ParentOK, PlacedExist, Exists
  <1>3. BoardTyped' /\ BoardKeepsCategories' /\ TicketsKeepColumns'
    BY DEF CreateRead, Begin, OnlyTickets, ParentOK, BoardTyped, BoardKeepsCategories,
       ByCategory, TicketsKeepColumns, Exists, Standing
  <1> QED
    BY <1>1, <1>2, <1>3

\* And is.
LEMMA InsertKeeps ==
  ASSUME BoardConsistent, NEW w \in Workers, Insert(w)
  PROVE  BoardConsistent'
  <1> USE DEF BoardConsistent, TicketsTypeOK
  <1>1. BoardTyped'
    BY DEF Insert, Write, JobDone, OnlyTickets, BoardTyped, JobsTyped, Exists, Idle
  <1>2. JobsTyped'
    BY DEF Insert, Write, JobDone, OnlyTickets, JobsTyped
  <1>3. TicketsKeepColumns'
    BY DEF Insert, Write, JobDone, OnlyTickets, TicketsKeepColumns, Exists, Standing
  <1>4. PlacedExist'
    BY TicketConstants DEF Insert, Write, JobDone, OnlyTickets, PlacedExist, Exists, Idle,
       JobsTyped, BoardTyped, TicketRows
  <1>5. BoardKeepsCategories'
    BY DEF Insert, Write, JobDone, OnlyTickets, BoardKeepsCategories, ByCategory
  <1> QED
    BY <1>1, <1>2, <1>3, <1>4, <1>5

\* A ticket is to be archived.
LEMMA ArchiveReadKeeps ==
  ASSUME BoardConsistent, NEW w \in Workers, NEW t \in Slots, ArchiveRead(w, t)
  PROVE  BoardConsistent'
  <1> USE DEF BoardConsistent, TicketsTypeOK
  <1>1. JobsTyped'
    <2>1. ticketRow[t] \in TicketRows
      <3>1. t \in Exists
        BY DEF ArchiveRead
      <3>2. ticketRow[t] \in TicketRows \cup {None} /\ ticketRow[t] # None
        BY <3>1 DEF BoardTyped, Exists
      <3> QED
        BY <3>2
    <2>2. [ticketRow[t] EXCEPT !.archived = TRUE] \in TicketRows
      BY <2>1 DEF TicketRows
    <2>3. [at |-> "cancel", ticket |-> t, to |-> None, row |-> [ticketRow[t] EXCEPT !.archived = TRUE]]
            \in [at : {"insert", "cancel", "restore"}, ticket : Slots, row : TicketRows, to : {None}]
      BY <2>2
    <2> QED
      BY <2>3 DEF ArchiveRead, JobsTyped
  <1>2. PlacedExist'
    BY DEF ArchiveRead, Begin, OnlyTickets, PlacedExist, Exists
  <1>3. BoardTyped' /\ BoardKeepsCategories' /\ TicketsKeepColumns'
    BY DEF ArchiveRead, Begin, OnlyTickets, BoardTyped, BoardKeepsCategories, ByCategory,
       TicketsKeepColumns, Exists, Standing
  <1> QED
    BY <1>1, <1>2, <1>3

\* Its runs are cancelled first.
LEMMA CancelTicketRunsKeeps ==
  ASSUME BoardConsistent, NEW w \in Workers, CancelTicketRuns(w)
  PROVE  BoardConsistent'
  <1> USE DEF BoardConsistent, TicketsTypeOK
  <1>1. BoardTyped'
    BY DEF CancelTicketRuns, Goto, BoardTyped
  <1>2. JobsTyped'
    BY DEF CancelTicketRuns, Goto, JobsTyped, Idle
  <1>3. PlacedExist'
    BY DEF CancelTicketRuns, Goto, PlacedExist, Exists
  <1>4. BoardKeepsCategories' /\ TicketsKeepColumns'
    BY DEF CancelTicketRuns, Goto, BoardKeepsCategories, ByCategory, TicketsKeepColumns,
       Exists, Standing
  <1> QED
    BY <1>1, <1>2, <1>3, <1>4

\* Or to be restored.
LEMMA UnarchiveReadKeeps ==
  ASSUME BoardConsistent, NEW w \in Workers, NEW t \in Slots, UnarchiveRead(w, t)
  PROVE  BoardConsistent'
  <1> USE DEF BoardConsistent, TicketsTypeOK
  <1>1. JobsTyped'
    <2>1. ticketRow[t] \in TicketRows
      <3>1. t \in Exists
        BY DEF UnarchiveRead
      <3>2. ticketRow[t] \in TicketRows \cup {None} /\ ticketRow[t] # None
        BY <3>1 DEF BoardTyped, Exists
      <3> QED
        BY <3>2
    <2>2. [ticketRow[t] EXCEPT !.archived = FALSE] \in TicketRows
      BY <2>1 DEF TicketRows
    <2>3. [at |-> "restore", ticket |-> t, to |-> None, row |-> [ticketRow[t] EXCEPT !.archived = FALSE]]
            \in [at : {"insert", "cancel", "restore"}, ticket : Slots, row : TicketRows, to : {None}]
      BY <2>2
    <2> QED
      BY <2>3 DEF UnarchiveRead, JobsTyped
  <1>2. PlacedExist'
    BY DEF UnarchiveRead, Begin, OnlyTickets, PlacedExist, Exists
  <1>3. BoardTyped' /\ BoardKeepsCategories' /\ TicketsKeepColumns'
    BY DEF UnarchiveRead, Begin, OnlyTickets, BoardTyped, BoardKeepsCategories, ByCategory,
       TicketsKeepColumns, Exists, Standing
  <1> QED
    BY <1>1, <1>2, <1>3

\* Or delegated.
LEMMA DelegateReadKeeps ==
  ASSUME BoardConsistent, NEW w \in Workers, NEW t \in Slots, NEW a \in Delegates, DelegateRead(w, t, a)
  PROVE  BoardConsistent'
  <1> USE DEF BoardConsistent, TicketsTypeOK
  <1>1. JobsTyped'
    BY DEF DelegateRead, Begin, OnlyTickets, JobsTyped, Idle, BoardTyped, Exists, TicketRows
  <1>2. PlacedExist'
    BY DEF DelegateRead, Begin, OnlyTickets, PlacedExist, Exists
  <1>3. BoardTyped' /\ BoardKeepsCategories' /\ TicketsKeepColumns'
    BY DEF DelegateRead, Begin, OnlyTickets, BoardTyped, BoardKeepsCategories, ByCategory,
       TicketsKeepColumns, Exists, Standing
  <1> QED
    BY <1>1, <1>2, <1>3

\* The whole row is written.
LEMMA SaveKeeps ==
  ASSUME BoardConsistent, NEW w \in Workers, Save(w)
  PROVE  BoardConsistent'
  <1> USE DEF BoardConsistent, TicketsTypeOK
  <1>1. BoardTyped'
    BY DEF Save, Write, Goto, JobDone, OnlyTickets, BoardTyped, JobsTyped, Exists, Idle
  <1>2. JobsTyped'
    BY DEF Save, Write, Goto, JobDone, OnlyTickets, JobsTyped, Idle
  <1>3. TicketsKeepColumns'
    BY DEF Save, Write, Goto, JobDone, OnlyTickets, TicketsKeepColumns, Exists, Standing
  <1>4. PlacedExist'
    BY TicketConstants DEF Save, Write, Goto, JobDone, OnlyTickets, PlacedExist, Exists, Idle,
       JobsTyped, BoardTyped, TicketRows
  <1>5. BoardKeepsCategories'
    BY DEF Save, Write, Goto, JobDone, OnlyTickets, BoardKeepsCategories, ByCategory
  <1> QED
    BY <1>1, <1>2, <1>3, <1>4, <1>5

\* An agent is mentioned.
LEMMA CommentKeeps ==
  ASSUME BoardConsistent, NEW w \in Workers, NEW t \in Slots, NEW a \in Delegates, Comment(w, t, a)
  PROVE  BoardConsistent'
  <1> USE DEF BoardConsistent, TicketsTypeOK
  <1>1. JobsTyped'
    BY DEF Comment, Begin, OnlyTickets, JobsTyped, Idle, BoardTyped, Exists
  <1>2. PlacedExist'
    BY DEF Comment, Begin, OnlyTickets, PlacedExist, Exists
  <1>3. BoardTyped' /\ BoardKeepsCategories' /\ TicketsKeepColumns'
    BY DEF Comment, Begin, OnlyTickets, BoardTyped, BoardKeepsCategories, ByCategory,
       TicketsKeepColumns, Exists, Standing
  <1> QED
    BY <1>1, <1>2, <1>3

\* Its run is requested.
LEMMA RequestRunKeeps ==
  ASSUME BoardConsistent, NEW w \in Workers, RequestRun(w)
  PROVE  BoardConsistent'
  <1> USE DEF BoardConsistent, TicketsTypeOK
  <1>1. BoardTyped'
    BY DEF RequestRun, JobDone, BoardTyped, JobsTyped, Exists, Idle
  <1>2. JobsTyped'
    BY DEF RequestRun, JobDone, JobsTyped
  <1>3. PlacedExist'
    BY DEF RequestRun, JobDone, PlacedExist, Exists, Idle
  <1>4. BoardKeepsCategories' /\ TicketsKeepColumns'
    BY DEF RequestRun, JobDone, BoardKeepsCategories, ByCategory, TicketsKeepColumns, Exists,
       Standing
  <1> QED
    BY <1>1, <1>2, <1>3, <1>4

\* Automation is to move a ticket.
LEMMA MoveToCategoryReadKeeps ==
  ASSUME BoardConsistent, NEW w \in Workers, NEW t \in Slots, NEW k \in Kinds, NEW c \in Boards, MoveToCategoryRead(w, t, k, c)
  PROVE  BoardConsistent'
  <1> USE DEF BoardConsistent, TicketsTypeOK
  <1>1. JobsTyped'
    BY DEF MoveToCategoryRead, Begin, OnlyTickets, JobsTyped, Idle, BoardTyped, Exists
  <1>2. PlacedExist'
    BY DEF MoveToCategoryRead, Begin, OnlyTickets, PlacedExist, Exists
  <1>3. BoardTyped' /\ BoardKeepsCategories' /\ TicketsKeepColumns'
    BY DEF MoveToCategoryRead, Begin, OnlyTickets, BoardTyped, BoardKeepsCategories,
       ByCategory, TicketsKeepColumns, Exists, Standing
  <1> QED
    BY <1>1, <1>2, <1>3

\* And does, if the column is still there.
LEMMA MoveToCategoryWriteKeeps ==
  ASSUME BoardConsistent, NEW w \in Workers, MoveToCategoryWrite(w)
  PROVE  BoardConsistent'
  <1> USE DEF BoardConsistent, TicketsTypeOK
  <1>1. BoardTyped'
    BY DEF MoveToCategoryWrite, JobDone, OnlyTickets, BoardTyped, JobsTyped, Exists,
       TicketRows, PlacedExist, Idle
  <1>2. JobsTyped'
    BY DEF MoveToCategoryWrite, JobDone, OnlyTickets, JobsTyped, Idle, BoardTyped, Exists,
       TicketRows
  <1>3. TicketsKeepColumns'
    BY TicketConstants DEF MoveToCategoryWrite, JobDone, OnlyTickets, TicketsKeepColumns,
       Exists, Standing, BoardTyped, JobsTyped, TicketRows, PlacedExist, Idle
  <1>4. PlacedExist'
    BY TicketConstants DEF MoveToCategoryWrite, JobDone, OnlyTickets, PlacedExist, Exists,
       Idle, JobsTyped, BoardTyped, TicketRows
  <1>5. BoardKeepsCategories'
    BY DEF MoveToCategoryWrite, JobDone, OnlyTickets, BoardKeepsCategories, ByCategory
  <1> QED
    BY <1>1, <1>2, <1>3, <1>4, <1>5

\* A run ends.
LEMMA RunOverKeeps ==
  ASSUME BoardConsistent, NEW r \in live, RunOver(r)
  PROVE  BoardConsistent'
  <1> USE DEF BoardConsistent, TicketsTypeOK
  <1>1. BoardTyped'
    BY DEF RunOver, BoardTyped
  <1>2. JobsTyped' /\ BoardKeepsCategories' /\ TicketsKeepColumns' /\ PlacedExist'
    BY DEF RunOver, JobsTyped, BoardKeepsCategories, ByCategory, TicketsKeepColumns, Exists,
       Standing, PlacedExist
  <1> QED
    BY <1>1, <1>2

\* The board as it is set up, with one ticket.
LEMMA TicketsStart == TicketsInit => BoardConsistent
  <1> SUFFICES ASSUME TicketsInit
               PROVE  BoardConsistent
    OBVIOUS
  <1> DEFINE first == CHOOSE c \in Boards : IsFirst(c, "backlog")
  <1>1. first \in Boards /\ FirstKind[first] = "backlog"
    <2>1. \E c \in Boards : IsFirst(c, "backlog")
      BY TicketConstants DEF TicketsInit, IsFirst, ByCategory
    <2> QED
      BY <2>1 DEF TicketsInit, IsFirst, ByCategory
  <1>2. BoardTyped
    BY <1>1, TicketConstants DEF TicketsInit, BoardTyped, TicketRows
  <1>3. JobsTyped /\ PlacedExist
    BY DEF TicketsInit, JobsTyped, PlacedExist, Idle
  <1>4. BoardKeepsCategories
    BY TicketConstants DEF TicketsInit, BoardKeepsCategories, ByCategory
  <1>5. TicketsKeepColumns
    BY <1>1 DEF TicketsInit, TicketsKeepColumns, Exists, Standing
  <1> QED
    BY <1>2, <1>3, <1>4, <1>5 DEF BoardConsistent, TicketsTypeOK

\* Every request of one transaction and every step of the others keeps the board consistent.
LEMMA TicketsStep == BoardConsistent /\ [TicketsNext]_ticketVars => BoardConsistent'
  <1> SUFFICES ASSUME BoardConsistent, [TicketsNext]_ticketVars
               PROVE  BoardConsistent'
    OBVIOUS
  <1>1. CASE Transactions
    BY <1>1, ReparentKeeps, SetDelegateKeeps, MoveKeeps, AddColumnKeeps, UpdateCategoryKeeps,
       ToggleAutoStartKeeps, DropColumnKeeps DEF Transactions
  <1>2. CASE ReadThenWrite
    <2>1. ASSUME NEW w \in Workers, NEW t \in Slots, NEW p \in Slots, SubticketsRead(w, t, p)
          PROVE  BoardConsistent'
      <3>1. ticketRow[p].column \in Boards
        BY <2>1 DEF SubticketsRead, ParentOK, BoardConsistent, TicketsKeepColumns, Standing
      <3> QED
        BY <2>1, <3>1, CreateReadKeeps DEF SubticketsRead
    <2> QED
      BY <1>2, <2>1, CreateReadKeeps, InsertKeeps, ArchiveReadKeeps, CancelTicketRunsKeeps,
         UnarchiveReadKeeps, DelegateReadKeeps, SaveKeeps, CommentKeeps, RequestRunKeeps,
         MoveToCategoryReadKeeps, MoveToCategoryWriteKeeps, RunOverKeeps DEF ReadThenWrite
  <1>3. CASE UNCHANGED ticketVars
    BY <1>3 DEF ticketVars, BoardConsistent, TicketsTypeOK, BoardTyped, JobsTyped,
       BoardKeepsCategories, ByCategory, TicketsKeepColumns, Exists, Standing, PlacedExist
  <1> QED
    BY <1>1, <1>2, <1>3 DEF TicketsNext

\* For any board, tickets and requests, whole rows written from what was read before included:
\* the board keeps a column of every required category, and no ticket is left in a column that
\* is gone (requireCategorySurvives, the foreign key of tickets.column_id).
THEOREM BoardInvariant == TicketsSpec => []BoardConsistent
  <1> QED
    BY TicketsStart, TicketsStep, PTL DEF TicketsSpec

------------------------------------------------------------------------------
(* Secrets: the key, what is sealed with it, a run's environment.            *)

\* What an edit leaves in a row: what was there, nothing, or a row sealed with the key of the
\* file.
LEMMA EditSeals ==
  ASSUME SecretsInv, NEW r \in Editors, Edit(r)
  PROVE  /\ secretRows' \in [SecretIds -> SecretRow \cup {NoSecret, GoneSecret}]
         /\ editor' \in [Editors ->
                     [does : {"nothing", "done"}]
                \cup [does : {"set"}, row : SecretIds \cup {NoSecret}, scope : SecretScopes,
                      name : SecretNames, good : BOOLEAN]
                \cup [does : {"rename"}, row : SecretIds, was : SecretRow]
                \cup [does : {"delete"}, row : SecretIds]]
         /\ \A i \in SecretIds :
              \/ secretRows'[i] = secretRows[i] \/ secretRows'[i] = GoneSecret
              \/ replacedKey \/ secretRows'[i].key = keyFile
  <1> USE DEF SecretsInv, SecretsTypeOK
  <1> DEFINE e == editor[r]
  <1>1. /\ e.does = "set" => /\ e.row \in SecretIds \cup {NoSecret} /\ e.scope \in SecretScopes
                             /\ e.name \in SecretNames /\ e.good \in BOOLEAN
        /\ e.does = "rename" => e.row \in SecretIds /\ e.was \in SecretRow
        /\ e.does = "delete" => e.row \in SecretIds
    BY DEF SecretsTyped
  <1>2. e.does = "set" =>
          /\ Sealed(r) \in SecretRow /\ (replacedKey \/ Sealed(r).key = keyFile)
    <2> SUFFICES ASSUME e.does = "set"
                 PROVE  Sealed(r) \in SecretRow /\ (replacedKey \/ Sealed(r).key = keyFile)
      OBVIOUS
    <2>1. opener[Serve].key \in MasterKeys /\ (replacedKey \/ opener[Serve].key = keyFile)
      BY DEF KeysTyped, OneKey, OneWriter, Up
    <2> QED
      BY <1>1, <2>1 DEF Sealed, SecretRow
  <1>3. e.does = "rename" => replacedKey \/ e.was.key = keyFile
    BY DEF OneWriter
  <1>4. \/ secretRows' = secretRows
        \/ \E i \in SecretIds, row \in SecretRow \cup {GoneSecret} :
             /\ secretRows' = [secretRows EXCEPT ![i] = row]
             /\ row = GoneSecret \/ replacedKey \/ row.key = keyFile
    <2>1. CASE DoSet(r) /\ e.row # NoSecret
      <3>1. e.row \in SecretIds /\ Sealed(r) \in SecretRow /\ (replacedKey \/ Sealed(r).key = keyFile)
        BY <1>1, <1>2, <2>1 DEF DoSet
      <3>2. secretRows' \in {secretRows, [secretRows EXCEPT ![e.row] = Sealed(r)]}
        BY <2>1 DEF DoSet, Rewrite
      <3> QED
        BY <3>1, <3>2
    <2>2. CASE DoSet(r) /\ e.row = NoSecret
      <3>1. Sealed(r) \in SecretRow /\ (replacedKey \/ Sealed(r).key = keyFile)
        BY <1>2, <2>2 DEF DoSet
      <3>2. \/ secretRows' = secretRows
            \/ \E i \in SecretIds : secretRows' = [secretRows EXCEPT ![i] = Sealed(r)]
        BY <2>2 DEF DoSet, NextId
      <3> QED
        BY <3>1, <3>2
    <2>3. CASE DoRename(r)
      <3>1. e.row \in SecretIds /\ e.was \in SecretRow /\ (replacedKey \/ e.was.key = keyFile)
        BY <1>1, <1>3, <2>3 DEF DoRename
      <3>2. secretRows' \in {secretRows, [secretRows EXCEPT ![e.row] = e.was]}
        BY <2>3 DEF DoRename, Rewrite
      <3> QED
        BY <3>1, <3>2
    <2>4. CASE DoDelete(r)
      BY <1>1, <2>4 DEF DoDelete
    <2> QED
      BY <2>1, <2>2, <2>3, <2>4 DEF Edit
  <1>5. editor' \in [Editors ->
                     [does : {"nothing", "done"}]
                \cup [does : {"set"}, row : SecretIds \cup {NoSecret}, scope : SecretScopes,
                      name : SecretNames, good : BOOLEAN]
                \cup [does : {"rename"}, row : SecretIds, was : SecretRow]
                \cup [does : {"delete"}, row : SecretIds]]
    BY DEF Edit, SecretsTyped
  <1>6. secretRows \in [SecretIds -> SecretRow \cup {NoSecret, GoneSecret}]
    BY DEF SecretsTyped
  <1> QED
    BY <1>4, <1>5, <1>6

\* An environment that is not begun yet, as a row.
LEMMA NoBuildTyped ==
  /\ NoBuild \in BuildRows /\ NoBuild.at = "idle" /\ NoBuild.left = {}
  /\ \A n \in SecretNames : NoBuild.env[n] = "unset"
  <1>1. <<>> \in Seq({"oauth-token", "env"})
    OBVIOUS
  <1>2. [n \in SecretNames |-> "unset"] \in
          [SecretNames -> {"unset", "workspace", "project", "oauth-token", "env"}]
    OBVIOUS
  <1> QED
    BY <1>1, <1>2 DEF NoBuild, BuildRows, SecretScopes

\* A process looks at the key file.
LEMMA StatKeeps ==
  ASSUME SecretsInv, NEW p \in {Serve, Doctor}, Stat(p)
  PROVE  SecretsInv'
  <1> USE DEF SecretsInv, SecretsTypeOK
  <1>1. KeysTyped'
    BY DEF Stat, KeysTyped
  <1>2. OneKey'
    BY DEF Stat, OneKey, Kept, IsRow, KeysTyped
  <1>3. OneWriter'
    BY DEF Stat, OneWriter, Up, KeysTyped
  <1>4. SecretsTyped' /\ BuildTyped' /\ CredentialsAlone' /\ NoneBeforeItsSource'
    BY DEF Stat, SecretsTyped, BuildTyped, CredentialsAlone, NoneBeforeItsSource
  <1> QED
    BY <1>1, <1>2, <1>3, <1>4

\* It creates the file, if nobody else has.
LEMMA CreateFileKeeps ==
  ASSUME SecretsInv, NEW p \in {Serve, Doctor}, CreateFile(p)
  PROVE  SecretsInv'
  <1> USE DEF SecretsInv, SecretsTypeOK
  <1>1. KeysTyped'
    BY DEF CreateFile, Creatable, KeysTyped, Closed
  <1>2. OneKey'
    BY SecretsAssumption DEF CreateFile, Creatable, OneKey, Kept, IsRow, KeysTyped,
       SecretsTyped, SecretRow, OneWriter, Closed, Up
  <1>3. OneWriter'
    BY SecretsAssumption DEF CreateFile, Creatable, OneWriter, Up, KeysTyped, SecretsTyped,
       Closed, OneKey, Kept, IsRow
  <1>4. SecretsTyped' /\ BuildTyped' /\ CredentialsAlone' /\ NoneBeforeItsSource'
    BY DEF CreateFile, Creatable, SecretsTyped, BuildTyped, CredentialsAlone,
       NoneBeforeItsSource
  <1> QED
    BY <1>1, <1>2, <1>3, <1>4

\* And writes the key.
LEMMA WriteKeyKeeps ==
  ASSUME SecretsInv, NEW p \in {Serve, Doctor}, NEW k \in MasterKeys, WriteKey(p, k)
  PROVE  SecretsInv'
  <1> USE DEF SecretsInv, SecretsTypeOK
  <1>1. KeysTyped'
    BY DEF WriteKey, KeysTyped
  <1>2. OneKey'
    BY SecretsAssumption DEF WriteKey, OneKey, Kept, IsRow, KeysTyped, SecretsTyped, SecretRow,
       OneWriter, Closed, Up
  <1>3. OneWriter'
    BY SecretsAssumption DEF WriteKey, OneWriter, Up, KeysTyped, SecretsTyped, Closed,
       Creatable, OneKey, Kept, IsRow
  <1>4. SecretsTyped' /\ BuildTyped' /\ CredentialsAlone' /\ NoneBeforeItsSource'
    BY DEF WriteKey, SecretsTyped, BuildTyped, CredentialsAlone, NoneBeforeItsSource
  <1> QED
    BY <1>1, <1>2, <1>3, <1>4

\* A process ends.
LEMMA OpenerEndsKeeps ==
  ASSUME SecretsInv, NEW p \in {Serve, Doctor}, OpenerEnds(p)
  PROVE  SecretsInv'
  <1> USE DEF SecretsInv, SecretsTypeOK
  <1>1. KeysTyped'
    BY DEF OpenerEnds, KeysTyped, Closed
  <1>2. SecretsTyped'
    BY DEF OpenerEnds, SecretsTyped
  <1>3. BuildTyped'
    <2>1. CASE p = Serve
      BY <2>1, NoBuildTyped DEF OpenerEnds, BuildTyped
    <2>2. CASE p # Serve
      BY <2>2 DEF OpenerEnds, BuildTyped
    <2> QED
      BY <2>1, <2>2
  <1>4. OneKey'
    BY SecretsAssumption DEF OpenerEnds, OneKey, Kept, IsRow, KeysTyped, OneWriter, Closed, Up
  <1>5. OneWriter'
    BY SecretsAssumption DEF OpenerEnds, OneWriter, Up, KeysTyped, Closed
  <1>6. CredentialsAlone'
    BY DEF OpenerEnds, CredentialsAlone, NoBuild
  <1>7. NoneBeforeItsSource'
    BY DEF OpenerEnds, NoneBeforeItsSource, NoBuild, Reserved, SecretNames, Injected
  <1> QED
    BY <1>1, <1>2, <1>3, <1>4, <1>5, <1>6, <1>7

\* A person removes the file.
LEMMA RemoveKeyKeeps ==
  ASSUME SecretsInv, RemoveKey
  PROVE  SecretsInv'
  <1> USE DEF SecretsInv, SecretsTypeOK
  <1>1. KeysTyped'
    BY DEF RemoveKey, KeysTyped
  <1>2. OneKey'
    BY DEF RemoveKey, OneKey, Kept, IsRow
  <1>3. OneWriter'
    BY DEF RemoveKey, OneWriter, Up
  <1>4. SecretsTyped' /\ BuildTyped' /\ CredentialsAlone' /\ NoneBeforeItsSource'
    BY DEF RemoveKey, SecretsTyped, BuildTyped, CredentialsAlone, NoneBeforeItsSource
  <1> QED
    BY <1>1, <1>2, <1>3, <1>4

\* A secret is to be set.
LEMMA AskSetKeeps ==
  ASSUME SecretsInv, NEW r \in Editors, NEW sc \in SecretScopes, NEW n \in SecretNames, NEW good \in BOOLEAN, AskSet(r, sc, n, good)
  PROVE  SecretsInv'
  <1> USE DEF SecretsInv, SecretsTypeOK
  <1>1. SecretsTyped'
    BY DEF AskSet, Reads, Finds, ByName, Kept, SecretsTyped
  <1>2. OneWriter'
    BY DEF AskSet, Reads, Finds, ByName, Kept, OneWriter, Up
  <1>3. /\ KeysTyped'
       /\ BuildTyped'
       /\ OneKey'
       /\ CredentialsAlone'
       /\ NoneBeforeItsSource'
    BY DEF AskSet, Reads, Finds, ByName, Kept, KeysTyped, BuildTyped, OneKey, IsRow,
       CredentialsAlone, NoneBeforeItsSource
  <1> QED
    BY <1>1, <1>2, <1>3

\* Renamed.
LEMMA AskRenameKeeps ==
  ASSUME SecretsInv, NEW r \in Editors, NEW i \in SecretIds, NEW n \in SecretNames, AskRename(r, i, n)
  PROVE  SecretsInv'
  <1> USE DEF SecretsInv, SecretsTypeOK
  <1>1. SecretsTyped'
    <2>1. secretRows[i] \in SecretRow
      BY DEF AskRename, Kept, IsRow, SecretsTyped
    <2>2. [secretRows[i] EXCEPT !.name = n] \in SecretRow
      BY <2>1 DEF SecretRow
    <2> QED
      BY <2>2 DEF AskRename, Reads, SecretsTyped
  <1>2. OneWriter'
    <2>1. secretRows[i] \in SecretRow
      BY DEF AskRename, Kept, IsRow, SecretsTyped
    <2>2. [secretRows[i] EXCEPT !.name = n].key = secretRows[i].key
      BY <2>1 DEF SecretRow
    <2>3. replacedKey \/ secretRows[i].key = keyFile
      BY DEF AskRename, OneKey
    <2> QED
      BY <2>2, <2>3 DEF AskRename, Reads, SecretsTyped, OneWriter, Up
  <1>3. /\ KeysTyped'
       /\ BuildTyped'
       /\ OneKey'
       /\ CredentialsAlone'
       /\ NoneBeforeItsSource'
    BY DEF AskRename, Reads, KeysTyped, BuildTyped, OneKey, Kept, IsRow, CredentialsAlone,
       NoneBeforeItsSource
  <1> QED
    BY <1>1, <1>2, <1>3

\* Deleted.
LEMMA AskDeleteKeeps ==
  ASSUME SecretsInv, NEW r \in Editors, NEW i \in SecretIds, AskDelete(r, i)
  PROVE  SecretsInv'
  <1> USE DEF SecretsInv, SecretsTypeOK
  <1>1. SecretsTyped'
    BY DEF AskDelete, Reads, SecretsTyped
  <1>2. OneWriter'
    BY DEF AskDelete, Reads, OneWriter, Up
  <1>3. /\ KeysTyped'
       /\ BuildTyped'
       /\ OneKey'
       /\ CredentialsAlone'
       /\ NoneBeforeItsSource'
    BY DEF AskDelete, Reads, KeysTyped, BuildTyped, OneKey, Kept, IsRow, CredentialsAlone,
       NoneBeforeItsSource
  <1> QED
    BY <1>1, <1>2, <1>3

\* One statement is written.
LEMMA EditKeeps ==
  ASSUME SecretsInv, NEW r \in Editors, Edit(r)
  PROVE  SecretsInv'
  <1> USE DEF SecretsInv, SecretsTypeOK
  <1>1. SecretsTyped'
    BY EditSeals DEF Edit, SecretsTyped
  <1>2. OneKey'
    BY EditSeals DEF Edit, OneKey, Kept, IsRow
  <1>3. OneWriter'
    BY DEF Edit, DoSet, DoRename, DoDelete, Rewrite, OneWriter, Up
  <1>4. KeysTyped' /\ BuildTyped' /\ CredentialsAlone' /\ NoneBeforeItsSource'
    BY DEF Edit, DoSet, DoRename, DoDelete, Rewrite, KeysTyped, BuildTyped, CredentialsAlone,
       NoneBeforeItsSource
  <1> QED
    BY <1>1, <1>2, <1>3, <1>4

\* An environment is begun.
LEMMA StartBuildKeeps ==
  ASSUME SecretsInv, StartBuild
  PROVE  SecretsInv'
  <1> USE DEF SecretsInv, SecretsTypeOK
  <1>1. BuildTyped'
    <2>1. [NoBuild EXCEPT !.at = "list"] \in BuildRows
      BY NoBuildTyped DEF BuildRows
    <2> QED
      BY <2>1 DEF StartBuild, Builds, BuildTyped, BuildRows
  <1>2. CredentialsAlone'
    BY DEF StartBuild, Builds, CredentialsAlone
  <1>3. NoneBeforeItsSource'
    BY DEF StartBuild, Builds, NoneBeforeItsSource, NoBuild, Reserved, SecretNames, Injected
  <1>4. KeysTyped' /\ SecretsTyped' /\ OneKey' /\ OneWriter'
    BY DEF StartBuild, Builds, KeysTyped, SecretsTyped, OneKey, Kept, IsRow, OneWriter, Up
  <1> QED
    BY <1>1, <1>2, <1>3, <1>4

\* The secrets of a scope are listed.
LEMMA ListSecretsKeeps ==
  ASSUME SecretsInv, ListSecrets
  PROVE  SecretsInv'
  <1> USE DEF SecretsInv, SecretsTypeOK
  <1>1. BuildTyped'
    <2> DEFINE l == {<<i, secretRows[i].name>> : i \in
                  {j \in Kept : secretRows[j].scope = build.scope /\ secretRows[j].name \in Injected}}
    <2>1. l \subseteq SecretIds \X SecretNames
      BY DEF Kept, Injected
    <2> QED
      BY <2>1 DEF ListSecrets, Builds, BuildTyped, BuildRows
  <1>2. CredentialsAlone'
    BY DEF ListSecrets, Builds, CredentialsAlone
  <1>3. NoneBeforeItsSource'
    BY DEF ListSecrets, Builds, NoneBeforeItsSource
  <1>4. KeysTyped' /\ SecretsTyped' /\ OneKey' /\ OneWriter'
    BY DEF ListSecrets, Builds, KeysTyped, SecretsTyped, OneKey, Kept, IsRow, OneWriter, Up
  <1> QED
    BY <1>1, <1>2, <1>3, <1>4

\* One of them is read.
LEMMA ReadSecretKeeps ==
  ASSUME SecretsInv, NEW x \in SecretIds \X SecretNames, ReadSecret(x)
  PROVE  SecretsInv'
  <1> USE DEF SecretsInv, SecretsTypeOK
  <1>1. BuildTyped'
    <2>1. [build EXCEPT !.at = "refused"] \in BuildRows
      BY DEF BuildTyped, BuildRows
    <2>2. build.scope \in SecretScopes /\ x[2] \in SecretNames
          /\ build.env \in [SecretNames -> {"unset", "workspace", "project", "oauth-token", "env"}]
      BY DEF BuildTyped, BuildRows
    <2>3. [build.env EXCEPT ![x[2]] = build.scope] \in
            [SecretNames -> {"unset", "workspace", "project", "oauth-token", "env"}]
      BY <2>2 DEF SecretScopes
    <2>4. [build EXCEPT !.left = @ \ {x}, !.env[x[2]] = build.scope] \in BuildRows
      BY <2>3 DEF BuildTyped, BuildRows
    <2> QED
      BY <2>1, <2>4 DEF ReadSecret, Builds, BuildTyped, BuildRows
  <1>2. CredentialsAlone'
    BY DEF ReadSecret, Builds, CredentialsAlone, BuildTyped, BuildRows, NextSource
  <1>3. NoneBeforeItsSource'
    <2>1. build.at # "built" /\ x[2] \in SecretNames \ Reserved /\ build.env \in [SecretNames ->
            {"unset", "workspace", "project", "oauth-token", "env"}]
      BY DEF ReadSecret, NoneBeforeItsSource, Injected, BuildTyped, BuildRows
    <2>2. build'.at # "take" /\ build'.left \subseteq build.left
      <3>1. /\ build.at = "read"
            /\ build \in BuildRows
            /\ \/ build' = [build EXCEPT !.at = "refused"]
               \/ build' = [build EXCEPT !.left = @ \ {x}, !.env[x[2]] = build.scope]
        BY DEF ReadSecret, Builds, BuildTyped
      <3>2. CASE build' = [build EXCEPT !.at = "refused"]
        BY <3>1, <3>2 DEF BuildRows
      <3>3. CASE build' = [build EXCEPT !.left = @ \ {x}, !.env[x[2]] = build.scope]
        BY <3>1, <3>3 DEF BuildRows
      <3> QED
        BY <3>1, <3>2, <3>3
    <2>3. \A n \in Reserved : build'.env[n] = build.env[n]
      <3> SUFFICES ASSUME NEW n \in Reserved
                   PROVE  build'.env[n] = build.env[n]
        OBVIOUS
      <3>1. n # x[2] /\ n \in SecretNames
        BY <2>1 DEF SecretNames
      <3>2. build'.env \in {build.env, [build.env EXCEPT ![x[2]] = build.scope]}
        BY DEF ReadSecret, Builds, BuildTyped, BuildRows
      <3> QED
        BY <2>1, <3>1, <3>2
    <2> QED
      BY <2>1, <2>2, <2>3 DEF NoneBeforeItsSource
  <1>4. KeysTyped' /\ SecretsTyped' /\ OneKey' /\ OneWriter'
    BY DEF ReadSecret, Builds, KeysTyped, SecretsTyped, OneKey, Kept, IsRow, OneWriter, Up
  <1> QED
    BY <1>1, <1>2, <1>3, <1>4

\* All of them have been.
LEMMA ScopeReadKeeps ==
  ASSUME SecretsInv, ScopeRead
  PROVE  SecretsInv'
  <1> USE DEF SecretsInv, SecretsTypeOK
  <1>1. BuildTyped'
    <2>1. [build EXCEPT !.at = "list", !.scope = "project"] \in BuildRows
      BY DEF BuildTyped, BuildRows, SecretScopes
    <2>2. <<"oauth-token", "env">> \in Seq({"oauth-token", "env"})
      OBVIOUS
    <2>3. [build EXCEPT !.at = "check", !.sources = <<"oauth-token", "env">>] \in BuildRows
      BY <2>2 DEF BuildTyped, BuildRows
    <2> QED
      BY <2>1, <2>3 DEF ScopeRead, Builds, BuildTyped, BuildRows
  <1>2. CredentialsAlone'
    BY DEF ScopeRead, Builds, CredentialsAlone
  <1>3. NoneBeforeItsSource'
    BY DEF ScopeRead, Builds, NoneBeforeItsSource
  <1>4. KeysTyped' /\ SecretsTyped' /\ OneKey' /\ OneWriter'
    BY DEF ScopeRead, Builds, KeysTyped, SecretsTyped, OneKey, Kept, IsRow, OneWriter, Up
  <1> QED
    BY <1>1, <1>2, <1>3, <1>4

\* A source of the credential is asked whether it is healthy.
LEMMA CheckSourceKeeps ==
  ASSUME SecretsInv, CheckSource
  PROVE  SecretsInv'
  <1> USE DEF SecretsInv, SecretsTypeOK
  <1>1. BuildTyped'
    <2>1. build.sources # <<>> => NextSource(build) \in BuildRows
      <3> SUFFICES ASSUME build.sources # <<>>
                   PROVE  NextSource(build) \in BuildRows
        OBVIOUS
      <3>1. Tail(build.sources) \in Seq({"oauth-token", "env"})
        BY DEF BuildTyped, BuildRows
      <3> QED
        BY <3>1 DEF BuildTyped, BuildRows, NextSource
    <2>2. [build EXCEPT !.at = "refused"] \in BuildRows /\ [build EXCEPT !.at = "take"] \in BuildRows
      BY DEF BuildTyped, BuildRows
    <2> QED
      BY <2>1, <2>2 DEF CheckSource, Builds, BuildTyped, BuildRows
  <1>2. CredentialsAlone'
    BY DEF CheckSource, Builds, CredentialsAlone, BuildTyped, BuildRows, NextSource
  <1>3. NoneBeforeItsSource'
    BY DEF CheckSource, Builds, NoneBeforeItsSource, BuildTyped, BuildRows, NextSource,
       Injected
  <1>4. KeysTyped' /\ SecretsTyped' /\ OneKey' /\ OneWriter'
    BY DEF CheckSource, Builds, KeysTyped, SecretsTyped, OneKey, Kept, IsRow, OneWriter, Up
  <1> QED
    BY <1>1, <1>2, <1>3, <1>4

\* And for what it supplies.
LEMMA TakeSourceKeeps ==
  ASSUME SecretsInv, TakeSource
  PROVE  SecretsInv'
  <1> USE DEF SecretsInv, SecretsTypeOK
  <1>1. BuildTyped'
    <2>1. build.sources # <<>> /\ build.sources[1] \in {"oauth-token", "env"}
      BY DEF TakeSource, NoneBeforeItsSource, BuildTyped, BuildRows
    <2>2. build.sources # <<>> => NextSource(build) \in BuildRows
      <3> SUFFICES ASSUME build.sources # <<>>
                   PROVE  NextSource(build) \in BuildRows
        OBVIOUS
      <3>1. Tail(build.sources) \in Seq({"oauth-token", "env"})
        BY DEF BuildTyped, BuildRows
      <3> QED
        BY <3>1 DEF BuildTyped, BuildRows, NextSource
    <2>3. ASSUME NEW g
          PROVE  [build EXCEPT !.at = "built", !.env = [n \in SecretNames |->
                   IF n \in g THEN build.sources[1] ELSE @[n]]] \in BuildRows
      <3>1. [n \in SecretNames |-> IF n \in g THEN build.sources[1] ELSE build.env[n]] \in
              [SecretNames -> {"unset", "workspace", "project", "oauth-token", "env"}]
        BY <2>1 DEF BuildTyped, BuildRows
      <3> QED
        BY <3>1 DEF BuildTyped, BuildRows
    <2>4. \/ build' = NextSource(build)
          \/ \E g : build' = [build EXCEPT !.at = "built", !.env = [n \in SecretNames |->
                            IF n \in g THEN build.sources[1] ELSE @[n]]]
      BY DEF TakeSource, Builds
    <2>5. CASE build' = NextSource(build)
      BY <2>1, <2>2, <2>5 DEF BuildTyped
    <2>6. ASSUME NEW g, build' = [build EXCEPT !.at = "built", !.env = [n \in SecretNames |->
                            IF n \in g THEN build.sources[1] ELSE @[n]]]
          PROVE  BuildTyped'
      <3>1. [build EXCEPT !.at = "built", !.env = [n \in SecretNames |->
                            IF n \in g THEN build.sources[1] ELSE @[n]]] \in BuildRows
        BY <2>3
      <3> QED
        BY <2>6, <3>1 DEF BuildTyped
    <2> QED
      BY <2>4, <2>5, <2>6
  <1>2. CredentialsAlone'
    <2> SUFFICES ASSUME build'.at = "built"
                 PROVE  \E n \in Reserved :
                          /\ build'.env[n] \in {"oauth-token", "env"}
                          /\ \A m \in Reserved \ {n} : build'.env[m] = "unset"
      BY DEF CredentialsAlone
    <2>1. build.sources # <<>> /\ build.sources[1] \in {"oauth-token", "env"}
      BY DEF TakeSource, NoneBeforeItsSource, BuildTyped, BuildRows
    <2>2. PICK t \in Finds("workspace", OAuthName) :
            /\ Supplies(build.sources[1], t) # {}
            /\ build' = [build EXCEPT !.at = "built",
                 !.env = [n \in SecretNames |->
                            IF n \in Supplies(build.sources[1], t) THEN build.sources[1] ELSE @[n]]]
      BY DEF TakeSource, Builds, NextSource, BuildTyped, BuildRows
    <2>3. PICK n \in Reserved : Supplies(build.sources[1], t) = {n}
      BY <2>2, SecretsAssumption DEF Supplies, Reserved
    <2>4. \A m \in SecretNames : build'.env[m] = IF m = n THEN build.sources[1] ELSE build.env[m]
      BY <2>2, <2>3 DEF BuildTyped, BuildRows
    <2> QED
      BY <2>1, <2>3, <2>4 DEF TakeSource, NoneBeforeItsSource, SecretNames
  <1>3. NoneBeforeItsSource'
    BY DEF TakeSource, Builds, NoneBeforeItsSource, BuildTyped, BuildRows, NextSource, Injected
  <1>4. KeysTyped' /\ SecretsTyped' /\ OneKey' /\ OneWriter'
    BY DEF TakeSource, Builds, KeysTyped, SecretsTyped, OneKey, Kept, IsRow, OneWriter, Up
  <1> QED
    BY <1>1, <1>2, <1>3, <1>4

\* The run starts, or fails.
LEMMA EnvironmentEndsKeeps ==
  ASSUME SecretsInv, EnvironmentEnds
  PROVE  SecretsInv'
  <1> USE DEF SecretsInv, SecretsTypeOK
  <1>1. BuildTyped'
    BY DEF EnvironmentEnds, Builds, BuildTyped, BuildRows, NoBuild, SecretScopes
  <1>2. CredentialsAlone'
    BY DEF EnvironmentEnds, Builds, CredentialsAlone, NoBuild
  <1>3. NoneBeforeItsSource'
    BY DEF EnvironmentEnds, Builds, NoneBeforeItsSource, NoBuild, Reserved, SecretNames,
       Injected
  <1>4. KeysTyped' /\ SecretsTyped' /\ OneKey' /\ OneWriter'
    BY DEF EnvironmentEnds, Builds, KeysTyped, SecretsTyped, OneKey, Kept, IsRow, OneWriter, Up
  <1> QED
    BY <1>1, <1>2, <1>3, <1>4

\* No key, no secrets, nobody at work.
LEMMA SecretsStart == SecretsInit => SecretsInv
  <1> SUFFICES ASSUME SecretsInit
               PROVE  SecretsInv
    OBVIOUS
  <1>1. KeysTyped
    BY DEF SecretsInit, KeysTyped, Closed
  <1>2. SecretsTyped
    BY DEF SecretsInit, SecretsTyped, NoErrand
  <1>3. BuildTyped
    BY DEF SecretsInit, BuildTyped, BuildRows, NoBuild, SecretScopes
  <1>4. OneKey /\ OneWriter
    BY DEF SecretsInit, OneKey, OneWriter, Kept, IsRow, Closed, NoErrand
  <1>5. CredentialsAlone /\ NoneBeforeItsSource
    BY DEF SecretsInit, CredentialsAlone, NoneBeforeItsSource, NoBuild, SecretNames
  <1> QED
    BY <1>1, <1>2, <1>3, <1>4, <1>5 DEF SecretsInv, SecretsTypeOK

\* Every step of the processes, of the requests and of a build keeps the invariant.
LEMMA SecretsStep == SecretsInv /\ [SecretsNext]_secretVars => SecretsInv'
  <1> SUFFICES ASSUME SecretsInv, [SecretsNext]_secretVars
               PROVE  SecretsInv'
    OBVIOUS
  <1>1. CASE SecretsNext
    <2>1. ASSUME NEW r \in Editors, NEW good \in BOOLEAN, SetToken(r, good)
          PROVE  SecretsInv'
      BY <2>1, AskSetKeeps DEF SetToken, SecretScopes, SecretNames, Reserved
    <2>2. ASSUME NEW r \in Editors, NEW sc \in SecretScopes, NEW n \in SecretNames, AskSet(r, sc, n, TRUE)
          PROVE  SecretsInv'
      BY <2>2, AskSetKeeps
    <2> QED
      BY <1>1, <2>1, <2>2, StatKeeps, CreateFileKeeps, WriteKeyKeeps, OpenerEndsKeeps,
         RemoveKeyKeeps, AskRenameKeeps, AskDeleteKeeps, EditKeeps, StartBuildKeeps,
         ListSecretsKeeps, ReadSecretKeeps, ScopeReadKeeps, CheckSourceKeeps, TakeSourceKeeps,
         EnvironmentEndsKeeps DEF SecretsNext
  <1>2. CASE UNCHANGED secretVars
    BY <1>2 DEF secretVars, SecretsInv, SecretsTypeOK, KeysTyped, SecretsTyped, BuildTyped,
       OneKey, OneWriter, Kept, IsRow, Up, CredentialsAlone, NoneBeforeItsSource
  <1> QED
    BY <1>1, <1>2

\* However the server, the doctor, crashes and requests interleave, there is one key and it
\* opens every secret until a person removes the file; and a run starts with exactly one
\* credential, from a source and never from a stored secret (loadOrCreateKey, the secrets
\* service, credentials.Supply).
THEOREM SecretsInvariant == SecretsSpec => []SecretsInv
  <1> QED
    BY SecretsStart, SecretsStep, PTL DEF SecretsSpec

------------------------------------------------------------------------------
(* Roster: a project, its agents and their directives.                       *)

\* What the starter roster holds is names.
LEMMA StarterIsNamed ==
  ASSUME AskedTyped, NEW r \in Clerks, asked[r].does = "starter", asked[r].next <= Len(Starters)
  PROVE  Starters[asked[r].next] \in RosterNames
  BY RosterAssumption DEF AskedTyped, AgentErrands

\* An agent and its first directive are inserted together, as rows.
LEMMA InsertTyped ==
  ASSUME RosterTyped, NEW a \in AgentIds, NEW n \in RosterNames, NEW b \in Bodies, Inserts(a, n, b)
  PROVE  /\ agentRow' \in [AgentIds -> AgentRows \cup {Absent}]
         /\ directives' \subseteq [of : AgentIds, version : Nat, body : Bodies]
         /\ IsFiniteSet(directives')
  <1>1. IsFiniteSet(directives')
    BY FS_AddElement DEF RosterTyped, Inserts
  <1> QED
    BY <1>1 DEF RosterTyped, Inserts, AgentRows

\* An insert leaves histories whole, orphans nothing and gives no name twice.
LEMMA InsertSound ==
  ASSUME RosterInv, NEW a \in AgentIds, NEW n \in RosterNames, NEW b \in Bodies, Inserts(a, n, b),
         UNCHANGED <<project, runsOf>>
  PROVE  HistoryIsSound' /\ NothingIsOrphaned' /\ NamesDiffer'
  <1> USE DEF RosterInv, RosterTypeOK
  <1> DEFINE row == [name |-> n, enabled |-> TRUE, archived |-> FALSE, current |-> 1]
             d0  == [of |-> a, version |-> 1, body |-> b]
  <1>1. /\ project # Absent /\ agentRow[a] = Absent /\ Named(n) = {}
        /\ agentRow' = [agentRow EXCEPT ![a] = row] /\ directives' = directives \cup {d0}
    BY DEF Inserts
  <1>2. row \in AgentRows /\ row # Absent
    <2>1. row \in AgentRows
      BY DEF AgentRows
    <2>2. Absent \notin AgentRows
      BY RosterAssumption
    <2> QED
      BY <2>1, <2>2
  <1>3. Versions(a) = {} /\ Versions(a)' = {d0}
    BY <1>1 DEF NothingIsOrphaned, Versions
  <1>4. \A x \in AgentIds \ {a} : Versions(x)' = Versions(x) /\ agentRow'[x] = agentRow[x]
    BY <1>1 DEF Versions, RosterTyped
  <1>5. agentRow'[a] = row
    BY <1>1 DEF RosterTyped
  <1>6. HistoryIsSound'
    <2>1. Cardinality(Versions(a)') = 1
      BY <1>3, FS_Singleton
    <2>2. {d.version : d \in Versions(a)'} = 1..1
      BY <1>3
    <2>3. \A d, e \in Versions(a)' : d.version # e.version + 1
      BY <1>3
    <2>4. \E d \in Versions(a)' : d.version = agentRow'[a].current
      BY <1>3, <1>5
    <2> QED
      BY <1>4, <2>1, <2>2, <2>3, <2>4 DEF HistoryIsSound
  <1>7. NothingIsOrphaned'
    <2>1. \A x \in AgentIds : agentRow[x] # Absent => agentRow'[x] # Absent
      BY <1>2, <1>4, <1>5
    <2>2. \A k \in RunIds : runsOf[k] # Absent => runsOf[k].of \in AgentIds
      BY DEF RosterTyped, RunRows
    <2>3. \A d \in directives : d.of \in AgentIds
      BY DEF RosterTyped
    <2> QED
      BY <1>1, <1>2, <1>5, <2>1, <2>2, <2>3 DEF NothingIsOrphaned, Versions
  <1>8. NamesDiffer'
    BY <1>1, <1>4, <1>5 DEF NamesDiffer, Named
  <1> QED
    BY <1>6, <1>7, <1>8

\* An update of a whole row: it brings no agent back, and no name twice.
LEMMA WriteSound ==
  ASSUME RosterInv, NEW r \in Clerks, NEW a \in AgentIds, a = asked[r].of, NEW row \in AgentRows,
         Writes(r, row)
  PROVE  /\ agentRow' \in [AgentIds -> AgentRows \cup {Absent}]
         /\ \A x \in AgentIds : agentRow[x] # Absent <=> agentRow'[x] # Absent
         /\ \A x \in AgentIds : agentRow'[x] = agentRow[x] \/ (x = a /\ agentRow'[x] = row)
         /\ NamesDiffer'
  <1> USE DEF RosterInv, RosterTypeOK
  <1>1. row # Absent
    <2>1. Absent \notin AgentRows
      BY RosterAssumption
    <2> QED
      BY <2>1
  <1>2. CASE agentRow' = agentRow
    BY <1>2 DEF RosterTyped, NamesDiffer
  <1>3. CASE /\ agentRow[a] # Absent /\ Named(row.name) \subseteq {a}
             /\ agentRow' = [agentRow EXCEPT ![a] = row]
    <2>1. agentRow' \in [AgentIds -> AgentRows \cup {Absent}]
      BY <1>3 DEF RosterTyped
    <2>2. \A x \in AgentIds : agentRow'[x] = IF x = a THEN row ELSE agentRow[x]
      BY <1>3 DEF RosterTyped
    <2>3. NamesDiffer'
      BY <1>3, <2>2 DEF NamesDiffer, Named
    <2> QED
      BY <1>1, <1>3, <2>1, <2>2, <2>3
  <1> QED
    BY <1>2, <1>3 DEF Writes

\* What a request that has read a row holds.
LEMMA ReadRow ==
  ASSUME AskedTyped, NEW r \in Clerks, asked[r].does \in AgentErrands
  PROVE  asked[r].of \in AgentIds /\ asked[r].row \in AgentRows
  BY DEF AskedTyped, AgentErrands

\* A directive that is saved is the next version, and differs from the one before.
LEMMA DirectiveSaved ==
  ASSUME RosterInv, NEW r \in Clerks, NEW b \in Bodies, SaveDirective(r, b)
  PROVE  \E a \in AgentIds : a = asked[r].of /\
           \/ UNCHANGED <<agentRow, directives>>
           \/ \E row \in AgentRows :
                /\ Writes(r, row) /\ row.current = asked[r].row.current + 1
                /\ directives' = directives \cup {[of |-> a, version |-> row.current, body |-> b]}
                /\ agentRow[a] # Absent /\ \A d \in Versions(a) : d.version # row.current
                /\ [of |-> a, version |-> asked[r].row.current, body |-> b] \notin directives
  <1> USE DEF RosterInv, RosterTypeOK
  <1>1. asked[r].of \in AgentIds /\ asked[r].row \in AgentRows
    BY ReadRow DEF SaveDirective, AgentErrands
  <1> DEFINE row == [asked[r].row EXCEPT !.current = asked[r].row.current + 1]
  <1>2. row \in AgentRows /\ row.current = asked[r].row.current + 1
    BY <1>1 DEF AgentRows
  <1>3. \/ UNCHANGED <<agentRow, directives>>
        \/ /\ Writes(r, row)
           /\ directives' = directives \cup
                {[of |-> asked[r].of, version |-> asked[r].row.current + 1, body |-> b]}
           /\ agentRow[asked[r].of] # Absent
           /\ \A d \in Versions(asked[r].of) : d.version # asked[r].row.current + 1
           /\ [of |-> asked[r].of, version |-> asked[r].row.current, body |-> b] \notin directives
    BY DEF SaveDirective, NextVersion
  <1> QED
    BY <1>1, <1>2, <1>3

\* An agent is created.
LEMMA CreateAgentKeeps ==
  ASSUME RosterInv, NEW r \in Clerks, NEW a \in AgentIds, NEW n \in RosterNames, NEW b \in Bodies, CreateAgent(r, a, n, b)
  PROVE  RosterInv'
  <1> USE DEF RosterInv, RosterTypeOK
  <1>1. RosterTyped'
    BY InsertTyped DEF CreateAgent, RosterTyped
  <1>2. AskedTyped'
    BY DEF CreateAgent, Ends, AskedTyped, AgentErrands
  <1>3. HistoryIsSound'
    BY InsertSound DEF CreateAgent
  <1>4. NothingIsOrphaned'
    BY InsertSound DEF CreateAgent
  <1>5. NamesDiffer'
    BY InsertSound DEF CreateAgent
  <1>6. StaleRowsAreSound'
    <2>1. project' = project /\ directives \subseteq directives'
      BY DEF CreateAgent, Inserts
    <2>2. \A q \in Clerks : asked'[q].does \in AgentErrands => asked'[q] = asked[q]
      BY DEF CreateAgent, Ends, AskedTyped, AgentErrands
    <2> QED
      BY <2>1, <2>2 DEF StaleRowsAreSound, Versions
  <1> QED
    BY <1>1, <1>2, <1>3, <1>4, <1>5, <1>6

\* A request that only reads leaves what is stored as sound as it was.
LEMMA ReadingKeeps ==
  ASSUME RosterInv, UNCHANGED <<project, agentRow, directives, runsOf>>
  PROVE  RosterTyped' /\ HistoryIsSound' /\ NothingIsOrphaned' /\ NamesDiffer'
  <1>1. project' = project /\ agentRow' = agentRow /\ directives' = directives /\ runsOf' = runsOf
    OBVIOUS
  <1>2. RosterTyped /\ HistoryIsSound /\ NothingIsOrphaned /\ NamesDiffer
    BY DEF RosterInv, RosterTypeOK
  <1>3. RosterTyped'
    BY <1>1, <1>2 DEF RosterTyped
  <1>4. HistoryIsSound'
    <2>1. \A a \in AgentIds : Versions(a)' = Versions(a)
      BY <1>1 DEF Versions
    <2>2. HistoryIsSound
      BY <1>2
    <2> QED
      BY <1>1, <2>1, <2>2 DEF HistoryIsSound
  <1>5. NothingIsOrphaned'
    BY <1>1, <1>2 DEF NothingIsOrphaned, Versions
  <1>6. NamesDiffer'
    BY <1>1, <1>2 DEF NamesDiffer
  <1> QED
    BY <1>3, <1>4, <1>5, <1>6

\* The starter roster reads the names.
LEMMA AskStarterKeeps ==
  ASSUME RosterInv, NEW r \in Clerks, AskStarter(r)
  PROVE  RosterInv'
  <1> USE DEF RosterInv, RosterTypeOK
  <1>1. AskedTyped'
    BY DEF AskStarter, Errand, AskedTyped, AgentErrands
  <1>2. StaleRowsAreSound'
    BY DEF AskStarter, Errand, StaleRowsAreSound, Versions, RosterTyped, AskedTyped,
       AgentErrands
  <1>3. RosterTyped' /\ HistoryIsSound' /\ NothingIsOrphaned' /\ NamesDiffer'
    BY ReadingKeeps DEF AskStarter
  <1> QED
    BY <1>1, <1>2, <1>3

\* One agent of the starter roster.
LEMMA StarterKeeps ==
  ASSUME RosterInv, NEW r \in Clerks, NEW a \in AgentIds, NEW b \in Bodies, Starter(r, a, b)
  PROVE  RosterInv'
  <1> USE DEF RosterInv, RosterTypeOK
  <1>1. RosterTyped'
    <2>1. CASE UNCHANGED <<agentRow, directives>>
      BY <2>1 DEF Starter, RosterTyped
    <2>2. CASE \E n \in RosterNames : Inserts(a, n, b)
      BY <2>2, InsertTyped DEF Starter, RosterTyped
    <2> QED
      BY <2>1, <2>2, StarterIsNamed DEF Starter
  <1>2. AskedTyped'
    BY DEF Starter, Ends, AskedTyped, AgentErrands
  <1>3. HistoryIsSound'
    <2>1. CASE UNCHANGED <<agentRow, directives>>
      BY <2>1 DEF Starter, HistoryIsSound, Versions
    <2>2. CASE \E n \in RosterNames : Inserts(a, n, b)
      BY <2>2, InsertSound DEF Starter
    <2> QED
      BY <2>1, <2>2, StarterIsNamed DEF Starter
  <1>4. NothingIsOrphaned'
    <2>1. CASE UNCHANGED <<agentRow, directives>>
      BY <2>1 DEF Starter, NothingIsOrphaned, Versions
    <2>2. CASE \E n \in RosterNames : Inserts(a, n, b)
      BY <2>2, InsertSound DEF Starter
    <2> QED
      BY <2>1, <2>2, StarterIsNamed DEF Starter
  <1>5. NamesDiffer'
    <2>1. CASE UNCHANGED <<agentRow, directives>>
      BY <2>1 DEF Starter, NamesDiffer, Versions
    <2>2. CASE \E n \in RosterNames : Inserts(a, n, b)
      BY <2>2, InsertSound DEF Starter
    <2> QED
      BY <2>1, <2>2, StarterIsNamed DEF Starter
  <1>6. StaleRowsAreSound'
    <2>1. project' = project /\ directives \subseteq directives'
      BY DEF Starter, Inserts
    <2>2. \A q \in Clerks : asked'[q].does \in AgentErrands => asked'[q] = asked[q]
      BY DEF Starter, Ends, AskedTyped, AgentErrands
    <2> QED
      BY <2>1, <2>2 DEF StaleRowsAreSound, Versions
  <1> QED
    BY <1>1, <1>2, <1>3, <1>4, <1>5, <1>6

\* A request reads an agent's row.
LEMMA ReadAgentKeeps ==
  ASSUME RosterInv, NEW r \in Clerks, NEW a \in AgentIds, NEW does \in {"patch", "archive", "save"}, ReadAgent(r, a, does)
  PROVE  RosterInv'
  <1> USE DEF RosterInv, RosterTypeOK
  <1>1. AskedTyped'
    BY DEF ReadAgent, Errand, AskedTyped, AgentErrands, RosterTyped
  <1>2. StaleRowsAreSound'
    BY DEF ReadAgent, Errand, StaleRowsAreSound, Versions, RosterTyped, AskedTyped,
       AgentErrands, HistoryIsSound
  <1>3. RosterTyped' /\ HistoryIsSound' /\ NothingIsOrphaned' /\ NamesDiffer'
    BY ReadingKeeps DEF ReadAgent
  <1> QED
    BY <1>1, <1>2, <1>3

\* It writes the row it had read, with a field or two changed.
LEMMA UpdateAgentKeeps ==
  ASSUME RosterInv, NEW r \in Clerks, NEW n \in RosterNames, NEW on \in BOOLEAN, Update(r, n, on)
  PROVE  RosterInv'
  <1> USE DEF RosterInv, RosterTypeOK
  <1>1. RosterTyped'
    <2>1. PICK a \in AgentIds : a = asked[r].of
      BY ReadRow DEF Update, AgentErrands
    <2>2. PICK row \in AgentRows : Writes(r, row) /\ row.current = asked[r].row.current
      <3>1. asked[r].row \in AgentRows
        BY ReadRow DEF Update, AgentErrands
      <3>2. /\ [asked[r].row EXCEPT !.name = n, !.enabled = on] \in AgentRows
            /\ [asked[r].row EXCEPT !.name = n, !.enabled = on].current = asked[r].row.current
        BY <3>1 DEF AgentRows
      <3> QED
        BY <3>2 DEF Update
    <2> QED
      BY <2>1, <2>2, WriteSound DEF Update, RosterTyped
  <1>2. AskedTyped'
    BY DEF Update, Writes, Ends, AskedTyped, AgentErrands
  <1>3. HistoryIsSound'
    <2>1. PICK a \in AgentIds : a = asked[r].of
      BY ReadRow DEF Update, AgentErrands
    <2>2. PICK row \in AgentRows : Writes(r, row) /\ row.current = asked[r].row.current
      <3>1. asked[r].row \in AgentRows
        BY ReadRow DEF Update, AgentErrands
      <3>2. /\ [asked[r].row EXCEPT !.name = n, !.enabled = on] \in AgentRows
            /\ [asked[r].row EXCEPT !.name = n, !.enabled = on].current = asked[r].row.current
        BY <3>1 DEF AgentRows
      <3> QED
        BY <3>2 DEF Update
    <2>3. \A x \in AgentIds :
            agentRow'[x] = agentRow[x] \/ (x = a /\ agentRow'[x] = row /\ agentRow[x] # Absent)
      <3>1. /\ \A x \in AgentIds : agentRow[x] # Absent <=> agentRow'[x] # Absent
            /\ \A x \in AgentIds : agentRow'[x] = agentRow[x] \/ (x = a /\ agentRow'[x] = row)
        BY <2>1, <2>2, WriteSound
      <3> QED
        BY <3>1
    <2>4. agentRow[a] # Absent => \E d \in Versions(a) : d.version = row.current
      <3>1. agentRow[a] # Absent => project # Absent
        BY DEF NothingIsOrphaned
      <3>2. asked[r].does \in AgentErrands
        BY DEF Update, AgentErrands
      <3>3. project # Absent => \E d \in Versions(a) : d.version = asked[r].row.current
        BY <2>1, <3>2 DEF StaleRowsAreSound
      <3> QED
        BY <2>2, <3>1, <3>3
    <2> QED
      BY <2>3, <2>4 DEF Update, HistoryIsSound, Versions
  <1>4. NothingIsOrphaned'
    <2>1. PICK a \in AgentIds : a = asked[r].of
      BY ReadRow DEF Update, AgentErrands
    <2>2. PICK row \in AgentRows : Writes(r, row) /\ row.current = asked[r].row.current
      <3>1. asked[r].row \in AgentRows
        BY ReadRow DEF Update, AgentErrands
      <3>2. /\ [asked[r].row EXCEPT !.name = n, !.enabled = on] \in AgentRows
            /\ [asked[r].row EXCEPT !.name = n, !.enabled = on].current = asked[r].row.current
        BY <3>1 DEF AgentRows
      <3> QED
        BY <3>2 DEF Update
    <2>3. \A x \in AgentIds : agentRow[x] # Absent <=> agentRow'[x] # Absent
      BY <2>1, <2>2, WriteSound
    <2> QED
      BY <2>3 DEF Update, NothingIsOrphaned, Versions, RosterTyped, RunRows
  <1>5. NamesDiffer'
    <2>1. PICK a \in AgentIds : a = asked[r].of
      BY ReadRow DEF Update, AgentErrands
    <2>2. PICK row \in AgentRows : Writes(r, row) /\ row.current = asked[r].row.current
      <3>1. asked[r].row \in AgentRows
        BY ReadRow DEF Update, AgentErrands
      <3>2. /\ [asked[r].row EXCEPT !.name = n, !.enabled = on] \in AgentRows
            /\ [asked[r].row EXCEPT !.name = n, !.enabled = on].current = asked[r].row.current
        BY <3>1 DEF AgentRows
      <3> QED
        BY <3>2 DEF Update
    <2> QED
      BY <2>1, <2>2, WriteSound
  <1>6. StaleRowsAreSound'
    BY DEF Update, Writes, Ends, StaleRowsAreSound, Versions, RosterTyped, AskedTyped,
       AgentErrands
  <1> QED
    BY <1>1, <1>2, <1>3, <1>4, <1>5, <1>6

\* It archives the agent.
LEMMA ArchiveKeeps ==
  ASSUME RosterInv, NEW r \in Clerks, Archive(r)
  PROVE  RosterInv'
  <1> USE DEF RosterInv, RosterTypeOK
  <1>1. RosterTyped'
    <2>1. PICK a \in AgentIds : a = asked[r].of
      BY ReadRow DEF Archive, AgentErrands
    <2>2. PICK row \in AgentRows : Writes(r, row) /\ row.current = asked[r].row.current
      <3>1. asked[r].row \in AgentRows
        BY ReadRow DEF Archive, AgentErrands
      <3>2. /\ [asked[r].row EXCEPT !.archived = TRUE, !.enabled = FALSE] \in AgentRows
            /\ [asked[r].row EXCEPT !.archived = TRUE, !.enabled = FALSE].current = asked[r].row.current
        BY <3>1 DEF AgentRows
      <3> QED
        BY <3>2 DEF Archive
    <2> QED
      BY <2>1, <2>2, WriteSound DEF Archive, RosterTyped
  <1>2. AskedTyped'
    BY DEF Archive, Writes, Ends, AskedTyped, AgentErrands
  <1>3. HistoryIsSound'
    <2>1. PICK a \in AgentIds : a = asked[r].of
      BY ReadRow DEF Archive, AgentErrands
    <2>2. PICK row \in AgentRows : Writes(r, row) /\ row.current = asked[r].row.current
      <3>1. asked[r].row \in AgentRows
        BY ReadRow DEF Archive, AgentErrands
      <3>2. /\ [asked[r].row EXCEPT !.archived = TRUE, !.enabled = FALSE] \in AgentRows
            /\ [asked[r].row EXCEPT !.archived = TRUE, !.enabled = FALSE].current = asked[r].row.current
        BY <3>1 DEF AgentRows
      <3> QED
        BY <3>2 DEF Archive
    <2>3. \A x \in AgentIds :
            agentRow'[x] = agentRow[x] \/ (x = a /\ agentRow'[x] = row /\ agentRow[x] # Absent)
      <3>1. /\ \A x \in AgentIds : agentRow[x] # Absent <=> agentRow'[x] # Absent
            /\ \A x \in AgentIds : agentRow'[x] = agentRow[x] \/ (x = a /\ agentRow'[x] = row)
        BY <2>1, <2>2, WriteSound
      <3> QED
        BY <3>1
    <2>4. agentRow[a] # Absent => \E d \in Versions(a) : d.version = row.current
      <3>1. agentRow[a] # Absent => project # Absent
        BY DEF NothingIsOrphaned
      <3>2. asked[r].does \in AgentErrands
        BY DEF Archive, AgentErrands
      <3>3. project # Absent => \E d \in Versions(a) : d.version = asked[r].row.current
        BY <2>1, <3>2 DEF StaleRowsAreSound
      <3> QED
        BY <2>2, <3>1, <3>3
    <2> QED
      BY <2>3, <2>4 DEF Archive, HistoryIsSound, Versions
  <1>4. NothingIsOrphaned'
    <2>1. PICK a \in AgentIds : a = asked[r].of
      BY ReadRow DEF Archive, AgentErrands
    <2>2. PICK row \in AgentRows : Writes(r, row) /\ row.current = asked[r].row.current
      <3>1. asked[r].row \in AgentRows
        BY ReadRow DEF Archive, AgentErrands
      <3>2. /\ [asked[r].row EXCEPT !.archived = TRUE, !.enabled = FALSE] \in AgentRows
            /\ [asked[r].row EXCEPT !.archived = TRUE, !.enabled = FALSE].current = asked[r].row.current
        BY <3>1 DEF AgentRows
      <3> QED
        BY <3>2 DEF Archive
    <2>3. \A x \in AgentIds : agentRow[x] # Absent <=> agentRow'[x] # Absent
      BY <2>1, <2>2, WriteSound
    <2> QED
      BY <2>3 DEF Archive, NothingIsOrphaned, Versions, RosterTyped, RunRows
  <1>5. NamesDiffer'
    <2>1. PICK a \in AgentIds : a = asked[r].of
      BY ReadRow DEF Archive, AgentErrands
    <2>2. PICK row \in AgentRows : Writes(r, row) /\ row.current = asked[r].row.current
      <3>1. asked[r].row \in AgentRows
        BY ReadRow DEF Archive, AgentErrands
      <3>2. /\ [asked[r].row EXCEPT !.archived = TRUE, !.enabled = FALSE] \in AgentRows
            /\ [asked[r].row EXCEPT !.archived = TRUE, !.enabled = FALSE].current = asked[r].row.current
        BY <3>1 DEF AgentRows
      <3> QED
        BY <3>2 DEF Archive
    <2> QED
      BY <2>1, <2>2, WriteSound
  <1>6. StaleRowsAreSound'
    BY DEF Archive, Writes, Ends, StaleRowsAreSound, Versions, RosterTyped, AskedTyped,
       AgentErrands
  <1> QED
    BY <1>1, <1>2, <1>3, <1>4, <1>5, <1>6

\* A directive is saved.
LEMMA SaveDirectiveKeeps ==
  ASSUME RosterInv, NEW r \in Clerks, NEW b \in Bodies, SaveDirective(r, b)
  PROVE  RosterInv'
  <1> USE DEF RosterInv, RosterTypeOK
  <1>1. RosterTyped'
    <2>1. PICK a \in AgentIds : a = asked[r].of
      BY ReadRow DEF SaveDirective, AgentErrands
    <2>2. asked[r].row \in AgentRows
      BY ReadRow DEF SaveDirective, AgentErrands
    <2>3. CASE UNCHANGED <<agentRow, directives>>
      BY <2>3 DEF SaveDirective, RosterTyped
    <2>4. ASSUME ~UNCHANGED <<agentRow, directives>>
          PROVE  /\ Writes(r, [asked[r].row EXCEPT !.current = @ + 1])
                 /\ [asked[r].row EXCEPT !.current = @ + 1] \in AgentRows
                 /\ directives' = directives \cup
                      {[of |-> a, version |-> asked[r].row.current + 1, body |-> b]}
                 /\ asked[r].row.current + 1 \in Nat /\ agentRow[a] # Absent
      <3>1. asked[r].row.current + 1 \in Nat
        BY <2>2 DEF AgentRows
      <3>2. [asked[r].row EXCEPT !.current = asked[r].row.current + 1] \in AgentRows
        BY <2>2, <3>1 DEF AgentRows
      <3>3. /\ Writes(r, [asked[r].row EXCEPT !.current = asked[r].row.current + 1])
            /\ directives' = directives \cup
                 {[of |-> a, version |-> asked[r].row.current + 1, body |-> b]}
            /\ agentRow[a] # Absent
        BY <2>1, <2>4 DEF SaveDirective, NextVersion
      <3> QED
        BY <3>1, <3>2, <3>3
    <2>5. CASE ~UNCHANGED <<agentRow, directives>>
      <3>1. agentRow' \in [AgentIds -> AgentRows \cup {Absent}]
        <4>1. PICK row \in AgentRows : Writes(r, row)
          BY <2>4, <2>5
        <4> QED
          BY <2>1, <4>1, WriteSound
      <3>2. IsFiniteSet(directives')
        <4>1. PICK d : directives' = directives \cup {d}
          BY <2>4, <2>5
        <4>2. IsFiniteSet(directives)
          BY DEF RosterTyped
        <4> QED
          BY <4>1, <4>2, FS_AddElement
      <3>3. directives' \subseteq [of : AgentIds, version : Nat, body : Bodies]
        <4>1. asked[r].row.current + 1 \in Nat /\ directives' = directives \cup
                {[of |-> a, version |-> asked[r].row.current + 1, body |-> b]}
          BY <2>4, <2>5
        <4>2. [of |-> a, version |-> asked[r].row.current + 1, body |-> b] \in
                [of : AgentIds, version : Nat, body : Bodies]
          BY <4>1
        <4> QED
          BY <4>1, <4>2 DEF RosterTyped
      <3> QED
        BY <3>1, <3>2, <3>3 DEF SaveDirective, RosterTyped
    <2> QED
      BY <2>3, <2>5
  <1>2. AskedTyped'
    BY DEF SaveDirective, Writes, Ends, NextVersion, AskedTyped, AgentErrands
  <1>3. HistoryIsSound'
    <2>1. PICK of \in AgentIds : of = asked[r].of
      BY ReadRow DEF SaveDirective, AgentErrands
    <2> DEFINE n  == asked[r].row.current + 1
               d0 == [of |-> of, version |-> n, body |-> b]
    <2>2. CASE UNCHANGED <<agentRow, directives>>
      BY <2>2 DEF HistoryIsSound, Versions
    <2>3. CASE ~UNCHANGED <<agentRow, directives>>
      <3>1. /\ of \in AgentIds /\ n \in Nat /\ asked[r].row.current \in Nat
            /\ asked[r].does = "save" /\ asked[r].row \in AgentRows
        BY <2>1, ReadRow DEF SaveDirective, AgentErrands, AgentRows
      <3>2. /\ agentRow[of] # Absent /\ \A d \in Versions(of) : d.version # n
            /\ [of |-> of, version |-> asked[r].row.current, body |-> b] \notin directives
            /\ directives' = directives \cup {d0}
        BY <2>1, <2>3 DEF SaveDirective, NextVersion
      <3>3. \A a \in AgentIds : agentRow'[a] # Absent =>
              \/ agentRow'[a] = agentRow[a]
              \/ a = of /\ agentRow'[a].current = n
        BY <2>1, <2>3, <3>1, WriteSound DEF SaveDirective, NextVersion, AgentRows
      <3>4. \E d \in Versions(of) : d.version = asked[r].row.current
        BY <2>1, <3>1, <3>2 DEF StaleRowsAreSound, AgentErrands, NothingIsOrphaned
      <3> DEFINE k == Cardinality(Versions(of))
      <3>5. IsFiniteSet(Versions(of)) /\ k \in Nat
        BY FS_Subset, FS_CardinalityType DEF Versions, RosterTyped
      <3>6. asked[r].row.current = k
        BY <3>1, <3>2, <3>4, <3>5 DEF HistoryIsSound
      <3>7. Versions(of)' = Versions(of) \cup {d0} /\ d0 \notin Versions(of)
        BY <3>2 DEF Versions
      <3>8. Cardinality(Versions(of)') = k + 1
        BY <3>5, <3>7, FS_AddElement
      <3>9. \A a \in AgentIds \ {of} : Versions(a)' = Versions(a)
        BY <3>2 DEF Versions
      <3> SUFFICES ASSUME NEW a \in AgentIds
                   PROVE  /\ {d.version : d \in Versions(a)'} = 1..Cardinality(Versions(a)')
                          /\ \A d, e \in Versions(a)' : d.version = e.version + 1 => d.body # e.body
                          /\ agentRow'[a] # Absent => \E d \in Versions(a)' : d.version = agentRow'[a].current
        BY DEF HistoryIsSound
      <3>10. CASE a # of
        BY <3>3, <3>9, <3>10 DEF HistoryIsSound
      <3>11. CASE a = of
        <4>1. {d.version : d \in Versions(a)'} = (1..k) \cup {k + 1}
          BY <3>6, <3>7, <3>11 DEF HistoryIsSound
        <4>2. (1..k) \cup {k + 1} = 1..(k + 1)
          BY <3>5
        <4>3. \A d, e \in Versions(a)' : d.version = e.version + 1 => d.body # e.body
          <5> SUFFICES ASSUME NEW d \in Versions(a)', NEW e \in Versions(a)', d.version = e.version + 1
                       PROVE  d.body # e.body
            OBVIOUS
          <5>1. \A v \in Versions(of) : v.version \in 1..k
            BY DEF HistoryIsSound, Versions, RosterTyped
          <5>2. CASE d = d0
            BY <3>1, <3>2, <3>5, <3>6, <3>7, <3>11, <5>1, <5>2 DEF Versions, RosterTyped
          <5>3. CASE d \in Versions(of)
            BY <3>5, <3>6, <3>7, <3>11, <5>1, <5>3 DEF HistoryIsSound
          <5> QED
            BY <3>7, <3>11, <5>2, <5>3
        <4>4. agentRow'[a] # Absent => \E d \in Versions(a)' : d.version = agentRow'[a].current
          BY <3>3, <3>7, <3>11 DEF HistoryIsSound
        <4> QED
          BY <3>8, <3>11, <4>1, <4>2, <4>3, <4>4
      <3> QED
        BY <3>10, <3>11
    <2> QED
      BY <2>2, <2>3
  <1>4. NothingIsOrphaned'
    <2>1. PICK a \in AgentIds : a = asked[r].of
      BY ReadRow DEF SaveDirective, AgentErrands
    <2>2. asked[r].row \in AgentRows
      BY ReadRow DEF SaveDirective, AgentErrands
    <2>3. CASE UNCHANGED <<agentRow, directives>>
      BY <2>3 DEF SaveDirective, NothingIsOrphaned, Versions
    <2>4. ASSUME ~UNCHANGED <<agentRow, directives>>
          PROVE  /\ Writes(r, [asked[r].row EXCEPT !.current = @ + 1])
                 /\ [asked[r].row EXCEPT !.current = @ + 1] \in AgentRows
                 /\ directives' = directives \cup
                      {[of |-> a, version |-> asked[r].row.current + 1, body |-> b]}
                 /\ asked[r].row.current + 1 \in Nat /\ agentRow[a] # Absent
      BY <2>1, <2>2, <2>4 DEF SaveDirective, NextVersion, AgentRows
    <2>5. CASE ~UNCHANGED <<agentRow, directives>>
      <3>1. \A x \in AgentIds : agentRow[x] # Absent <=> agentRow'[x] # Absent
        <4>1. PICK row \in AgentRows : Writes(r, row)
          BY <2>4, <2>5
        <4> QED
          BY <2>1, <4>1, WriteSound
      <3>2. directives \subseteq directives'
        BY <2>4, <2>5
      <3>3. \A d \in directives' : d.of \in AgentIds /\ agentRow'[d.of] # Absent
        BY <2>1, <2>4, <2>5, <3>1 DEF NothingIsOrphaned, RosterTyped
      <3> QED
        BY <3>1, <3>2, <3>3 DEF SaveDirective, NothingIsOrphaned, Versions, RosterTyped, RunRows
    <2> QED
      BY <2>3, <2>5
  <1>5. NamesDiffer'
    <2>1. PICK a \in AgentIds : a = asked[r].of
      BY ReadRow DEF SaveDirective, AgentErrands
    <2>2. asked[r].row \in AgentRows
      BY ReadRow DEF SaveDirective, AgentErrands
    <2>3. CASE UNCHANGED <<agentRow, directives>>
      BY <2>3 DEF SaveDirective, NamesDiffer
    <2>4. ASSUME ~UNCHANGED <<agentRow, directives>>
          PROVE  /\ Writes(r, [asked[r].row EXCEPT !.current = @ + 1])
                 /\ [asked[r].row EXCEPT !.current = @ + 1] \in AgentRows
                 /\ directives' = directives \cup
                      {[of |-> a, version |-> asked[r].row.current + 1, body |-> b]}
                 /\ asked[r].row.current + 1 \in Nat /\ agentRow[a] # Absent
      BY <2>1, <2>2, <2>4 DEF SaveDirective, NextVersion, AgentRows
    <2> QED
      BY <2>1, <2>3, <2>4, WriteSound
  <1>6. StaleRowsAreSound'
    BY DEF SaveDirective, Writes, Ends, NextVersion, StaleRowsAreSound, Versions, RosterTyped,
       AskedTyped, AgentErrands
  <1> QED
    BY <1>1, <1>2, <1>3, <1>4, <1>5, <1>6

\* A request reads the project's row.
LEMMA ReadProjectKeeps ==
  ASSUME RosterInv, NEW r \in Clerks, ReadProject(r)
  PROVE  RosterInv'
  <1> USE DEF RosterInv, RosterTypeOK
  <1>1. AskedTyped'
    BY DEF ReadProject, Errand, AskedTyped, AgentErrands, RosterTyped
  <1>2. StaleRowsAreSound'
    BY DEF ReadProject, Errand, StaleRowsAreSound, Versions, RosterTyped, AskedTyped,
       AgentErrands
  <1>3. RosterTyped' /\ HistoryIsSound' /\ NothingIsOrphaned' /\ NamesDiffer'
    BY ReadingKeeps DEF ReadProject
  <1> QED
    BY <1>1, <1>2, <1>3

\* And writes it.
LEMMA UpdateProjectKeeps ==
  ASSUME RosterInv, NEW r \in Clerks, UpdateProject(r)
  PROVE  RosterInv'
  <1> USE DEF RosterInv, RosterTypeOK
  <1>1. RosterTyped'
    BY DEF UpdateProject, Ends, RosterTyped, AskedTyped, AgentErrands, AgentRows, ProjectRows,
       RunRows
  <1>2. AskedTyped'
    BY DEF UpdateProject, Ends, AskedTyped, AgentErrands
  <1>3. NothingIsOrphaned'
    <2>1. project' = Absent => project = Absent
      <3> SUFFICES ASSUME project # Absent
                   PROVE  project' # Absent
        OBVIOUS
      <3>1. asked[r].row \in ProjectRows
        BY DEF UpdateProject, AskedTyped, AgentErrands
      <3>2. project' \in ProjectRows
        BY <3>1 DEF UpdateProject, ProjectRows
      <3>3. Absent \notin ProjectRows
        BY RosterAssumption
      <3> QED
        BY <3>2, <3>3
    <2> QED
      BY <2>1 DEF UpdateProject, NothingIsOrphaned, Versions
  <1>4. StaleRowsAreSound'
    BY DEF UpdateProject, Ends, StaleRowsAreSound, Versions, RosterTyped, AskedTyped,
       AgentErrands
  <1>5. HistoryIsSound' /\ NamesDiffer'
    <2>1. agentRow' = agentRow /\ directives' = directives
      BY DEF UpdateProject, Ends
    <2>2. HistoryIsSound /\ NamesDiffer
      OBVIOUS
    <2>3. HistoryIsSound'
      <3>1. \A a \in AgentIds : Versions(a)' = Versions(a)
        BY <2>1 DEF Versions
      <3>2. HistoryIsSound
        BY <2>2
      <3> QED
        BY <2>1, <3>1, <3>2 DEF HistoryIsSound
    <2>4. NamesDiffer'
      BY <2>1, <2>2 DEF NamesDiffer
    <2> QED
      BY <2>3, <2>4
  <1> QED
    BY <1>1, <1>2, <1>3, <1>4, <1>5

\* The project is asked to be deleted.
LEMMA AskDeleteProjectKeeps ==
  ASSUME RosterInv, NEW r \in Clerks, AskDeleteProject(r)
  PROVE  RosterInv'
  <1> USE DEF RosterInv, RosterTypeOK
  <1>1. AskedTyped'
    BY DEF AskDeleteProject, Errand, AskedTyped, AgentErrands
  <1>2. StaleRowsAreSound'
    BY DEF AskDeleteProject, Errand, StaleRowsAreSound, Versions, RosterTyped, AskedTyped,
       AgentErrands
  <1>3. RosterTyped' /\ HistoryIsSound' /\ NothingIsOrphaned' /\ NamesDiffer'
    BY ReadingKeeps DEF AskDeleteProject
  <1> QED
    BY <1>1, <1>2, <1>3

\* And is, in one transaction.
LEMMA DeleteProjectKeeps ==
  ASSUME RosterInv, NEW r \in Clerks, DeleteProject(r)
  PROVE  RosterInv'
  <1> USE DEF RosterInv, RosterTypeOK
  <1>1. RosterTyped'
    BY FS_EmptySet DEF DeleteProject, Cascade, Ends, RosterTyped, ProjectRows
  <1>2. AskedTyped'
    BY DEF DeleteProject, Cascade, Ends, AskedTyped, AgentErrands
  <1>3. HistoryIsSound'
    <2>1. CASE project # Absent
      <3>1. \A a \in AgentIds : agentRow'[a] = Absent /\ Versions(a)' = {}
        BY <2>1 DEF DeleteProject, Cascade, Versions
      <3>2. Cardinality({}) = 0 /\ 1..0 = {}
        BY FS_EmptySet
      <3> QED
        BY <3>1, <3>2 DEF HistoryIsSound
    <2>2. CASE project = Absent
      <3>1. UNCHANGED <<agentRow, directives>>
        BY <2>2 DEF DeleteProject, Cascade
      <3>2. \A a \in AgentIds : Versions(a)' = Versions(a)
        BY <3>1 DEF Versions
      <3>3. HistoryIsSound
        OBVIOUS
      <3> QED
        BY <3>1, <3>2, <3>3 DEF HistoryIsSound
    <2> QED
      BY <2>1, <2>2
  <1>4. NothingIsOrphaned'
    BY DEF DeleteProject, Cascade, Ends, NothingIsOrphaned, Versions
  <1>5. NamesDiffer'
    BY DEF DeleteProject, Cascade, Ends, NamesDiffer, Named
  <1>6. StaleRowsAreSound'
    BY DEF DeleteProject, Cascade, Ends, StaleRowsAreSound, Versions
  <1> QED
    BY <1>1, <1>2, <1>3, <1>4, <1>5, <1>6

\* A run's agent is read.
LEMMA ReadForRunKeeps ==
  ASSUME RosterInv, NEW r \in Clerks, NEW a \in AgentIds, ReadForRun(r, a)
  PROVE  RosterInv'
  <1> USE DEF RosterInv, RosterTypeOK
  <1>1. AskedTyped'
    BY DEF ReadForRun, Errand, AskedTyped, AgentErrands, RosterTyped
  <1>2. StaleRowsAreSound'
    BY DEF ReadForRun, Errand, StaleRowsAreSound, Versions, RosterTyped, AskedTyped,
       AgentErrands, HistoryIsSound
  <1>3. RosterTyped' /\ HistoryIsSound' /\ NothingIsOrphaned' /\ NamesDiffer'
    BY ReadingKeeps DEF ReadForRun
  <1> QED
    BY <1>1, <1>2, <1>3

\* The run is inserted.
LEMMA EnqueueRowKeeps ==
  ASSUME RosterInv, NEW r \in Clerks, NEW k \in RunIds, EnqueueRow(r, k)
  PROVE  RosterInv'
  <1> USE DEF RosterInv, RosterTypeOK
  <1>1. RosterTyped'
    BY DEF EnqueueRow, Ends, RosterTyped, AskedTyped, AgentErrands, AgentRows, ProjectRows,
       RunRows
  <1>2. AskedTyped'
    BY DEF EnqueueRow, Ends, AskedTyped, AgentErrands
  <1>3. NothingIsOrphaned'
    BY RosterAssumption DEF EnqueueRow, Ends, NothingIsOrphaned, Versions, RosterTyped,
       AgentRows, AskedTyped, AgentErrands, RunRows, StaleRowsAreSound
  <1>4. StaleRowsAreSound'
    BY DEF EnqueueRow, Ends, StaleRowsAreSound, Versions, RosterTyped, AskedTyped, AgentErrands
  <1>5. HistoryIsSound' /\ NamesDiffer'
    <2>1. agentRow' = agentRow /\ directives' = directives
      BY DEF EnqueueRow, Ends
    <2>2. HistoryIsSound /\ NamesDiffer
      OBVIOUS
    <2>3. HistoryIsSound'
      <3>1. \A a \in AgentIds : Versions(a)' = Versions(a)
        BY <2>1 DEF Versions
      <3>2. HistoryIsSound
        BY <2>2
      <3> QED
        BY <2>1, <3>1, <3>2 DEF HistoryIsSound
    <2>4. NamesDiffer'
      BY <2>1, <2>2 DEF NamesDiffer
    <2> QED
      BY <2>3, <2>4
  <1> QED
    BY <1>1, <1>2, <1>3, <1>4, <1>5

\* A run ends.
LEMMA RunEndedKeeps ==
  ASSUME RosterInv, NEW k \in RunIds, RunEnded(k)
  PROVE  RosterInv'
  <1> USE DEF RosterInv, RosterTypeOK
  <1>1. RosterTyped'
    <2>1. runsOf[k] \in RunRows /\ runsOf' = [runsOf EXCEPT ![k] = [runsOf[k] EXCEPT !.active = FALSE]]
          /\ UNCHANGED <<project, agentRow, directives>>
      BY DEF RunEnded, ActiveOfProject, RosterTyped
    <2>2. [runsOf[k] EXCEPT !.active = FALSE] \in RunRows
      BY <2>1 DEF RunRows
    <2> QED
      BY <2>1, <2>2 DEF RosterTyped
  <1>2. NothingIsOrphaned'
    BY DEF RunEnded, ActiveOfProject, NothingIsOrphaned, Versions
  <1>3. project' = project /\ agentRow' = agentRow /\ directives' = directives /\ asked' = asked
    BY DEF RunEnded
  <1>4. AskedTyped' /\ NamesDiffer'
    BY <1>3 DEF AskedTyped, NamesDiffer
  <1>5. \A a \in AgentIds : Versions(a)' = Versions(a)
    BY <1>3 DEF Versions
  <1>6. HistoryIsSound'
    <2>1. HistoryIsSound
      OBVIOUS
    <2> QED
      BY <1>3, <1>5, <2>1 DEF HistoryIsSound
  <1>7. StaleRowsAreSound'
    <2>1. StaleRowsAreSound
      OBVIOUS
    <2> QED
      BY <1>3, <2>1 DEF StaleRowsAreSound, Versions
  <1> QED
    BY <1>1, <1>2, <1>4, <1>6, <1>7

\* A project with one agent and its first directive, and requests not yet made.
LEMMA RosterStart == RosterInit => RosterInv
  <1> SUFFICES ASSUME RosterInit
               PROVE  RosterInv
    OBVIOUS
  <1>1. PICK n \in RosterNames, b \in Bodies :
          /\ agentRow = [a \in AgentIds |-> IF a = FirstAgent
               THEN [name |-> n, enabled |-> TRUE, archived |-> FALSE, current |-> 1] ELSE Absent]
          /\ directives = {[of |-> FirstAgent, version |-> 1, body |-> b]}
    BY DEF RosterInit
  <1> DEFINE d0 == [of |-> FirstAgent, version |-> 1, body |-> b]
  <1>2. IsFiniteSet(directives) /\ Cardinality({d0}) = 1 /\ Cardinality({}) = 0
    BY <1>1, FS_Singleton, FS_EmptySet
  <1>3. [name |-> n, enabled |-> TRUE, archived |-> FALSE, current |-> 1] \in AgentRows
    BY DEF AgentRows
  <1>4. RosterTypeOK
    <2>1. directives \subseteq [of : AgentIds, version : Nat, body : Bodies]
      BY <1>1, RosterAssumption
    <2>2. agentRow \in [AgentIds -> AgentRows \cup {Absent}]
      BY <1>1, <1>3
    <2>3. project \in ProjectRows /\ runsOf \in [RunIds -> RunRows \cup {Absent}]
      BY DEF RosterInit, ProjectRows
    <2>4. AskedTyped
      BY DEF RosterInit, AskedTyped
    <2> QED
      BY <1>2, <2>1, <2>2, <2>3, <2>4 DEF RosterTypeOK, RosterTyped
  <1>5. Versions(FirstAgent) = {d0} /\ \A a \in AgentIds \ {FirstAgent} : Versions(a) = {}
    BY <1>1 DEF Versions
  <1>6. HistoryIsSound
    <2> SUFFICES ASSUME NEW a \in AgentIds
                 PROVE  /\ {d.version : d \in Versions(a)} = 1..Cardinality(Versions(a))
                        /\ \A d, e \in Versions(a) : d.version = e.version + 1 => d.body # e.body
                        /\ agentRow[a] # Absent => \E d \in Versions(a) : d.version = agentRow[a].current
      BY DEF HistoryIsSound
    <2>1. CASE a = FirstAgent
      <3>1. Versions(a) = {d0} /\ Cardinality(Versions(a)) = 1 /\ agentRow[a].current = 1
        BY <1>1, <1>2, <1>5, <2>1
      <3>2. {d.version : d \in {d0}} = 1..1 /\ d0.version = 1
        OBVIOUS
      <3> QED
        BY <3>1, <3>2
    <2>2. CASE a # FirstAgent
      <3>1. Versions(a) = {} /\ Cardinality(Versions(a)) = 0 /\ agentRow[a] = Absent
        BY <1>1, <1>2, <1>5, <2>2
      <3> QED
        BY <3>1
    <2> QED
      BY <2>1, <2>2
  <1>7. NothingIsOrphaned
    <2>1. project \in ProjectRows /\ Absent \notin ProjectRows /\ Absent \notin AgentRows
      BY RosterAssumption DEF RosterInit, ProjectRows
    <2>2. project # Absent /\ FirstAgent \in AgentIds
      BY <2>1, RosterAssumption
    <2>3. agentRow[FirstAgent] \in AgentRows
      BY <1>1, <1>3, <2>2
    <2>4. agentRow[FirstAgent] # Absent
      BY <2>1, <2>3
    <2>5. \A d \in directives : d.of = FirstAgent
      BY <1>1
    <2>6. \A k \in RunIds : runsOf[k] = Absent
      BY DEF RosterInit
    <2> QED
      BY <2>2, <2>4, <2>5, <2>6 DEF NothingIsOrphaned
  <1>8. NamesDiffer
    BY <1>1 DEF NamesDiffer
  <1>9. StaleRowsAreSound
    BY DEF RosterInit, StaleRowsAreSound, AgentErrands
  <1> QED
    BY <1>4, <1>6, <1>7, <1>8, <1>9 DEF RosterInv

\* Every request, with the rows it read however long ago, keeps the invariant.
LEMMA RosterStep == RosterInv /\ [RosterNext]_rosterVars => RosterInv'
  <1> SUFFICES ASSUME RosterInv, [RosterNext]_rosterVars
               PROVE  RosterInv'
    OBVIOUS
  <1>1. CASE RosterNext
    BY <1>1, CreateAgentKeeps, AskStarterKeeps, StarterKeeps, ReadAgentKeeps, UpdateAgentKeeps,
       ArchiveKeeps, SaveDirectiveKeeps, ReadProjectKeeps, UpdateProjectKeeps,
       AskDeleteProjectKeeps, DeleteProjectKeeps, ReadForRunKeeps, EnqueueRowKeeps, RunEndedKeeps
       DEF RosterNext
  <1>2. CASE UNCHANGED rosterVars
    BY <1>2 DEF rosterVars, RosterInv, RosterTypeOK, RosterTyped, AskedTyped, HistoryIsSound,
       Versions, NothingIsOrphaned, NamesDiffer, StaleRowsAreSound
  <1> QED
    BY <1>1, <1>2

\* Whoever patches, archives, saves, deletes and enqueues at once, with rows read before: a
\* directive's versions have no gap and no empty diff, agents and runs name versions that are
\* there, nothing outlives the project, and no name is given twice (agents and projects
\* services, projectdelete.go).
THEOREM RosterInvariant == RosterSpec => []RosterInv
  <1> QED
    BY RosterStart, RosterStep, PTL DEF RosterSpec

------------------------------------------------------------------------------
(* Approvals: what the tool server decides.                                  *)

\* A set of numbers that is not empty has a least one.
LEMMA LeastOf ==
  ASSUME NEW S, S \subseteq Nat, S # {}
  PROVE  \E i \in S : \A j \in S : i <= j
  <1>1. PICK i \in S : \A j \in S : ~ (<<j, i>> \in OpToRel(<, Nat))
    BY NatLessThanWellFounded, WFMin
  <1>2. \A j \in S : ~(j < i)
    BY <1>1 DEF OpToRel
  <1> QED
    BY <1>2

\* The first of the rules that match is the one none before it does.
LEMMA FirstIsFirst ==
  ASSUME NEW rs \in Seq(Rules), NEW t \in Tools
  PROVE  \/ FirstRule(rs, t) = 0 /\ \A i \in DOMAIN rs : t \notin rs[i].covers
         \/ /\ FirstRule(rs, t) \in DOMAIN rs /\ t \in rs[FirstRule(rs, t)].covers
            /\ \A i \in DOMAIN rs :
                 t \in rs[i].covers /\ (\A j \in 1..(i - 1) : t \notin rs[j].covers) =>
                   i = FirstRule(rs, t)
  <1> DEFINE matching == {i \in DOMAIN rs : RuleMatches(rs[i], t)}
  <1>1. CASE matching = {}
    BY <1>1 DEF FirstRule, RuleMatches
  <1>2. CASE matching # {}
    <2>1. matching \subseteq Nat
      OBVIOUS
    <2>2. \E i \in matching : \A j \in matching : i <= j
      BY <1>2, <2>1, LeastOf
    <2>3. /\ FirstRule(rs, t) \in matching
          /\ \A j \in matching : FirstRule(rs, t) <= j
      BY <1>2, <2>2 DEF FirstRule
    <2>4. FirstRule(rs, t) \in DOMAIN rs /\ t \in rs[FirstRule(rs, t)].covers
      BY <2>3 DEF RuleMatches
    <2>5. ASSUME NEW i \in DOMAIN rs, t \in rs[i].covers, \A j \in 1..(i - 1) : t \notin rs[j].covers
          PROVE  i = FirstRule(rs, t)
      <3>1. FirstRule(rs, t) <= i
        BY <2>3, <2>5 DEF RuleMatches
      <3>2. ~(FirstRule(rs, t) < i)
        BY <2>4, <2>5
      <3> QED
        BY <2>4, <3>1, <3>2
    <2> QED
      BY <2>4, <2>5
  <1> QED
    BY <1>1, <1>2

\* What a request decides: by the first rule if there is one, by the autonomy level otherwise.
LEMMA Decided ==
  ASSUME RulesTyped, NEW t \in Tools
  PROVE  LET d == Approval(rules, t) IN
         /\ d.outcome \in {"allow", "deny", "park"} /\ d.why \in {"rule", "autonomy"}
         /\ \A i \in DOMAIN rules :
              t \in rules[i].covers /\ (\A j \in 1..(i - 1) : t \notin rules[j].covers) =>
                IF rules[i].decision = "ask" THEN d.outcome = "park" ELSE d.outcome = rules[i].decision
         /\ d.outcome = "allow" /\ d.why = "autonomy" =>
              \/ autonomy = "auto_gates" /\ t \notin Destructive
              \/ autonomy = "auto" /\ t \in Granted
  <1>1. /\ ByAutonomy(t).outcome \in {"allow", "deny", "park"} /\ ByAutonomy(t).why = "autonomy"
        /\ ByAutonomy(t).outcome = "allow" =>
              \/ autonomy = "auto_gates" /\ t \notin Destructive
              \/ autonomy = "auto" /\ t \in Granted
    BY DEF ByAutonomy, Decide
  <1> DEFINE i0 == FirstRule(rules, t)
  <1>2. CASE i0 = 0
    <2>1. \A i \in DOMAIN rules : t \notin rules[i].covers
      BY <1>2, FirstIsFirst DEF RulesTyped
    <2>2. Approval(rules, t) = ByAutonomy(t)
      BY <1>2 DEF Approval
    <2> QED
      BY <1>1, <2>1, <2>2
  <1>3. CASE i0 # 0
    <2>1. /\ i0 \in DOMAIN rules
          /\ \A i \in DOMAIN rules :
               t \in rules[i].covers /\ (\A j \in 1..(i - 1) : t \notin rules[j].covers) => i = i0
      BY <1>3, FirstIsFirst DEF RulesTyped
    <2>2. rules[i0].decision \in {"allow", "deny", "ask"}
      <3>1. rules[i0] \in Rules
        BY <2>1 DEF RulesTyped
      <3> QED
        BY <3>1 DEF Rules
    <2>3. Approval(rules, t) = IF rules[i0].decision = "ask" THEN [outcome |-> "park", why |-> "rule"]
                               ELSE [outcome |-> rules[i0].decision, why |-> "rule"]
      BY <1>3 DEF Approval, Decide
    <2> QED
      BY <2>1, <2>2, <2>3
  <1> QED
    BY <1>2, <1>3

\* And what it leaves: a call that is decided, or parked on a pending card of its tool.
LEMMA Requested ==
  ASSUME PolicyHolds, NEW c \in Calls, NEW t \in Tools, RequestApproval(c, t)
  PROVE  /\ \E verdict \in [pc : {"parked", "done"}, tool : {t}, seen : {rules},
                   outcome : {"none", "allow", "deny"}, by : {"none", "rule", "autonomy"}, card : Nat] :
              /\ calls' = [calls EXCEPT ![c] = verdict]
              /\ \A i \in DOMAIN rules :
                   t \in rules[i].covers /\ (\A j \in 1..(i - 1) : t \notin rules[j].covers) =>
                     IF rules[i].decision = "ask" THEN verdict.by = "none"
                     ELSE verdict.outcome = rules[i].decision
              /\ verdict.outcome = "allow" /\ verdict.by = "autonomy" =>
                   \/ autonomy = "auto_gates" /\ t \notin Destructive
                   \/ autonomy = "auto" /\ t \in Granted
              /\ verdict.pc = "parked" => /\ verdict.outcome = "none" /\ verdict.by = "none"
                                       /\ verdict.card \in DOMAIN cards' /\ cards'[verdict.card].tool = t
         /\ cards' \in Seq(CardRows) /\ DOMAIN cards \subseteq DOMAIN cards'
         /\ \A j \in DOMAIN cards : cards'[j] = cards[j]
         /\ \A j \in DOMAIN cards' \ DOMAIN cards : cards'[j].state = "pending"
  <1> USE DEF PolicyHolds, ApprovalsTypeOK
  <1> DEFINE d == Approval(rules, t)
             k == IF Unanswered(t, d.why) # {} THEN CHOOSE j \in Unanswered(t, d.why) : TRUE
                  ELSE Len(cards) + 1
             new == [tool |-> t, why |-> d.why, state |-> "pending", answer |-> "none", given |-> "none"]
  <1>1. /\ d.outcome \in {"allow", "deny", "park"} /\ d.why \in {"rule", "autonomy"}
        /\ \A i \in DOMAIN rules :
             t \in rules[i].covers /\ (\A j \in 1..(i - 1) : t \notin rules[j].covers) =>
               IF rules[i].decision = "ask" THEN d.outcome = "park" ELSE d.outcome = rules[i].decision
        /\ d.outcome = "allow" /\ d.why = "autonomy" =>
             \/ autonomy = "auto_gates" /\ t \notin Destructive
             \/ autonomy = "auto" /\ t \in Granted
    BY Decided
  <1>2. cards \in Seq(CardRows) /\ Len(cards) \in Nat /\ DOMAIN cards = 1..Len(cards)
    BY DEF CardsTyped, CardRows
  <1> HIDE DEF d
  <1>3. CASE d.outcome # "park"
    <2> DEFINE verdict == [pc |-> "done", tool |-> t, seen |-> rules, outcome |-> d.outcome, by |-> d.why, card |-> 0]
    <2>1. calls' = [calls EXCEPT ![c] = verdict] /\ cards' = cards
      BY <1>3 DEF RequestApproval, d
    <2>2. verdict \in [pc : {"parked", "done"}, tool : {t}, seen : {rules},
                   outcome : {"none", "allow", "deny"}, by : {"none", "rule", "autonomy"}, card : Nat]
      BY <1>1, <1>3
    <2>3. \A i \in DOMAIN rules :
            t \in rules[i].covers /\ (\A j \in 1..(i - 1) : t \notin rules[j].covers) =>
              IF rules[i].decision = "ask" THEN verdict.by = "none" ELSE verdict.outcome = rules[i].decision
      BY <1>1, <1>3
    <2> QED
      BY <1>1, <1>2, <2>1, <2>2, <2>3
  <1>4. CASE d.outcome = "park"
    <2> DEFINE verdict == [pc |-> "parked", tool |-> t, seen |-> rules, outcome |-> "none", by |-> "none", card |-> k]
    <2>1. /\ calls' = [calls EXCEPT ![c] = verdict]
          /\ cards' = IF k <= Len(cards) THEN cards ELSE Append(cards, new)
      BY <1>4 DEF RequestApproval, d
    <2>2. \/ k \in DOMAIN cards /\ cards[k].tool = t /\ cards' = cards
          \/ k = Len(cards) + 1 /\ cards' = Append(cards, new)
      <3>1. CASE Unanswered(t, d.why) # {}
        <4>1. k \in Unanswered(t, d.why)
          BY <3>1
        <4>2. k \in DOMAIN cards /\ cards[k].tool = t
          BY <4>1 DEF Unanswered
        <4>3. cards' = IF k <= Len(cards) THEN cards ELSE Append(cards, new)
          BY <2>1
        <4> HIDE DEF k, new, verdict
        <4> QED
          <5>1. k <= Len(cards)
            BY <1>2, <4>2
          <5>2. cards' = cards
            BY <4>3, <5>1
          <5> QED
            BY <4>2, <5>2
      <3>2. CASE Unanswered(t, d.why) = {}
        <4>1. k = Len(cards) + 1
          BY <3>2
        <4>3. cards' = IF k <= Len(cards) THEN cards ELSE Append(cards, new)
          BY <2>1
        <4> HIDE DEF k, new, verdict
        <4> QED
          <5>1. ~(k <= Len(cards))
            BY <1>2, <4>1
          <5>2. cards' = Append(cards, new)
            BY <4>3, <5>1
          <5> QED
            BY <4>1, <5>2
      <3> QED
        BY <3>1, <3>2
    <2>3. new \in CardRows
      BY <1>1 DEF CardRows
    <2>4. /\ cards' \in Seq(CardRows) /\ DOMAIN cards \subseteq DOMAIN cards'
          /\ \A j \in DOMAIN cards : cards'[j] = cards[j]
          /\ \A j \in DOMAIN cards' \ DOMAIN cards : cards'[j].state = "pending"
          /\ k \in DOMAIN cards' /\ cards'[k].tool = t /\ k \in Nat
      <3>1. CASE k \in DOMAIN cards /\ cards[k].tool = t /\ cards' = cards
        BY <1>2, <3>1
      <3>2. CASE k = Len(cards) + 1 /\ cards' = Append(cards, new)
        <4>1. /\ cards' \in Seq(CardRows) /\ Len(cards') = Len(cards) + 1
              /\ \A j \in 1..Len(cards) : cards'[j] = cards[j]
              /\ cards'[Len(cards) + 1] = new
          BY <1>2, <2>3, <3>2, AppendProperties
        <4> HIDE DEF new
        <4>2. DOMAIN cards' = 1..(Len(cards) + 1)
          BY <4>1
        <4>3. new.tool = t /\ new.state = "pending"
          BY DEF new
        <4> QED
          BY <1>2, <3>2, <4>1, <4>2, <4>3
      <3> QED
        BY <2>2, <3>1, <3>2
    <2>5. verdict \in [pc : {"parked", "done"}, tool : {t}, seen : {rules},
                   outcome : {"none", "allow", "deny"}, by : {"none", "rule", "autonomy"}, card : Nat]
      BY <2>4
    <2>6. \A i \in DOMAIN rules :
            t \in rules[i].covers /\ (\A j \in 1..(i - 1) : t \notin rules[j].covers) =>
              IF rules[i].decision = "ask" THEN verdict.by = "none" ELSE verdict.outcome = rules[i].decision
      <3> SUFFICES ASSUME NEW i \in DOMAIN rules, t \in rules[i].covers,
                          \A j \in 1..(i - 1) : t \notin rules[j].covers, rules[i].decision # "ask"
                   PROVE  FALSE
        OBVIOUS
      <3>1. rules[i].decision \in {"allow", "deny", "ask"}
        <4>1. rules[i] \in Rules
          BY DEF RulesTyped
        <4> QED
          BY <4>1 DEF Rules
      <3> QED
        BY <1>1, <1>4, <3>1
    <2> HIDE DEF k, new
    <2>7. verdict.outcome = "none" /\ verdict.by = "none" /\ verdict.card = k
      OBVIOUS
    <2> HIDE DEF verdict
    <2> QED
      BY <2>1, <2>4, <2>5, <2>6, <2>7
  <1> QED
    BY <1>3, <1>4

\* What a response leaves: the cards as they were, or the one it is for answered.
LEMMA Resolved ==
  ASSUME CardsTyped, NEW h \in Humans, Resolve(h)
  PROVE  /\ cards' \in Seq(CardRows) /\ DOMAIN cards' = DOMAIN cards
         /\ \A k \in DOMAIN cards :
               \/ cards'[k] = cards[k]
               \/ /\ cards[k].state = "pending" /\ cards'[k].state = "answered"
                  /\ cards'[k].tool = cards[k].tool
                  /\ \/ cards'[k].answer = "allow" /\ cards'[k].given \in {"approve", "remember"}
                     \/ cards'[k].answer = "deny" /\ cards'[k].given = "deny"
  <1>1. /\ humans[h].card \in DOMAIN cards /\ humans[h].action \in Replies
    BY DEF Resolve, CardsTyped, NoHuman
  <1>2. cards \in Seq(CardRows) /\ Len(cards) \in Nat /\ DOMAIN cards = 1..Len(cards)
    BY DEF CardsTyped, CardRows
  <1> DEFINE k0  == humans[h].card
             a   == humans[h].action
             was == cards[k0]
             row == [was EXCEPT !.state = "answered", !.answer = IF a = "deny" THEN "deny" ELSE "allow",
                                !.given = a]
  <1>3. CASE was.state # "pending"
    <2>1. cards' = cards
      BY <1>3 DEF Resolve
    <2> QED
      BY <1>2, <2>1
  <1>4. CASE was.state = "pending"
    <2>1. cards' = [cards EXCEPT ![k0] = row]
      BY <1>1, <1>2, <1>4 DEF Resolve
    <2>0. was \in CardRows
      BY <1>1, <1>2
    <2>2. row \in CardRows
      BY <1>1, <2>0 DEF CardRows
    <2>3. /\ row.state = "answered" /\ row.tool = was.tool
          /\ row.answer = IF a = "deny" THEN "deny" ELSE "allow"
          /\ row.given = a
      BY <2>0 DEF CardRows
    <2> HIDE DEF row
    <2>4. cards' \in Seq(CardRows) /\ DOMAIN cards' = DOMAIN cards
      BY <1>1, <1>2, <2>1, <2>2, ExceptSeq
    <2>5. \A k \in DOMAIN cards : cards'[k] = IF k = k0 THEN row ELSE cards[k]
      BY <1>2, <2>1
    <2> QED
      BY <1>1, <1>4, <2>3, <2>4, <2>5 DEF Replies
  <1> QED
    BY <1>3, <1>4

\* A tool asks to be allowed.
LEMMA RequestKeeps ==
  ASSUME PolicyHolds, NEW c \in Calls, NEW t \in Tools, RequestApproval(c, t)
  PROVE  PolicyHolds'
  <1> USE DEF PolicyHolds, ApprovalsTypeOK
  <1>1. ToolCallsTyped'
    <2>1. PICK verdict \in [pc : {"parked", "done"}, tool : {t}, seen : {rules},
                  outcome : {"none", "allow", "deny"}, by : {"none", "rule", "autonomy"}, card : Nat] :
            calls' = [calls EXCEPT ![c] = verdict]
      BY Requested
    <2> QED
      BY <2>1 DEF RulesTyped, ToolCallsTyped
  <1>2. CardsTyped'
    <2>1. /\ cards' \in Seq(CardRows) /\ DOMAIN cards \subseteq DOMAIN cards'
      BY Requested
    <2> QED
      BY <2>1 DEF RequestApproval, CardsTyped, CardRows
  <1>3. EarliestRuleDecides'
    <2>1. PICK verdict \in [pc : {"parked", "done"}, tool : {t}, seen : {rules},
                  outcome : {"none", "allow", "deny"}, by : {"none", "rule", "autonomy"}, card : Nat] :
            /\ calls' = [calls EXCEPT ![c] = verdict]
            /\ \A i \in DOMAIN rules :
                 t \in rules[i].covers /\ (\A j \in 1..(i - 1) : t \notin rules[j].covers) =>
                   IF rules[i].decision = "ask" THEN verdict.by = "none"
                   ELSE verdict.outcome = rules[i].decision
      BY Requested
    <2>2. \A d \in Calls : calls'[d] = IF d = c THEN verdict ELSE calls[d]
      BY <2>1 DEF ToolCallsTyped
    <2> QED
      BY <2>1, <2>2 DEF EarliestRuleDecides
  <1>4. GatesHold'
    <2>1. PICK verdict \in [pc : {"parked", "done"}, tool : {t}, seen : {rules},
                  outcome : {"none", "allow", "deny"}, by : {"none", "rule", "autonomy"}, card : Nat] :
            /\ calls' = [calls EXCEPT ![c] = verdict]
            /\ verdict.outcome = "allow" /\ verdict.by = "autonomy" =>
                 \/ autonomy = "auto_gates" /\ t \notin Destructive
                 \/ autonomy = "auto" /\ t \in Granted
      BY Requested
    <2>2. \A d \in Calls : calls'[d] = IF d = c THEN verdict ELSE calls[d]
      BY <2>1 DEF ToolCallsTyped
    <2> QED
      BY <2>1, <2>2 DEF RequestApproval, GatesHold
  <1>5. AnswerIsForThisTool'
    <2>1. PICK verdict \in [pc : {"parked", "done"}, tool : {t}, seen : {rules},
                  outcome : {"none", "allow", "deny"}, by : {"none", "rule", "autonomy"}, card : Nat] :
            /\ calls' = [calls EXCEPT ![c] = verdict]
            /\ verdict.pc = "parked" => /\ verdict.outcome = "none" /\ verdict.by = "none"
                                     /\ verdict.card \in DOMAIN cards' /\ cards'[verdict.card].tool = t
      BY Requested
    <2>2. \A d \in Calls : calls'[d] = IF d = c THEN verdict ELSE calls[d]
      BY <2>1 DEF ToolCallsTyped
    <2>3. /\ DOMAIN cards \subseteq DOMAIN cards'
          /\ \A j \in DOMAIN cards : cards'[j] = cards[j]
          /\ \A j \in DOMAIN cards' \ DOMAIN cards : cards'[j].state = "pending"
      BY Requested
    <2> QED
      BY <2>1, <2>2, <2>3 DEF AnswerIsForThisTool, CardsBelong
  <1>6. CardsBelong'
    <2>1. PICK verdict \in [pc : {"parked", "done"}, tool : {t}, seen : {rules},
                  outcome : {"none", "allow", "deny"}, by : {"none", "rule", "autonomy"}, card : Nat] :
            /\ calls' = [calls EXCEPT ![c] = verdict]
            /\ verdict.pc = "parked" => /\ verdict.outcome = "none" /\ verdict.by = "none"
                                     /\ verdict.card \in DOMAIN cards' /\ cards'[verdict.card].tool = t
      BY Requested
    <2>2. \A d \in Calls : calls'[d] = IF d = c THEN verdict ELSE calls[d]
      BY <2>1 DEF ToolCallsTyped
    <2>3. /\ DOMAIN cards \subseteq DOMAIN cards'
          /\ \A j \in DOMAIN cards : cards'[j] = cards[j]
          /\ \A j \in DOMAIN cards' \ DOMAIN cards : cards'[j].state = "pending"
      BY Requested
    <2> QED
      BY <2>1, <2>2, <2>3 DEF CardsBelong
  <1>7. RulesTyped'
    BY DEF RequestApproval, RulesTyped
  <1> QED
    BY <1>1, <1>2, <1>3, <1>4, <1>5, <1>6, <1>7

\* What a call that returns tells its caller, and what it leaves alone.
LEMMA ReturnTells ==
  ASSUME PolicyHolds, NEW c \in Calls, Return(c)
  PROVE  /\ calls[c].pc = "parked" /\ calls[c].outcome = "none" /\ calls[c].by = "none"
         /\ calls'[c].pc = "done" /\ calls'[c].by = "human" /\ calls'[c].tool = calls[c].tool
         /\ calls'[c].seen = calls[c].seen /\ calls'[c].card = calls[c].card
         /\ calls'[c].outcome = cards[calls[c].card].answer
         /\ \A d \in Calls : d # c => calls'[d] = calls[d]
  <1> DEFINE old    == calls[c]
             answer == cards[calls[c].card].answer
  <1>1. calls[c].pc = "parked" /\ calls[c].outcome = "none" /\ calls[c].by = "none"
    BY DEF PolicyHolds, Return, CardsBelong
  <1>2. old \in [pc : {"idle", "parked", "done"}, tool : Tools \cup {"none"}, seen : Seq(Rules),
                outcome : {"none", "allow", "deny"}, by : {"none", "rule", "autonomy", "human"}, card : Nat]
    BY DEF PolicyHolds, ApprovalsTypeOK, ToolCallsTyped
  <1>3. calls' = [calls EXCEPT ![c] = [old EXCEPT !.pc = "done", !.outcome = answer, !.by = "human"]]
    BY DEF Return, AnswerOf
  <1>4. DOMAIN calls = Calls
    BY DEF PolicyHolds, ApprovalsTypeOK, ToolCallsTyped
  <1> HIDE DEF old, answer
  <1>5. calls'[c] = [old EXCEPT !.pc = "done", !.outcome = answer, !.by = "human"]
    BY <1>3, <1>4
  <1>6. \A d \in Calls : d # c => calls'[d] = calls[d]
    BY <1>3, <1>4
  <1>7. /\ calls'[c].pc = "done" /\ calls'[c].by = "human" /\ calls'[c].tool = old.tool
        /\ calls'[c].seen = old.seen /\ calls'[c].card = old.card /\ calls'[c].outcome = answer
    BY <1>2, <1>5
  <1> QED
    BY <1>1, <1>6, <1>7 DEF old, answer

\* A parked call returns.
LEMMA ReturnKeeps ==
  ASSUME PolicyHolds, NEW c \in Calls, Return(c)
  PROVE  PolicyHolds'
  <1> USE DEF PolicyHolds, ApprovalsTypeOK
  <1>1. ToolCallsTyped'
    <2>1. cards[calls[c].card].answer \in {"none", "allow", "deny"}
      <3>1. calls[c].card \in DOMAIN cards
        BY DEF Return, CardsBelong
      <3>2. cards[calls[c].card] \in CardRows
        BY <3>1 DEF CardsTyped
      <3> QED
        BY <3>2 DEF CardRows
    <2> DEFINE new == [calls[c] EXCEPT !.pc = "done", !.outcome = AnswerOf(calls[c].card), !.by = "human"]
    <2>2. new \in [pc : {"idle", "parked", "done"}, tool : Tools \cup {"none"}, seen : Seq(Rules),
                   outcome : {"none", "allow", "deny"}, by : {"none", "rule", "autonomy", "human"}, card : Nat]
      BY <2>1 DEF AnswerOf, ToolCallsTyped
    <2>3. calls' = [calls EXCEPT ![c] = new]
      BY DEF Return
    <2> HIDE DEF new
    <2> QED
      BY <2>2, <2>3 DEF ToolCallsTyped
  <1>2. EarliestRuleDecides'
    <2>2. calls[c].pc = "parked" /\ calls[c].outcome = "none" /\ calls[c].by = "none"
      BY ReturnTells
    <2>3. /\ calls'[c].pc = "done" /\ calls'[c].by = "human" /\ calls'[c].tool = calls[c].tool
          /\ calls'[c].seen = calls[c].seen /\ calls'[c].card = calls[c].card
          /\ calls'[c].outcome = cards[calls[c].card].answer
      BY ReturnTells
    <2>4. \A d \in Calls : d # c => calls'[d] = calls[d]
      BY ReturnTells
    <2>5. \A i \in DOMAIN calls[c].seen : calls[c].seen[i].decision \in {"allow", "deny", "ask"}
      <3>1. calls[c].seen \in Seq(Rules)
        BY DEF ToolCallsTyped
      <3>2. \A i \in DOMAIN calls[c].seen : calls[c].seen[i] \in Rules
        BY <3>1
      <3> QED
        BY <3>2 DEF Rules
    <2> QED
      BY <2>2, <2>3, <2>4, <2>5 DEF EarliestRuleDecides
  <1>3. GatesHold'
    <2>2. calls[c].pc = "parked" /\ calls[c].outcome = "none" /\ calls[c].by = "none"
      BY ReturnTells
    <2>3. /\ calls'[c].pc = "done" /\ calls'[c].by = "human" /\ calls'[c].tool = calls[c].tool
          /\ calls'[c].seen = calls[c].seen /\ calls'[c].card = calls[c].card
          /\ calls'[c].outcome = cards[calls[c].card].answer
      BY ReturnTells
    <2>4. \A d \in Calls : d # c => calls'[d] = calls[d]
      BY ReturnTells
    <2> QED
      BY <2>3, <2>4 DEF Return, GatesHold
  <1>4. AnswerIsForThisTool'
    <2>2. calls[c].pc = "parked" /\ calls[c].outcome = "none" /\ calls[c].by = "none"
      BY ReturnTells
    <2>3. /\ calls'[c].pc = "done" /\ calls'[c].by = "human" /\ calls'[c].tool = calls[c].tool
          /\ calls'[c].seen = calls[c].seen /\ calls'[c].card = calls[c].card
          /\ calls'[c].outcome = cards[calls[c].card].answer
      BY ReturnTells
    <2>4. \A d \in Calls : d # c => calls'[d] = calls[d]
      BY ReturnTells
    <2>5. cards[calls[c].card].state = "answered" /\ calls[c].card \in DOMAIN cards
      <3>1. calls[c].card \in DOMAIN cards /\ cards[calls[c].card].state # "pending"
        BY <2>2 DEF Return, CardsBelong
      <3>2. cards[calls[c].card] \in CardRows
        BY <3>1 DEF CardsTyped
      <3> QED
        BY <3>1, <3>2 DEF CardRows
    <2> QED
      BY <2>2, <2>3, <2>4, <2>5 DEF Return, AnswerIsForThisTool, CardsBelong
  <1>5. CardsBelong'
    <2>2. calls[c].pc = "parked" /\ calls[c].outcome = "none" /\ calls[c].by = "none"
      BY ReturnTells
    <2>3. /\ calls'[c].pc = "done" /\ calls'[c].by = "human" /\ calls'[c].tool = calls[c].tool
          /\ calls'[c].seen = calls[c].seen /\ calls'[c].card = calls[c].card
          /\ calls'[c].outcome = cards[calls[c].card].answer
      BY ReturnTells
    <2>4. \A d \in Calls : d # c => calls'[d] = calls[d]
      BY ReturnTells
    <2>5. cards[calls[c].card].state = "answered"
      <3>1. calls[c].card \in DOMAIN cards /\ cards[calls[c].card].state # "pending"
        BY <2>2 DEF Return, CardsBelong
      <3>2. cards[calls[c].card] \in CardRows
        BY <3>1 DEF CardsTyped
      <3> QED
        BY <3>1, <3>2 DEF CardRows
    <2> QED
      BY <2>2, <2>3, <2>4, <2>5 DEF Return, CardsBelong
  <1>6. RulesTyped' /\ CardsTyped'
    BY DEF Return, AnswerOf, RulesTyped, CardsTyped
  <1> QED
    BY <1>1, <1>2, <1>3, <1>4, <1>5, <1>6

\* The client hangs up.
LEMMA HangUpKeeps ==
  ASSUME PolicyHolds, NEW c \in Calls, HangUp(c)
  PROVE  PolicyHolds'
  <1> USE DEF PolicyHolds, ApprovalsTypeOK
  <1>1. ToolCallsTyped'
    BY DEF HangUp, ToolCallsTyped, NoCall
  <1>2. EarliestRuleDecides'
    <2>1. calls'[c].pc = "idle" /\ \A d \in Calls : d # c => calls'[d] = calls[d]
      BY DEF HangUp, ToolCallsTyped, NoCall
    <2>2. EarliestRuleDecides
      OBVIOUS
    <2> QED
      BY <2>1, <2>2 DEF EarliestRuleDecides
  <1>3. GatesHold'
    BY DEF HangUp, GatesHold, ToolCallsTyped, NoCall
  <1>4. AnswerIsForThisTool'
    BY DEF HangUp, AnswerIsForThisTool, ToolCallsTyped, NoCall
  <1>5. CardsBelong'
    BY DEF HangUp, CardsBelong, ToolCallsTyped, NoCall
  <1>6. RulesTyped' /\ CardsTyped'
    BY DEF HangUp, RulesTyped, CardsTyped
  <1> QED
    BY <1>1, <1>2, <1>3, <1>4, <1>5, <1>6

\* A human is about to respond.
LEMMA RespondKeeps ==
  ASSUME PolicyHolds, NEW h \in Humans, NEW k \in DOMAIN cards, NEW a \in Replies, Respond(h, k, a)
  PROVE  PolicyHolds'
  <1> USE DEF PolicyHolds, ApprovalsTypeOK
  <1>1. CardsTyped'
    BY DEF Respond, CardsTyped
  <1>2. /\ RulesTyped'
       /\ ToolCallsTyped'
       /\ EarliestRuleDecides'
       /\ GatesHold'
       /\ AnswerIsForThisTool'
       /\ CardsBelong'
    BY DEF Respond, RulesTyped, ToolCallsTyped, EarliestRuleDecides, GatesHold,
       AnswerIsForThisTool, CardsBelong
  <1> QED
    BY <1>1, <1>2

\* The rule is written.
LEMMA RememberKeeps ==
  ASSUME PolicyHolds, NEW h \in Humans, NEW cov \in Covers, RememberRule(h, cov)
  PROVE  PolicyHolds'
  <1> USE DEF PolicyHolds, ApprovalsTypeOK
  <1>1. RulesTyped'
    <2>1. [covers |-> cov, decision |-> "allow"] \in Rules
      BY ApprovalConstants DEF Rules
    <2> QED
      BY <2>1 DEF RememberRule, RulesTyped
  <1>2. CardsTyped'
    <2>1. /\ humans[h] \in [pc : {"remember", "resolve"}, card : DOMAIN cards, action : Replies]
          /\ cards' = cards
      BY DEF RememberRule, CardsTyped, NoHuman
    <2>2. [humans[h] EXCEPT !.pc = "resolve"] \in
            [pc : {"remember", "resolve"}, card : DOMAIN cards, action : Replies]
      BY <2>1
    <2> QED
      BY <2>1, <2>2 DEF RememberRule, CardsTyped
  <1>3. /\ ToolCallsTyped'
       /\ EarliestRuleDecides'
       /\ GatesHold'
       /\ AnswerIsForThisTool'
       /\ CardsBelong'
    BY DEF RememberRule, ToolCallsTyped, EarliestRuleDecides, GatesHold, AnswerIsForThisTool,
       CardsBelong
  <1> QED
    BY <1>1, <1>2, <1>3

\* The response counts, or is late.
LEMMA ResolveKeeps ==
  ASSUME PolicyHolds, NEW h \in Humans, Resolve(h)
  PROVE  PolicyHolds'
  <1> USE DEF PolicyHolds, ApprovalsTypeOK
  <1>1. CardsTyped'
    <2> DEFINE k == humans[h].card
    <2>1. humans[h].card \in DOMAIN cards /\ humans[h].action \in Replies
      BY DEF Resolve, CardsTyped, NoHuman
    <2>2. cards' \in Seq(CardRows) /\ DOMAIN cards' = DOMAIN cards
      BY Resolved
    <2> QED
      BY <2>2 DEF Resolve, CardsTyped, CardRows
  <1>2. AnswerIsForThisTool'
    <2>1. /\ DOMAIN cards' = DOMAIN cards
          /\ \A k \in DOMAIN cards :
               \/ cards'[k] = cards[k]
               \/ /\ cards[k].state = "pending" /\ cards'[k].state = "answered"
                  /\ cards'[k].tool = cards[k].tool
                  /\ \/ cards'[k].answer = "allow" /\ cards'[k].given \in {"approve", "remember"}
                     \/ cards'[k].answer = "deny" /\ cards'[k].given = "deny"
      BY Resolved
    <2>2. calls' = calls
      BY DEF Resolve
    <2>3. \A d \in Calls : calls[d].by = "human" =>
            calls[d].card \in DOMAIN cards /\ cards[calls[d].card].state = "answered"
      BY DEF CardsBelong
    <2>4. \A d \in Calls : calls[d].by = "human" => cards'[calls[d].card] = cards[calls[d].card]
      BY <2>1, <2>3
    <2> QED
      BY <2>2, <2>4 DEF AnswerIsForThisTool
  <1>3. CardsBelong'
    <2>1. /\ DOMAIN cards' = DOMAIN cards
          /\ \A k \in DOMAIN cards :
               \/ cards'[k] = cards[k]
               \/ /\ cards[k].state = "pending" /\ cards'[k].state = "answered"
                  /\ cards'[k].tool = cards[k].tool
                  /\ \/ cards'[k].answer = "allow" /\ cards'[k].given \in {"approve", "remember"}
                     \/ cards'[k].answer = "deny" /\ cards'[k].given = "deny"
      BY Resolved
    <2>2. ASSUME NEW c \in Calls
          PROVE  /\ calls[c].pc = "parked" \/ calls[c].by = "human" =>
                      calls[c].card \in DOMAIN cards' /\ cards'[calls[c].card].tool = calls[c].tool
                 /\ calls[c].by = "human" => cards'[calls[c].card].state = "answered"
      BY <2>1 DEF CardsBelong
    <2>3. ASSUME NEW k \in DOMAIN cards, cards'[k].state = "answered"
          PROVE  \/ cards'[k].answer = "allow" /\ cards'[k].given \in {"approve", "remember"}
                 \/ cards'[k].answer = "deny" /\ cards'[k].given = "deny"
      BY <2>1, <2>3 DEF CardsBelong
    <2>4. \A c \in Calls : calls[c].pc = "parked" => calls[c].outcome = "none" /\ calls[c].by = "none"
      BY DEF CardsBelong
    <2> QED
      <3>1. UNCHANGED calls /\ DOMAIN cards' = DOMAIN cards
        BY <2>1 DEF Resolve
      <3>2. \A k \in DOMAIN cards' : cards'[k].state = "answered" =>
              \/ cards'[k].answer = "allow" /\ cards'[k].given \in {"approve", "remember"}
              \/ cards'[k].answer = "deny" /\ cards'[k].given = "deny"
        BY <2>3, <3>1
      <3> QED
        BY <2>2, <2>4, <3>1, <3>2 DEF CardsBelong
  <1>4. RulesTyped' /\ ToolCallsTyped' /\ EarliestRuleDecides' /\ GatesHold'
    BY DEF Resolve, RulesTyped, ToolCallsTyped, EarliestRuleDecides, GatesHold
  <1> QED
    BY <1>1, <1>2, <1>3, <1>4

\* A rule is deleted.
LEMMA DeleteRuleKeeps ==
  ASSUME PolicyHolds, NEW i \in DOMAIN rules, DeleteRule(i)
  PROVE  PolicyHolds'
  <1> USE DEF PolicyHolds, ApprovalsTypeOK
  <1>1. RulesTyped'
    <2>1. rules \in Seq(Rules) /\ Len(rules) \in Nat /\ i \in 1..Len(rules)
      BY DEF RulesTyped
    <2>2. SubSeq(rules, 1, i - 1) \in Seq(Rules) /\ SubSeq(rules, i + 1, Len(rules)) \in Seq(Rules)
      BY <2>1, SubSeqProperties
    <2> QED
      BY <2>2, ConcatProperties DEF DeleteRule, RulesTyped
  <1>2. /\ ToolCallsTyped'
       /\ CardsTyped'
       /\ EarliestRuleDecides'
       /\ GatesHold'
       /\ AnswerIsForThisTool'
       /\ CardsBelong'
    BY DEF DeleteRule, ToolCallsTyped, CardsTyped, EarliestRuleDecides, GatesHold,
       AnswerIsForThisTool, CardsBelong
  <1> QED
    BY <1>1, <1>2

\* No call, no card, no response yet.
LEMMA ApprovalsStart == ApprovalsInit => PolicyHolds
  BY ApprovalConstants
     DEF ApprovalsInit, PolicyHolds, ApprovalsTypeOK, RulesTyped, ToolCallsTyped, CardsTyped,
         EarliestRuleDecides, GatesHold, AnswerIsForThisTool, CardsBelong, NoCall, NoHuman

\* Every call, response, remembered and deleted rule keeps the invariant.
LEMMA ApprovalsStep == PolicyHolds /\ [ApprovalsNext]_approvalVars => PolicyHolds'
  <1> SUFFICES ASSUME PolicyHolds, [ApprovalsNext]_approvalVars
               PROVE  PolicyHolds'
    OBVIOUS
  <1>1. CASE ApprovalsNext
    BY <1>1, RequestKeeps, ReturnKeeps, HangUpKeeps, RespondKeeps, RememberKeeps, ResolveKeeps,
       DeleteRuleKeeps DEF ApprovalsNext
  <1>2. CASE UNCHANGED approvalVars
    BY <1>2 DEF approvalVars, PolicyHolds, ApprovalsTypeOK, RulesTyped, ToolCallsTyped,
       CardsTyped, EarliestRuleDecides, GatesHold, AnswerIsForThisTool, CardsBelong
  <1> QED
    BY <1>1, <1>2

\* For any tools, rules and autonomy level, however calls, hang-ups, responses and changes of
\* the rules interleave: the earliest matching rule decides, a human's answer reaches the call
\* for that tool only, and no gate opens by itself (toolRequestApproval, parkApproval, Resolve).
THEOREM PolicyInvariant == ApprovalsSpec => []PolicyHolds
  <1> QED
    BY ApprovalsStart, ApprovalsStep, PTL DEF ApprovalsSpec

------------------------------------------------------------------------------
(* Delivery: what becomes of a run's work.                                    *)

\* The default branch and the pull request's head are none of the fresh names.
LEMMA BranchNames ==
  /\ {HeadBranch, BaseBranch, OtherBranch} \subseteq Branches /\ NoBranch \notin Branches
  /\ \A i \in 1..Len(Names) :
       Names[i] \in Branches /\ Names[i] \notin {HeadBranch, BaseBranch, OtherBranch}
  BY DeliveryAssumption DEF Branches

LEMMA BranchKinds ==
  ASSUME DeliveryTypeOK, OnItsBranch, NEW r \in Jobs
  PROVE  /\ step[r] # "queued" => branch[r] \in Branches \ {BaseBranch, OtherBranch}
         /\ step[r] = "queued" => branch[r] = NoBranch
         /\ rowBranch[r] \in {NoBranch, branch[r]}
         /\ step[r] # "queued" /\ ~onPull[r] => branch[r] # HeadBranch
         /\ step[r] # "queued" => PushedBranch(r) \in Branches
         /\ PushedBranch(r) \in {branch[r], OtherBranch, BaseBranch}
  BY BranchNames, DeliveryAssumption DEF OnItsBranch, DeliveryTypeOK, PushedBranch

\* What a step does to the paper alone.
LEMMA RemoteUntouched ==
  ASSUME DeliveryTypeOK, OnItsBranch, UNCHANGED <<onPull, branch, rowBranch, checkout, remote>>,
         \A r \in Jobs : step'[r] # step[r] =>
           /\ step[r] # "queued" /\ step'[r] # "queued"
           /\ step'[r] \notin {"prepare", "over"} => step[r] \notin {"prepare", "over"}
           /\ step[r] = "prepare" => step'[r] = "over"
  PROVE  OnItsBranch'
  <1>1. ASSUME NEW r \in Jobs
        PROVE  /\ step'[r] = "queued" <=> step[r] = "queued"
               /\ rowBranch'[r] = branch'[r]
                  \/ (rowBranch'[r] = NoBranch /\ step'[r] \in {"prepare", "over"})
    BY DEF OnItsBranch
  <1>. QED BY <1>1 DEF OnItsBranch

LEMMA WorkspaceRefsKeeps ==
  ASSUME DeliveryInv, NEW r \in Jobs, WorkspaceRefs(r)
  PROVE  DeliveryInv'
  <1>1. DeliveryTypeOK /\ OnItsBranch /\ SaysAtTheEnd
    BY DEF DeliveryInv
  <1>2. /\ step[r] = "queued" /\ step' = [step EXCEPT ![r] = "prepare"]
        /\ UNCHANGED <<onPull, rowBranch, checkout, cloned, worked, outcome, preserved, partial,
                       pullRow, remote, pulls, hurts>>
    BY DEF WorkspaceRefs, GoOn, paperVars, forgeVars
  <1>3. PICK b \in Branches : /\ IF onPull[r] THEN b = HeadBranch ELSE UniqueBranch(b)
                              /\ branch' = [branch EXCEPT ![r] = b]
    BY DEF WorkspaceRefs
  <1>4. IF onPull[r] THEN b = HeadBranch ELSE \E i \in 1..Len(Names) : b = Names[i]
    BY <1>3 DEF UniqueBranch
  <1>5. /\ branch'[r] = b /\ step'[r] = "prepare" /\ branch[r] = NoBranch
        /\ rowBranch[r] = NoBranch /\ checkout[r] \in {NoBranch, OtherBranch, BaseBranch}
        /\ \A q \in Jobs \ {r} : branch'[q] = branch[q] /\ step'[q] = step[q]
    BY <1>1, <1>2, <1>3 DEF DeliveryTypeOK, OnItsBranch
  <1>6. DeliveryTypeOK'
    BY <1>1, <1>2, <1>3 DEF DeliveryTypeOK, Refs
  <1>7. OnItsBranch'
    <2>1. ASSUME NEW q \in Jobs
          PROVE  /\ IF step'[q] = "queued" THEN branch'[q] = NoBranch
                    ELSE IF onPull'[q] THEN branch'[q] = HeadBranch
                    ELSE \E i \in 1..Len(Names) : branch'[q] = Names[i]
                 /\ rowBranch'[q] = branch'[q]
                    \/ (rowBranch'[q] = NoBranch /\ step'[q] \in {"prepare", "over"})
                 /\ checkout'[q] \in {NoBranch, OtherBranch, BaseBranch, branch'[q]}
      <3>1. CASE q = r
        BY <3>1, <1>2, <1>4, <1>5
      <3>2. CASE q # r
        BY <3>2, <1>1, <1>2, <1>5 DEF OnItsBranch
      <3>. QED BY <3>1, <3>2
    <2>2. ASSUME NEW d \in Branches, NEW q \in remote'[d]
          PROVE  IF q = Somebody THEN d = HeadBranch ELSE d \in {branch'[q], OtherBranch}
      <3>1. IF q = Somebody THEN d = HeadBranch ELSE d \in {branch[q], OtherBranch}
        BY <2>2, <1>1, <1>2 DEF OnItsBranch
      <3>2. q = Somebody \/ q \in Jobs
        BY <2>2, <1>1, <1>2 DEF DeliveryTypeOK
      <3>. QED BY <3>1, <3>2, <1>5, BranchNames
    <2>. QED BY <2>1, <2>2 DEF OnItsBranch
  <1>8. PullShowsWork'
    <2>1. ASSUME NEW q \in Jobs, pullRow'[q] \/ step'[q] = "append", ~onPull'[q], Alone(q)'
          PROVE  q \in remote'[rowBranch'[q]]
      <3>1. q # r /\ (pullRow[q] \/ step[q] = "append")
        BY <2>1, <1>2, <1>5 DEF DeliveryInv, PullShowsWork
      <3>2. step[q] # "queued"
        BY <3>1 DEF DeliveryInv, PullShowsWork
      <3>3. branch[q] # NoBranch
        BY <3>2, <1>1, BranchKinds, BranchNames
      <3>4. Alone(q)
        BY <2>1, <3>1, <3>3, <1>2, <1>5 DEF Alone
      <3>. QED BY <2>1, <3>1, <3>4, <1>2 DEF DeliveryInv, PullShowsWork
    <2>. QED
      BY <2>1, <1>2, <1>5 DEF DeliveryInv, PullShowsWork
  <1>9. SaysAtTheEnd' /\ NoSilentLoss'
    BY <1>1, <1>2, <1>5 DEF DeliveryInv, SaysAtTheEnd, NoSilentLoss
  <1>. QED
    BY <1>2, <1>6, <1>7, <1>8, <1>9 DEF DeliveryInv, ClaimsAreTrue, PartialIsPushed

\* Who is alone on a branch changes with no other step.
LEMMA PullsUntouched ==
  ASSUME PullShowsWork, UNCHANGED <<onPull, branch, rowBranch, pullRow>>,
         \A r \in Jobs : remote[rowBranch[r]] \subseteq remote'[rowBranch[r]],
         \A r \in Jobs : pullRow[r] => step'[r] = "over",
         \A r \in Jobs : step'[r] = "append" => step[r] = "append"
  PROVE  PullShowsWork'
  BY DEF PullShowsWork, Alone

LEMMA SetProvisionedKeeps ==
  ASSUME DeliveryInv, NEW r \in Jobs, SetProvisioned(r)
  PROVE  DeliveryInv'
  <1>1. DeliveryTypeOK /\ OnItsBranch /\ SaysAtTheEnd /\ PullShowsWork
    BY DEF DeliveryInv
  <1>2. /\ step[r] = "prepare" /\ step' = [step EXCEPT ![r] = "work"]
        /\ rowBranch' = [rowBranch EXCEPT ![r] = branch[r]]
        /\ checkout' = [checkout EXCEPT ![r] = branch[r]]
        /\ cloned' = [cloned EXCEPT ![r] = IF onPull[r] THEN remote[branch[r]] ELSE {}]
        /\ UNCHANGED <<onPull, branch, worked, outcome, preserved, partial, pullRow, remote,
                       pulls, hurts>>
    BY DEF SetProvisioned, GoOn, paperVars, forgeVars
  <1>3. /\ step'[r] = "work" /\ rowBranch'[r] = branch[r] /\ checkout'[r] = branch[r]
        /\ \A q \in Jobs \ {r} : /\ step'[q] = step[q] /\ rowBranch'[q] = rowBranch[q]
                                 /\ checkout'[q] = checkout[q]
    BY <1>1, <1>2 DEF DeliveryTypeOK
  <1>4. DeliveryTypeOK'
    <2>1. branch[r] \in Branches
      BY <1>1, <1>2, BranchKinds
    <2>2. remote[branch[r]] \in SUBSET (Jobs \cup {Somebody})
      BY <2>1, <1>1 DEF DeliveryTypeOK
    <2>. QED BY <2>1, <2>2, <1>1, <1>2 DEF DeliveryTypeOK, Refs
  <1>5. OnItsBranch'
    BY <1>1, <1>2, <1>3 DEF OnItsBranch
  <1>6. PullShowsWork'
    <2>1. \A q \in Jobs : pullRow[q] \/ step[q] = "append" => q # r
      BY <1>1, <1>2 DEF PullShowsWork
    <2>. QED BY <2>1, <1>1, <1>2, <1>3 DEF PullShowsWork, Alone
  <1>7. SaysAtTheEnd' /\ NoSilentLoss'
    BY <1>1, <1>2, <1>3 DEF DeliveryInv, SaysAtTheEnd, NoSilentLoss
  <1>. QED
    BY <1>2, <1>4, <1>5, <1>6, <1>7 DEF DeliveryInv, ClaimsAreTrue, PartialIsPushed

LEMMA PrepareFailsKeeps ==
  ASSUME DeliveryInv, NEW r \in Jobs, PrepareFails(r)
  PROVE  DeliveryInv'
  <1>1. DeliveryTypeOK /\ OnItsBranch /\ SaysAtTheEnd /\ PullShowsWork
    BY DEF DeliveryInv
  <1>2. /\ step[r] = "prepare" /\ step' = [step EXCEPT ![r] = "over"]
        /\ outcome' = [outcome EXCEPT ![r] = "failed"]
        /\ UNCHANGED <<onPull, branch, rowBranch, checkout, cloned, worked, preserved, partial,
                       pullRow, remote, pulls, hurts>>
    BY DEF PrepareFails, GoOn, paperVars, forgeVars
  <1>3. /\ step'[r] = "over" /\ \A q \in Jobs \ {r} : step'[q] = step[q]
        /\ preserved[r] = Unattempted
    BY <1>1, <1>2 DEF DeliveryTypeOK, SaysAtTheEnd
  <1>4. DeliveryTypeOK'
    BY <1>1, <1>2 DEF DeliveryTypeOK, Endings
  <1>5. OnItsBranch'
    BY <1>1, <1>2, <1>3, RemoteUntouched
  <1>6. PullShowsWork'
    BY <1>1, <1>2, <1>3, PullsUntouched DEF PullShowsWork
  <1>7. SaysAtTheEnd' /\ NoSilentLoss'
    BY <1>1, <1>2, <1>3 DEF DeliveryInv, SaysAtTheEnd, NoSilentLoss
  <1>. QED
    BY <1>2, <1>4, <1>5, <1>6, <1>7 DEF DeliveryInv, ClaimsAreTrue, PartialIsPushed

LEMMA AgentWorksKeeps ==
  ASSUME DeliveryInv, NEW r \in Jobs, AgentWorks(r)
  PROVE  DeliveryInv'
  <1>1. DeliveryTypeOK /\ OnItsBranch /\ SaysAtTheEnd /\ PullShowsWork
    BY DEF DeliveryInv
  <1>2. /\ step[r] = "work"
        /\ UNCHANGED <<onPull, step, branch, rowBranch, cloned, outcome, preserved, partial,
                       pullRow, remote, pulls, hurts>>
    BY DEF AgentWorks, paperVars, forgeVars
  <1>3. /\ worked' \in [Jobs -> BOOLEAN] /\ \A q \in Jobs \ {r} : worked'[q] = worked[q]
        /\ checkout' \in [Jobs -> Refs]
        /\ \A q \in Jobs : checkout'[q] = checkout[q]
                           \/ checkout'[q] \in {OtherBranch, BaseBranch, NoBranch}
    <2>1. {OtherBranch, BaseBranch, NoBranch} \subseteq Refs
      BY BranchNames DEF Refs
    <2>2. CASE worked' = [worked EXCEPT ![r] = TRUE] /\ UNCHANGED checkout
      BY <2>2, <1>1 DEF DeliveryTypeOK
    <2>3. ASSUME NEW b \in {OtherBranch, BaseBranch, NoBranch},
                 checkout' = [checkout EXCEPT ![r] = b], UNCHANGED worked
          PROVE  /\ worked' \in [Jobs -> BOOLEAN] /\ \A q \in Jobs \ {r} : worked'[q] = worked[q]
                 /\ checkout' \in [Jobs -> Refs]
                 /\ \A q \in Jobs : checkout'[q] = checkout[q]
                                    \/ checkout'[q] \in {OtherBranch, BaseBranch, NoBranch}
      BY <2>1, <2>3, <1>1 DEF DeliveryTypeOK
    <2>. QED BY <2>2, <2>3 DEF AgentWorks
  <1>4. DeliveryTypeOK'
    BY <1>1, <1>2, <1>3 DEF DeliveryTypeOK
  <1>5. OnItsBranch'
    BY <1>1, <1>2, <1>3 DEF OnItsBranch
  <1>6. PullShowsWork'
    BY <1>1, <1>2 DEF PullShowsWork, Alone
  <1>7. preserved[r] = Unattempted
    BY <1>1, <1>2 DEF SaysAtTheEnd
  <1>8. SaysAtTheEnd' /\ NoSilentLoss'
    BY <1>1, <1>2, <1>3, <1>7 DEF DeliveryInv, SaysAtTheEnd, NoSilentLoss, Unattempted
  <1>. QED
    BY <1>2, <1>4, <1>5, <1>6, <1>8 DEF DeliveryInv, ClaimsAreTrue, PartialIsPushed

LEMMA SessionEndsKeeps ==
  ASSUME DeliveryInv, NEW r \in Jobs, NEW e \in Endings, SessionEnds(r, e)
  PROVE  DeliveryInv'
  <1>1. DeliveryTypeOK /\ OnItsBranch /\ SaysAtTheEnd /\ PullShowsWork
    BY DEF DeliveryInv
  <1>2. /\ step[r] = "work" /\ step' = [step EXCEPT ![r] = "preserve"]
        /\ outcome' = [outcome EXCEPT ![r] = e]
        /\ UNCHANGED <<onPull, branch, rowBranch, checkout, cloned, worked, preserved, partial,
                       pullRow, remote, pulls, hurts>>
    BY DEF SessionEnds, GoOn, paperVars, forgeVars
  <1>3. step'[r] = "preserve" /\ \A q \in Jobs \ {r} : step'[q] = step[q]
    BY <1>1, <1>2 DEF DeliveryTypeOK
  <1>4. DeliveryTypeOK'
    BY <1>1, <1>2 DEF DeliveryTypeOK
  <1>5. OnItsBranch'
    BY <1>1, <1>2, <1>3, RemoteUntouched
  <1>6. PullShowsWork'
    BY <1>1, <1>2, <1>3 DEF PullShowsWork, Alone
  <1>7. SaysAtTheEnd' /\ NoSilentLoss'
    BY <1>1, <1>2, <1>3 DEF DeliveryInv, SaysAtTheEnd, NoSilentLoss
  <1>. QED
    BY <1>2, <1>4, <1>5, <1>6, <1>7 DEF DeliveryInv, ClaimsAreTrue, PartialIsPushed

\* The end of a run's work, whatever is pushed: what it says is a fact of the remote.
LEMMA PreserveKeeps ==
  ASSUME DeliveryInv, NEW r \in Jobs, PreserveAndPush(r)
  PROVE  DeliveryInv'
  <1> DEFINE b == PushedBranch(r)
  <1>1. DeliveryTypeOK /\ OnItsBranch /\ SaysAtTheEnd /\ PullShowsWork /\ ClaimsAreTrue
    BY DEF DeliveryInv
  <1>2. /\ step[r] = "preserve" /\ step' = [step EXCEPT ![r] = "record"]
        /\ UNCHANGED <<onPull, branch, rowBranch, checkout, cloned, worked, outcome, partial,
                       pullRow, pulls>>
    BY DEF PreserveAndPush, GoOn, jobVars
  <1>3. step'[r] = "record" /\ \A q \in Jobs \ {r} : step'[q] = step[q]
    BY <1>1, <1>2 DEF DeliveryTypeOK
  <1>4. b \in Branches /\ b \in {branch[r], OtherBranch, BaseBranch}
    BY <1>1, <1>2, BranchKinds
  <1>5. /\ hurts' \in 0..MaxFaults /\ (hurts' = 0 => hurts = 0)
        /\ \E w \in {"pushed", "nothing", "failure"} :
             /\ preserved' = [preserved EXCEPT ![r] = [says |-> w, of |-> b]]
             /\ w = "nothing" => ~worked[r]
             /\ IF w = "pushed" THEN b # BaseBranch /\ remote' = [remote EXCEPT ![b] = remote[b] \cup {r}]
                ELSE remote' = remote
    <2>1. hurts \in 0..MaxFaults
      BY <1>1 DEF DeliveryTypeOK
    <2>2. CASE RefusesBase(r)
      BY <2>1, <2>2 DEF RefusesBase, Says
    <2>3. CASE Push(r)
      BY <2>1, <2>3 DEF Push, Says
    <2>4. CASE CannotPush(r)
      <3>1. hurts' \in 0..MaxFaults /\ hurts' # 0
        BY <2>1, <2>4, DeliveryAssumption DEF CannotPush, Hurts
      <3>. QED BY <3>1, <2>4 DEF CannotPush, Says
    <2>. QED BY <2>2, <2>3, <2>4 DEF PreserveAndPush
  <1>6. PICK w \in {"pushed", "nothing", "failure"} :
          /\ preserved' = [preserved EXCEPT ![r] = [says |-> w, of |-> b]]
          /\ w = "nothing" => ~worked[r]
          /\ IF w = "pushed" THEN b # BaseBranch /\ remote' = [remote EXCEPT ![b] = remote[b] \cup {r}]
             ELSE remote' = remote
    BY <1>5
  <1> HIDE DEF b
  <1>7. /\ preserved'[r] = [says |-> w, of |-> b] /\ \A q \in Jobs \ {r} : preserved'[q] = preserved[q]
        /\ preserved' \in [Jobs -> [says : {"unattempted", "pushed", "nothing", "failure"}, of : Refs]]
    BY <1>1, <1>4, <1>6 DEF DeliveryTypeOK, Refs
  <1>8. /\ remote' \in [Branches -> SUBSET (Jobs \cup {Somebody})]
        /\ \A d \in Branches : remote[d] \subseteq remote'[d]
        /\ \A d \in Branches : \A q \in remote'[d] :
             q \in remote[d] \/ (q = r /\ d = b /\ b # BaseBranch)
        /\ w = "pushed" => r \in remote'[b]
    <2>1. CASE w = "pushed"
      <3>1. /\ remote'[b] = remote[b] \cup {r} /\ b # BaseBranch
            /\ \A d \in Branches \ {b} : remote'[d] = remote[d]
            /\ remote' \in [Branches -> SUBSET (Jobs \cup {Somebody})]
        BY <2>1, <1>1, <1>4, <1>6 DEF DeliveryTypeOK
      <3>. QED BY <3>1
    <2>2. CASE w # "pushed"
      BY <2>2, <1>1, <1>6 DEF DeliveryTypeOK
    <2>. QED BY <2>1, <2>2
  <1>9. DeliveryTypeOK'
    BY <1>1, <1>2, <1>5, <1>7, <1>8 DEF DeliveryTypeOK
  <1>10. OnItsBranch'
    <2>1. ASSUME NEW d \in Branches, NEW q \in remote'[d]
          PROVE  IF q = Somebody THEN d = HeadBranch ELSE d \in {branch'[q], OtherBranch}
      <3>1. CASE q \in remote[d]
        BY <3>1, <1>1, <1>2 DEF OnItsBranch
      <3>2. CASE q = r /\ d = b /\ b # BaseBranch
        BY <3>2, <1>2, <1>4, DeliveryAssumption
      <3>. QED BY <2>1, <3>1, <3>2, <1>8
    <2>. QED BY <2>1, <1>1, <1>2, <1>3 DEF OnItsBranch
  <1>11. PullShowsWork'
    <2>1. \A q \in Jobs : pullRow[q] \/ step[q] = "append" => q # r /\ rowBranch[q] \in Branches
      <3>1. \A q \in Jobs : pullRow[q] \/ step[q] = "append" => q # r /\ step[q] # "queued"
                              /\ rowBranch[q] = branch[q]
        BY <1>1, <1>2 DEF PullShowsWork, OnItsBranch
      <3>. QED BY <3>1, <1>1, BranchKinds
    <2>. QED BY <2>1, <1>1, <1>2, <1>3, <1>8 DEF PullShowsWork, Alone
  <1>12. ClaimsAreTrue'
    <2>1. ASSUME NEW q \in Jobs, preserved'[q].says = "pushed"
          PROVE  q \in remote'[preserved'[q].of]
      <3>1. CASE q = r
        BY <2>1, <3>1, <1>7, <1>8
      <3>2. CASE q # r
        <4>1. preserved'[q] = preserved[q] /\ q \in remote[preserved[q].of]
              /\ preserved[q].of \in Branches
          BY <2>1, <3>2, <1>1, <1>7 DEF ClaimsAreTrue, SaysAtTheEnd
        <4>. QED BY <4>1, <1>8
      <3>. QED BY <3>1, <3>2
    <2>2. remote'[BaseBranch] = {}
      BY <1>1, <1>8, BranchNames DEF ClaimsAreTrue
    <2>. QED BY <2>1, <2>2 DEF ClaimsAreTrue
  <1>13. SaysAtTheEnd'
    BY <1>1, <1>2, <1>3, <1>4, <1>6, <1>7 DEF SaysAtTheEnd
  <1>14. NoSilentLoss'
    <2>1. ASSUME NEW q \in Jobs, step'[q] \in {"open", "append", "over"}, worked'[q],
                 preserved'[q] # Unattempted
          PROVE  preserved'[q].says = "failure" \/ preserved'[q].says = "pushed"
      BY <2>1, <1>2, <1>3, <1>7 DEF DeliveryInv, NoSilentLoss
    <2>. QED BY <2>1, <1>12 DEF NoSilentLoss, ClaimsAreTrue
  <1>15. PartialIsPushed'
    <2>1. \A q \in Jobs : partial[q] \subseteq Branches
      BY <1>1 DEF DeliveryTypeOK
    <2>. QED BY <2>1, <1>2, <1>5, <1>8 DEF DeliveryInv, PartialIsPushed
  <1>. QED
    BY <1>9, <1>10, <1>11, <1>12, <1>13, <1>14, <1>15 DEF DeliveryInv

LEMMA RecordAndEndKeeps ==
  ASSUME DeliveryInv, NEW r \in Jobs, RecordAndEnd(r)
  PROVE  DeliveryInv'
  <1> DEFINE new == IF preserved[r].says = "pushed" /\ outcome[r] # "completed"
                    THEN {preserved[r].of} ELSE {}
  <1>1. DeliveryTypeOK /\ OnItsBranch /\ SaysAtTheEnd /\ PullShowsWork /\ ClaimsAreTrue
    BY DEF DeliveryInv
  <1>2. /\ step[r] = "record"
        /\ step' = [step EXCEPT ![r] = IF outcome[r] = "completed" THEN "open" ELSE "over"]
        /\ partial' = [partial EXCEPT ![r] = partial[r] \cup new]
        /\ UNCHANGED <<onPull, branch, rowBranch, checkout, cloned, worked, outcome, preserved,
                       pullRow, remote, pulls, hurts>>
    BY DEF RecordAndEnd, GoOn, jobVars, forgeVars
  <1>3. step'[r] \in {"open", "over"} /\ \A q \in Jobs \ {r} : step'[q] = step[q]
    BY <1>1, <1>2 DEF DeliveryTypeOK
  <1>4. new \subseteq Branches /\ \A b \in new : r \in remote[b]
    BY <1>1 DEF SaysAtTheEnd, ClaimsAreTrue
  <1> HIDE DEF new
  <1>5. DeliveryTypeOK'
    BY <1>1, <1>2, <1>4 DEF DeliveryTypeOK
  <1>6. OnItsBranch'
    BY <1>1, <1>2, <1>3, RemoteUntouched
  <1>7. PullShowsWork'
    BY <1>1, <1>2, <1>3, PullsUntouched DEF PullShowsWork
  <1>8. NoSilentLoss'
    <2>1. preserved[r] # Unattempted => preserved[r].says \in {"pushed", "nothing", "failure"}
      BY <1>1 DEF SaysAtTheEnd, DeliveryTypeOK
    <2>2. worked[r] /\ preserved[r] # Unattempted =>
            preserved[r].says = "failure" \/ preserved[r].says = "pushed"
      BY <2>1, <1>1 DEF SaysAtTheEnd
    <2>. QED BY <2>2, <1>1, <1>2, <1>3 DEF DeliveryInv, NoSilentLoss, ClaimsAreTrue
  <1>9. SaysAtTheEnd'
    BY <1>1, <1>2, <1>3 DEF SaysAtTheEnd
  <1>10. PartialIsPushed'
    <2>1. \A q \in Jobs : \A b \in partial'[q] : b \in partial[q] \/ (q = r /\ b \in new)
      BY <1>1, <1>2 DEF DeliveryTypeOK
    <2>. QED BY <2>1, <1>2, <1>4 DEF DeliveryInv, PartialIsPushed
  <1>. QED
    BY <1>1, <1>2, <1>5, <1>6, <1>7, <1>8, <1>9, <1>10 DEF DeliveryInv, ClaimsAreTrue

\* The pull request's head is the row's branch: of those who might have pushed to it, only
\* the run itself is left when nobody else was given the name.
LEMMA HeadIsItsOwn ==
  ASSUME DeliveryTypeOK, OnItsBranch, NEW r \in Jobs, ~onPull[r], Alone(r),
         rowBranch[r] = branch[r], step[r] # "queued", remote[rowBranch[r]] # {}
  PROVE  r \in remote[rowBranch[r]]
  <1>1. branch[r] \in Branches \ {BaseBranch, OtherBranch, HeadBranch}
    BY BranchKinds
  <1>2. PICK q \in remote[branch[r]] : TRUE
    OBVIOUS
  <1>3. q # Somebody /\ branch[r] = branch[q]
    BY <1>1, <1>2 DEF OnItsBranch
  <1>4. q \in Jobs
    BY <1>1, <1>2, <1>3 DEF DeliveryTypeOK
  <1>. QED BY <1>2, <1>3, <1>4 DEF Alone

LEMMA OpenForRunKeeps ==
  ASSUME DeliveryInv, NEW r \in Jobs, OpenForRun(r)
  PROVE  DeliveryInv'
  <1>1. DeliveryTypeOK /\ OnItsBranch /\ SaysAtTheEnd /\ PullShowsWork
    BY DEF DeliveryInv
  <1>2. /\ step[r] = "open"
        /\ UNCHANGED <<onPull, branch, rowBranch, checkout, cloned, worked, outcome, preserved,
                       partial, pullRow, remote, hurts>>
    BY DEF OpenForRun, jobVars, paperVars
  <1>3. /\ step' \in [Jobs -> {"queued", "prepare", "work", "preserve", "record", "open",
                               "append", "over"}]
        /\ pulls' \subseteq Branches
        /\ step'[r] \in {"append", "over"} /\ \A q \in Jobs \ {r} : step'[q] = step[q]
        /\ step'[r] = "append" => remote[rowBranch[r]] # {}
    <2>1. CASE rowBranch[r] # NoBranch /\ ForgeOpens(rowBranch[r])
      <3>1. rowBranch[r] \in Branches /\ remote[rowBranch[r]] # {}
        BY <2>1, <1>1 DEF ForgeOpens, DeliveryTypeOK, Refs
      <3>2. pulls' = pulls \cup {rowBranch[r]} /\ step' = [step EXCEPT ![r] = "append"]
        BY <2>1 DEF OpenForRun, GoOn
      <3>. QED BY <3>1, <3>2, <1>1 DEF DeliveryTypeOK
    <2>2. CASE ~(rowBranch[r] # NoBranch /\ ForgeOpens(rowBranch[r]))
      <3>1. pulls' = pulls /\ step' = [step EXCEPT ![r] = "over"]
        BY <2>2 DEF OpenForRun, GoOn
      <3>. QED BY <3>1, <1>1 DEF DeliveryTypeOK
    <2>. QED BY <2>1, <2>2
  <1>4. DeliveryTypeOK'
    BY <1>1, <1>2, <1>3 DEF DeliveryTypeOK
  <1>5. OnItsBranch'
    BY <1>1, <1>2, <1>3, RemoteUntouched
  <1>6. PullShowsWork'
    <2>1. rowBranch[r] = branch[r] /\ ~pullRow[r]
      BY <1>1, <1>2 DEF OnItsBranch, PullShowsWork
    <2>2. step'[r] = "append" /\ ~onPull[r] /\ Alone(r) => r \in remote[rowBranch[r]]
      BY <2>1, <1>1, <1>2, <1>3, HeadIsItsOwn
    <2>3. \A q \in Jobs : Alone(q)' <=> Alone(q)
      BY <1>2 DEF Alone
    <2>. QED BY <2>1, <2>2, <2>3, <1>1, <1>2, <1>3 DEF PullShowsWork
  <1>7. SaysAtTheEnd' /\ NoSilentLoss'
    BY <1>1, <1>2, <1>3 DEF DeliveryInv, SaysAtTheEnd, NoSilentLoss
  <1>. QED
    BY <1>2, <1>4, <1>5, <1>6, <1>7 DEF DeliveryInv, ClaimsAreTrue, PartialIsPushed

LEMMA AppendPullRequestKeeps ==
  ASSUME DeliveryInv, NEW r \in Jobs, AppendPullRequest(r)
  PROVE  DeliveryInv'
  <1>1. DeliveryTypeOK /\ OnItsBranch /\ SaysAtTheEnd /\ PullShowsWork
    BY DEF DeliveryInv
  <1>2. /\ step[r] = "append" /\ step' = [step EXCEPT ![r] = "over"]
        /\ pullRow' = [pullRow EXCEPT ![r] = TRUE]
        /\ UNCHANGED <<onPull, branch, rowBranch, checkout, cloned, worked, outcome, preserved,
                       partial, remote, pulls, hurts>>
    BY DEF AppendPullRequest, GoOn, jobVars, forgeVars
  <1>3. /\ step'[r] = "over" /\ \A q \in Jobs \ {r} : step'[q] = step[q]
        /\ \A q \in Jobs \ {r} : pullRow'[q] = pullRow[q]
    BY <1>1, <1>2 DEF DeliveryTypeOK
  <1>4. DeliveryTypeOK'
    BY <1>1, <1>2 DEF DeliveryTypeOK
  <1>5. OnItsBranch'
    BY <1>1, <1>2, <1>3, RemoteUntouched
  <1>6. PullShowsWork'
    <2>1. rowBranch[r] = branch[r]
      BY <1>1, <1>2 DEF OnItsBranch
    <2>2. \A q \in Jobs : Alone(q)' <=> Alone(q)
      BY <1>2 DEF Alone
    <2>. QED BY <2>1, <2>2, <1>1, <1>2, <1>3 DEF PullShowsWork
  <1>7. SaysAtTheEnd' /\ NoSilentLoss'
    BY <1>1, <1>2, <1>3 DEF DeliveryInv, SaysAtTheEnd, NoSilentLoss
  <1>. QED
    BY <1>2, <1>4, <1>5, <1>6, <1>7 DEF DeliveryInv, ClaimsAreTrue, PartialIsPushed

LEMMA DeliveryCrashKeeps ==
  ASSUME DeliveryInv, DeliveryCrash
  PROVE  DeliveryInv'
  <1>1. DeliveryTypeOK /\ OnItsBranch /\ SaysAtTheEnd /\ PullShowsWork /\ ClaimsAreTrue
    BY DEF DeliveryInv
  <1>2. /\ hurts < MaxFaults /\ hurts' = hurts + 1
        /\ UNCHANGED <<onPull, branch, rowBranch, checkout, cloned, worked, pullRow, remote, pulls>>
    BY DEF DeliveryCrash, Hurts
  <1>3. PICK lost \in SUBSET {r \in Jobs : step[r] \in {"prepare", "work", "preserve", "record"}} :
          LET going == {r \in Jobs : step[r] \in {"preserve", "record"}} \ lost
          IN /\ \A r \in Jobs : step[r] = "prepare" => r \in lost
             /\ step' = [r \in Jobs |-> CASE r \in lost \/ step[r] \in {"open", "append"} -> "over"
                                          [] r \in going                                 -> "work"
                                          [] OTHER                                       -> step[r]]
             /\ outcome' = [r \in Jobs |-> IF r \in lost THEN "failed" ELSE outcome[r]]
             /\ preserved' = [r \in Jobs |-> IF r \in lost \cup going THEN Unattempted ELSE preserved[r]]
             /\ partial' = [r \in Jobs |-> IF r \in lost /\ rowBranch[r] # NoBranch
                                           THEN partial[r] \cup {rowBranch[r]} ELSE partial[r]]
    BY DEF DeliveryCrash
  <1>4. ASSUME NEW r \in Jobs
        PROVE  /\ step'[r] = IF r \in lost \/ step[r] \in {"open", "append"} THEN "over"
                             ELSE IF step[r] \in {"preserve", "record"} THEN "work" ELSE step[r]
               /\ preserved'[r] = IF r \in lost \/ step[r] \in {"preserve", "record"}
                                  THEN Unattempted ELSE preserved[r]
               /\ step[r] = "prepare" => r \in lost
               /\ r \in lost => step[r] \in {"prepare", "work", "preserve", "record"}
    BY <1>3
  <1>5. DeliveryTypeOK'
    <2>1. hurts' \in 0..MaxFaults
      BY <1>1, <1>2, DeliveryAssumption DEF DeliveryTypeOK
    <2>2. step' \in [Jobs -> {"queued", "prepare", "work", "preserve", "record", "open",
                              "append", "over"}]
      BY <1>1, <1>3, <1>4 DEF DeliveryTypeOK
    <2>3. preserved' \in [Jobs -> [says : {"unattempted", "pushed", "nothing", "failure"}, of : Refs]]
      BY <1>1, <1>3 DEF DeliveryTypeOK, Unattempted, Refs
    <2>4. outcome' \in [Jobs -> Endings \cup {"none"}]
      BY <1>1, <1>3 DEF DeliveryTypeOK, Endings
    <2>5. partial' \in [Jobs -> SUBSET Branches]
      BY <1>1, <1>3 DEF DeliveryTypeOK, Refs
    <2>. QED BY <2>1, <2>2, <2>3, <2>4, <2>5, <1>1, <1>2 DEF DeliveryTypeOK
  <1>6. OnItsBranch'
    <2>1. \A r \in Jobs : step'[r] # step[r] =>
            /\ step[r] # "queued" /\ step'[r] # "queued"
            /\ step'[r] \notin {"prepare", "over"} => step[r] \notin {"prepare", "over"}
            /\ step[r] = "prepare" => step'[r] = "over"
      BY <1>4
    <2>. QED BY <2>1, <1>1, <1>2, RemoteUntouched
  <1>7. PullShowsWork'
    <2>1. /\ \A r \in Jobs : pullRow[r] => step'[r] = "over"
          /\ \A r \in Jobs : step'[r] = "append" => step[r] = "append"
      BY <1>1, <1>4 DEF PullShowsWork
    <2>. QED BY <2>1, <1>1, <1>2, PullsUntouched
  <1>8. ClaimsAreTrue' /\ SaysAtTheEnd'
    <2>1. Unattempted.says = "unattempted"
      BY DEF Unattempted
    <2>. QED BY <2>1, <1>1, <1>2, <1>4 DEF ClaimsAreTrue, SaysAtTheEnd
  <1>9. NoSilentLoss'
    BY <1>1, <1>2, <1>4 DEF DeliveryInv, NoSilentLoss
  <1>10. PartialIsPushed'
    BY <1>1, <1>2 DEF PartialIsPushed, DeliveryTypeOK
  <1>. QED
    BY <1>5, <1>6, <1>7, <1>8, <1>9, <1>10 DEF DeliveryInv

LEMMA DeliveryInitHolds ==
  ASSUME DeliveryInit
  PROVE  DeliveryInv
  <1>1. DeliveryTypeOK
    BY BranchNames, DeliveryAssumption DEF DeliveryInit, DeliveryTypeOK, Refs, Unattempted
  <1>2. OnItsBranch
    BY DEF DeliveryInit, OnItsBranch
  <1>3. SaysAtTheEnd /\ PartialIsPushed /\ NoSilentLoss
    BY DEF DeliveryInit, SaysAtTheEnd, PartialIsPushed, NoSilentLoss, Unattempted
  <1>4. ClaimsAreTrue
    BY BranchNames, DeliveryAssumption DEF DeliveryInit, ClaimsAreTrue, Unattempted
  <1>5. PullShowsWork
    BY DEF DeliveryInit, PullShowsWork
  <1>. QED BY <1>1, <1>2, <1>3, <1>4, <1>5 DEF DeliveryInv

\* What a run says it pushed is on the remote, and work is never lost without a word; the
\* default branch is never pushed to; the pull request recorded for a run shows its work
\* unless another run was rendered the same name; a partial_work row stands for a push where
\* nothing crashed (preserve.go, push.go, propen.go).
THEOREM DeliveryInvariant == DeliverySpec => []DeliveryInv
  <1>1. ASSUME DeliveryInv, [DeliveryNext]_deliveryVars
        PROVE  DeliveryInv'
    <2>1. CASE UNCHANGED deliveryVars
      BY <2>1, <1>1
      DEF deliveryVars, DeliveryInv, DeliveryTypeOK, OnItsBranch, SaysAtTheEnd, ClaimsAreTrue,
          NoSilentLoss, PullShowsWork, Alone, PartialIsPushed
    <2>2. CASE PullCloses
      BY <2>2, <1>1
      DEF PullCloses, jobVars, paperVars, DeliveryInv, DeliveryTypeOK, OnItsBranch, SaysAtTheEnd,
          ClaimsAreTrue, NoSilentLoss, PullShowsWork, Alone, PartialIsPushed
    <2>3. CASE DeliveryCrash
      BY <2>3, <1>1, DeliveryCrashKeeps
    <2>4. ASSUME NEW r \in Jobs, WorkspaceRefs(r) \/ SetProvisioned(r) \/ PrepareFails(r)
                                   \/ AgentWorks(r)
          PROVE  DeliveryInv'
      BY <2>4, <1>1, WorkspaceRefsKeeps, SetProvisionedKeeps, PrepareFailsKeeps, AgentWorksKeeps
    <2>5. ASSUME NEW r \in Jobs, NEW e \in Endings, SessionEnds(r, e)
          PROVE  DeliveryInv'
      BY <2>5, <1>1, SessionEndsKeeps
    <2>6. ASSUME NEW r \in Jobs, PreserveAndPush(r) \/ RecordAndEnd(r) \/ OpenForRun(r)
                                   \/ AppendPullRequest(r)
          PROVE  DeliveryInv'
      BY <2>6, <1>1, PreserveKeeps, RecordAndEndKeeps, OpenForRunKeeps, AppendPullRequestKeeps
    <2>. QED BY <1>1, <2>1, <2>2, <2>3, <2>4, <2>5, <2>6 DEF DeliveryNext
  <1>. QED BY <1>1, DeliveryInitHolds, PTL DEF DeliverySpec

------------------------------------------------------------------------------
(* Import of a repository: what has failed and is sent again is not imported twice.   *)

(* A request works through what was checked of one section. *)
WithinChecked ==
  \A r \in Applies :
    /\ apply[r].left \subseteq apply[r].checked
    /\ apply[r].at # "item" => apply[r].left = {}
    /\ apply[r].at = "idle" => apply[r].checked = {}

(* What a request is about to import has no row, unless another is at it too. *)
AtHandIsFresh ==
  /\ \A r \in Applies : \A i \in AtHand(r) : rows[i] = 0 \/ i \in crossed
  /\ \A r, q \in Applies : r # q => AtHand(r) \cap AtHand(q) \subseteq crossed

ImportInv == BootstrapInv /\ WithinChecked /\ AtHandIsFresh

(* Only requests that are at something have something at hand. *)
LEMMA AtHandOnly ==
  ASSUME ImportInv, NEW r \in Applies
  PROVE  AtHand(r) = apply[r].left \ apply[r].had
  BY DEF ImportInv, WithinChecked, AtHand

(* A step of one request that has no more at hand than before, and makes no row. *)
LEMMA RequestStep ==
  ASSUME ImportInv, NEW r \in Applies, NEW new \in
           [at : ApplySteps, section : 0..4, left : SUBSET Importable, had : SUBSET Importable,
            open : SUBSET Importable, checked : SUBSET Importable, draft : BOOLEAN],
         apply' = [apply EXCEPT ![r] = new],
         new.left \subseteq new.checked, new.at # "item" => new.left = {}, new.at # "idle",
         apply[r].checked \subseteq new.checked,
         new.left \ new.had \subseteq apply[r].left \ apply[r].had,
         UNCHANGED <<rows, crossed, turns>>, onForge' = onForge, description' \in {"none", "human", "draft"}
  PROVE  ImportInv'
  <1>1. BootstrapTypeOK'
    BY DEF ImportInv, BootstrapInv, BootstrapTypeOK
  <1>2. \A q \in Applies : apply'[q] = IF q = r THEN new ELSE apply[q]
    BY DEF ImportInv, BootstrapInv, BootstrapTypeOK
  <1>3. WithinChecked'
    BY <1>2 DEF ImportInv, WithinChecked
  <1>4. \A q \in Applies : AtHand(q)' \subseteq AtHand(q)
    BY <1>2, AtHandOnly DEF AtHand
  <1>5. AtHandIsFresh'
    BY <1>4 DEF ImportInv, AtHandIsFresh
  <1>6. NothingSilent'
    <2>1. \A q \in Applies : apply[q].checked \subseteq apply'[q].checked
      BY <1>2
    <2>2. Imported' = Imported
      BY DEF Imported
    <2>. QED BY <2>1, <2>2 DEF ImportInv, BootstrapInv, NothingSilent
  <1>7. ImportedOnce'
    BY DEF ImportInv, BootstrapInv, ImportedOnce
  <1>. QED BY <1>1, <1>3, <1>5, <1>6, <1>7 DEF ImportInv, BootstrapInv

(* What people and the forge do makes no row, and touches no request. *)
LEMMA TurnKeeps ==
  ASSUME ImportInv, HumanTurn, UNCHANGED <<apply, crossed>>, onForge' \subseteq Issues \cup Documents,
         description' \in {"none", "human", "draft"}, rows' \in [Importable -> 0..3],
         \A i \in Importable : rows'[i] <= rows[i]
  PROVE  ImportInv'
  <1>1. turns' \in 0..MaxTurns
    BY BootstrapAssumption DEF ImportInv, BootstrapInv, BootstrapTypeOK, HumanTurn
  <1>2. BootstrapTypeOK'
    BY <1>1 DEF ImportInv, BootstrapInv, BootstrapTypeOK
  <1>3. WithinChecked'
    BY DEF ImportInv, WithinChecked
  <1>4. \A i \in Importable : rows[i] \in Nat /\ rows'[i] \in Nat
    BY DEF ImportInv, BootstrapInv, BootstrapTypeOK
  <1>5. \A q \in Applies : AtHand(q)' = AtHand(q) /\ AtHand(q) \subseteq Importable
    BY AtHandOnly DEF AtHand, ImportInv, BootstrapInv, BootstrapTypeOK
  <1>6. AtHandIsFresh'
    <2>1. \A i \in Importable : rows[i] = 0 => rows'[i] = 0
      BY <1>4
    <2>. QED BY <2>1, <1>5 DEF ImportInv, AtHandIsFresh
  <1>7. ImportedOnce'
    <2>1. \A i \in Importable : rows[i] <= 1 => rows'[i] <= 1
      BY <1>4
    <2>. QED BY <2>1 DEF ImportInv, BootstrapInv, ImportedOnce
  <1>8. NothingSilent'
    <2>1. Imported' \subseteq Imported
      BY <1>4 DEF Imported
    <2>. QED BY <2>1 DEF ImportInv, BootstrapInv, NothingSilent
  <1>. QED BY <1>2, <1>3, <1>6, <1>7, <1>8 DEF ImportInv, BootstrapInv

LEMMA PeopleKeep ==
  ASSUME ImportInv,
         \/ \E i \in Issues \cup Documents : ForgeChanges(i)
         \/ \E i \in Importable : LosesMark(i)
         \/ Describe
  PROVE  ImportInv'
  <1>0. /\ onForge \subseteq Issues \cup Documents /\ rows \in [Importable -> 0..3]
        /\ description \in {"none", "human", "draft"}
        /\ \A i \in Importable : rows[i] <= rows[i] /\ rows[i] \in 0..3
    BY DEF ImportInv, BootstrapInv, BootstrapTypeOK
  <1>1. CASE \E i \in Issues \cup Documents : ForgeChanges(i)
    BY <1>0, <1>1, TurnKeeps DEF ForgeChanges
  <1>2. ASSUME NEW i \in Importable, LosesMark(i) PROVE ImportInv'
    <2>1. rows[i] - 1 \in 0..3 /\ rows[i] - 1 <= rows[i]
      BY <1>0, <1>2 DEF LosesMark
    <2>2. rows' = [rows EXCEPT ![i] = rows[i] - 1]
      BY <1>2 DEF LosesMark
    <2>3. rows' \in [Importable -> 0..3] /\ \A j \in Importable : rows'[j] <= rows[j]
      BY <1>0, <2>1, <2>2
    <2>. QED BY <1>0, <1>2, <2>3, TurnKeeps DEF LosesMark
  <1>3. CASE Describe
    BY <1>0, <1>3, TurnKeeps DEF Describe
  <1>. QED BY <1>1, <1>2, <1>3

(* A request begins a section: what it has at hand has no row, and what another has too is
   crossed. *)
LEMMA SectionKeeps ==
  ASSUME ImportInv, NEW r \in Applies, BeginSection(r)
  PROVE  ImportInv'
  <1>1. PICK k \in After(r) :
          apply' = [apply EXCEPT ![r] = [@ EXCEPT
            !.section = k, !.left = Part(r, k), !.had = Imported \cap Part(r, k), !.open = onForge \cap Part(r, k)]]
    BY DEF BeginSection
  <1>2. /\ apply \in [Applies ->
            [at : ApplySteps, section : 0..4, left : SUBSET Importable, had : SUBSET Importable,
             open : SUBSET Importable, checked : SUBSET Importable, draft : BOOLEAN]]
        /\ rows \in [Importable -> 0..3] /\ crossed \subseteq Importable
        /\ k \in 0..4 /\ Part(r, k) \subseteq apply[r].checked
        /\ apply[r].at = "item"
    BY <1>1 DEF ImportInv, BootstrapInv, BootstrapTypeOK, After, Part, BeginSection
  <1>3. /\ apply'[r].left = Part(r, k) /\ apply'[r].had = Imported \cap Part(r, k)
        /\ apply'[r].open = onForge \cap Part(r, k) /\ apply'[r].section = k
        /\ apply'[r].at = "item" /\ apply'[r].checked = apply[r].checked /\ apply'[r].draft = apply[r].draft
        /\ \A q \in Applies \ {r} : apply'[q] = apply[q]
    BY <1>1, <1>2
  <1>4. \A q \in Applies \ {r} : AtHand(q) \cap apply'[r].left \subseteq crossed'
    BY DEF BeginSection
  <1>5. crossed \subseteq crossed'
    BY DEF BeginSection
  <1>6. \A q \in Applies : AtHand(q) \subseteq Importable
    BY <1>2, AtHandOnly
  <1>7. crossed' \subseteq Importable
    <2>1. \A q \in Applies : AtHand(q) \cap apply'[r].left \subseteq Importable
      BY <1>6
    <2>2. UNION {AtHand(q) \cap apply'[r].left : q \in Applies \ {r}} \subseteq Importable
      BY <2>1
    <2>. QED BY <2>2, <1>2 DEF BeginSection
  <1>8. BootstrapTypeOK'
    <2>1. apply' \in [Applies ->
            [at : ApplySteps, section : 0..4, left : SUBSET Importable, had : SUBSET Importable,
             open : SUBSET Importable, checked : SUBSET Importable, draft : BOOLEAN]]
      <3>1. [apply[r] EXCEPT !.section = k, !.left = Part(r, k), !.had = Imported \cap Part(r, k), !.open = onForge \cap Part(r, k)]
              \in [at : ApplySteps, section : 0..4, left : SUBSET Importable, had : SUBSET Importable,
                   open : SUBSET Importable, checked : SUBSET Importable, draft : BOOLEAN]
        BY <1>2
      <3>. QED BY <3>1, <1>1, <1>2
    <2>. QED BY <2>1, <1>7 DEF ImportInv, BootstrapInv, BootstrapTypeOK, BeginSection
  <1>9. WithinChecked'
    BY <1>2, <1>3 DEF ImportInv, WithinChecked
  <1>10. /\ \A q \in Applies \ {r} : AtHand(q)' = AtHand(q)
         /\ AtHand(r)' = Part(r, k) \ Imported
    BY <1>3 DEF AtHand
  <1>11. UNCHANGED rows
    BY DEF BeginSection
  <1>12. AtHandIsFresh'
    <2>1. \A i \in AtHand(r)' : rows[i] = 0
      BY <1>10, <1>2 DEF Imported
    <2>2. \A q \in Applies \ {r} : AtHand(q)' \cap AtHand(r)' \subseteq crossed'
      BY <1>10, <1>4, <1>3
    <2>. QED BY <2>1, <2>2, <1>5, <1>10, <1>11 DEF ImportInv, AtHandIsFresh
  <1>13. ImportedOnce'
    BY <1>5, <1>11 DEF ImportInv, BootstrapInv, ImportedOnce
  <1>14. NothingSilent'
    <2>1. Imported' = Imported /\ \A q \in Applies : apply'[q].checked = apply[q].checked
      BY <1>3, <1>11 DEF Imported
    <2>. QED BY <2>1 DEF ImportInv, BootstrapInv, NothingSilent
  <1>. QED BY <1>8, <1>9, <1>12, <1>13, <1>14 DEF ImportInv, BootstrapInv

(* One item: a row for what has none, or for what two requests are at. *)
LEMMA InsertItemKeeps ==
  ASSUME ImportInv, NEW r \in Applies, NEW i \in Importable, CreateItem(r, i), Inserted(i),
         i \in Suggested => rows[i] = 0,
         apply' = [apply EXCEPT ![r] = [@ EXCEPT
             !.left = apply[r].left \ {i}, !.had = apply[r].had \cup {i}]]
  PROVE  ImportInv'
  <1>1. /\ apply \in [Applies ->
            [at : ApplySteps, section : 0..4, left : SUBSET Importable, had : SUBSET Importable,
             open : SUBSET Importable, checked : SUBSET Importable, draft : BOOLEAN]]
        /\ rows \in [Importable -> 0..3] /\ crossed \subseteq Importable
        /\ apply[r].at = "item" /\ i \in AtHand(r) /\ UNCHANGED <<onForge, description, crossed, turns>>
        /\ rows[i] < 3 /\ rows' = [rows EXCEPT ![i] = rows[i] + 1]
    BY DEF ImportInv, BootstrapInv, BootstrapTypeOK, CreateItem, Inserted, AtHand, Had
  <1>2. /\ apply'[r].left = apply[r].left \ {i} /\ apply'[r].had = apply[r].had \cup {i}
        /\ apply'[r].at = "item" /\ apply'[r].checked = apply[r].checked
        /\ \A q \in Applies \ {r} : apply'[q] = apply[q]
    <2> DEFINE new == [apply[r] EXCEPT !.left = apply[r].left \ {i}, !.had = apply[r].had \cup {i}]
    <2>1. /\ new.left = apply[r].left \ {i} /\ new.had = apply[r].had \cup {i}
          /\ new.at = "item" /\ new.checked = apply[r].checked
      BY <1>1
    <2>2. apply' = [apply EXCEPT ![r] = new] /\ DOMAIN apply = Applies
      BY <1>1
    <2> HIDE DEF new
    <2>. QED BY <2>1, <2>2
  <1>3. rows[i] \in 0..3 /\ rows[i] + 1 \in 0..3 /\ rows'[i] = rows[i] + 1
        /\ \A j \in Importable \ {i} : rows'[j] = rows[j]
    BY <1>1
  <1>4. BootstrapTypeOK'
    <2>1. [apply[r] EXCEPT !.left = apply[r].left \ {i}, !.had = apply[r].had \cup {i}] \in
             [at : ApplySteps, section : 0..4, left : SUBSET Importable, had : SUBSET Importable,
              open : SUBSET Importable, checked : SUBSET Importable, draft : BOOLEAN]
      BY <1>1
    <2>2. apply' \in [Applies ->
             [at : ApplySteps, section : 0..4, left : SUBSET Importable, had : SUBSET Importable,
              open : SUBSET Importable, checked : SUBSET Importable, draft : BOOLEAN]]
      <3> DEFINE new == [apply[r] EXCEPT !.left = apply[r].left \ {i}, !.had = apply[r].had \cup {i}]
      <3>1. apply' = [apply EXCEPT ![r] = new]
        OBVIOUS
      <3> HIDE DEF new
      <3>. QED BY <3>1, <1>1, <2>1 DEF new
    <2>3. rows' \in [Importable -> 0..3]
      BY <1>1, <1>3
    <2>. QED BY <2>2, <2>3, <1>1 DEF ImportInv, BootstrapInv, BootstrapTypeOK
  <1>5. WithinChecked'
    BY <1>2, <1>1 DEF ImportInv, WithinChecked
  <1>6. /\ \A q \in Applies \ {r} : AtHand(q)' = AtHand(q)
        /\ AtHand(r)' = AtHand(r) \ {i}
    BY <1>2, AtHandOnly DEF AtHand
  <1>7. rows[i] = 0 \/ i \in crossed
    BY <1>1 DEF ImportInv, AtHandIsFresh
  <1>8. \A q \in Applies : i \in AtHand(q)' => i \in crossed
    BY <1>1, <1>6 DEF ImportInv, AtHandIsFresh
  <1>9. \A q \in Applies : AtHand(q)' \subseteq AtHand(q) /\ AtHand(q) \subseteq Importable
    BY <1>6, <1>1, AtHandOnly
  <1>10. AtHandIsFresh'
    <2>1. \A q \in Applies : \A j \in AtHand(q)' : rows'[j] = 0 \/ j \in crossed'
      <3> SUFFICES ASSUME NEW q \in Applies, NEW j \in AtHand(q)' PROVE rows'[j] = 0 \/ j \in crossed
        BY <1>1
      <3>1. j \in Importable /\ j \in AtHand(q)
        BY <1>9
      <3>2. CASE j = i
        BY <3>2, <1>8
      <3>3. CASE j # i
        BY <3>1, <3>3, <1>3 DEF ImportInv, AtHandIsFresh
      <3>. QED BY <3>2, <3>3
    <2>2. \A p, q \in Applies : p # q => AtHand(p)' \cap AtHand(q)' \subseteq crossed'
      BY <1>9, <1>1 DEF ImportInv, AtHandIsFresh
    <2>. QED BY <2>1, <2>2 DEF AtHandIsFresh
  <1>11. ImportedOnce'
    <2>1. rows'[i] <= 1 \/ i \in crossed \ Suggested
      BY <1>3, <1>7
    <2>. QED BY <2>1, <1>1, <1>3 DEF ImportInv, BootstrapInv, ImportedOnce
  <1>12. NothingSilent'
    <2>1. i \in apply[r].checked
      BY <1>1 DEF ImportInv, WithinChecked, AtHand
    <2>2. \A q \in Applies : apply'[q].checked = apply[q].checked
      BY <1>2
    <2>3. Imported' \subseteq Imported \cup {i}
      BY <1>3 DEF Imported
    <2>. QED BY <2>1, <2>2, <2>3 DEF ImportInv, BootstrapInv, NothingSilent
  <1>. QED BY <1>4, <1>5, <1>10, <1>11, <1>12 DEF ImportInv, BootstrapInv

(* The steps of a request that make no row and open no section. *)
LEMMA ApplyKeeps ==
  ASSUME ImportInv, NEW r \in Applies,
         \/ \E some \in SUBSET Importable, draft \in BOOLEAN : SendApply(r, some, draft)
         \/ EndSections(r) \/ SetOverview(r) \/ ApplyFails(r) \/ StampSync(r)
         \/ \E i \in Importable : SkipItem(r, i)
         \/ CloseApply(r, "failed") /\ UNCHANGED <<onForge, rows, description, crossed, turns>>
  PROVE  ImportInv'
  <1> DEFINE Row == [at : ApplySteps, section : 0..4, left : SUBSET Importable, had : SUBSET Importable,
                     open : SUBSET Importable, checked : SUBSET Importable, draft : BOOLEAN]
  <1>1. /\ apply[r] \in Row /\ description \in {"none", "human", "draft"}
        /\ apply[r].left \subseteq apply[r].checked /\ (apply[r].at # "item" => apply[r].left = {})
    BY DEF ImportInv, BootstrapInv, BootstrapTypeOK, WithinChecked
  <1>2. ASSUME NEW how \in {"failed", "done"}, CloseApply(r, how),
               UNCHANGED <<onForge, rows, description, crossed, turns>>
        PROVE  ImportInv'
    <2> DEFINE new == [NoApply EXCEPT !.at = how, !.checked = apply[r].checked]
    <2>1. /\ new \in Row /\ new.left = {} /\ new.checked = apply[r].checked /\ new.at # "idle"
      <3>1. NoApply \in Row /\ NoApply.left = {}
        BY DEF NoApply, ApplySteps
      <3>2. how \in ApplySteps /\ how # "idle" /\ apply[r].checked \subseteq Importable
        BY <1>1 DEF ApplySteps
      <3>. QED BY <3>1, <3>2
    <2>2. apply' = [apply EXCEPT ![r] = new]
      BY <1>2 DEF CloseApply
    <2> HIDE DEF new
    <2>. QED BY <2>1, <2>2, <1>1, <1>2, RequestStep
  <1>3. ASSUME NEW some \in SUBSET Importable, NEW draft \in BOOLEAN, SendApply(r, some, draft)
        PROVE  ImportInv'
    <2> DEFINE new == [apply[r] EXCEPT !.at = "item", !.checked = some, !.draft = draft]
    <2>1. /\ new \in Row /\ new.left = {} /\ new.checked = some /\ new.at = "item"
          /\ apply[r].left = {} /\ apply[r].checked = {}
      BY <1>1, <1>3 DEF SendApply, ApplySteps, ImportInv, WithinChecked
    <2>2. apply' = [apply EXCEPT ![r] = new]
      BY <1>3 DEF SendApply
    <2> HIDE DEF new
    <2>. QED BY <2>1, <2>2, <1>1, <1>3, RequestStep DEF SendApply
  <1>4. CASE EndSections(r)
    <2> DEFINE new == [apply[r] EXCEPT !.at = IF apply[r].draft THEN "overview" ELSE "stamp", !.had = {}, !.open = {}]
    <2>1. new \in Row /\ new.left = {} /\ new.checked = apply[r].checked /\ new.at \notin {"idle", "item"}
          /\ new.left \ new.had = {}
      BY <1>1, <1>4 DEF EndSections, ApplySteps
    <2>2. apply' = [apply EXCEPT ![r] = new]
      BY <1>4 DEF EndSections
    <2>3. UNCHANGED <<rows, crossed, turns, onForge, description>>
      BY <1>4 DEF EndSections
    <2> HIDE DEF new
    <2>. QED BY <2>1, <2>2, <2>3, <1>1, RequestStep
  <1>5. CASE SetOverview(r)
    <2> DEFINE new == [apply[r] EXCEPT !.at = "stamp"]
    <2>1. new \in Row /\ new.left = apply[r].left /\ new.had = apply[r].had /\ new.checked = apply[r].checked /\ apply[r].left = {}
          /\ new.at = "stamp"
      BY <1>1, <1>5 DEF SetOverview, ApplySteps
    <2>2. apply' = [apply EXCEPT ![r] = new]
      BY <1>5 DEF SetOverview
    <2> HIDE DEF new
    <2>. QED BY <2>1, <2>2, <1>1, <1>5, RequestStep DEF SetOverview
  <1>6. ASSUME NEW i \in Importable, SkipItem(r, i) PROVE ImportInv'
    <2> DEFINE new == [apply[r] EXCEPT !.left = apply[r].left \ {i}]
    <2>1. /\ new \in Row /\ new.left = apply[r].left \ {i} /\ new.had = apply[r].had
          /\ new.checked = apply[r].checked /\ new.at = "item"
      BY <1>1, <1>6 DEF SkipItem
    <2>2. apply' = [apply EXCEPT ![r] = new]
      BY <1>6 DEF SkipItem
    <2> HIDE DEF new
    <2>. QED BY <2>1, <2>2, <1>1, <1>6, RequestStep DEF SkipItem
  <1>. QED BY <1>2, <1>3, <1>4, <1>5, <1>6 DEF ApplyFails, StampSync

LEMMA ImportInit == BootstrapInit => ImportInv
  <1> SUFFICES ASSUME BootstrapInit PROVE ImportInv
    OBVIOUS
  <1>1. NoApply \in [at : ApplySteps, section : 0..4, left : SUBSET Importable, had : SUBSET Importable,
                     open : SUBSET Importable, checked : SUBSET Importable, draft : BOOLEAN]
    BY DEF NoApply, ApplySteps
  <1>2. \A r \in Applies : apply[r] = NoApply /\ apply[r].left = {} /\ apply[r].checked = {} /\ apply[r].at = "idle"
    BY DEF BootstrapInit, NoApply
  <1>3. BootstrapTypeOK
    BY <1>1, BootstrapAssumption DEF BootstrapInit, BootstrapTypeOK
  <1>4. WithinChecked /\ AtHandIsFresh
    BY <1>2 DEF WithinChecked, AtHandIsFresh, AtHand
  <1>5. ImportedOnce /\ NothingSilent
    BY DEF BootstrapInit, ImportedOnce, NothingSilent, Imported
  <1>. QED BY <1>3, <1>4, <1>5 DEF ImportInv, BootstrapInv

LEMMA ImportStepKeeps == ImportInv /\ [BootstrapNext]_bootstrapVars => ImportInv'
  <1> SUFFICES ASSUME ImportInv, [BootstrapNext]_bootstrapVars PROVE ImportInv'
    OBVIOUS
  <1>1. CASE UNCHANGED bootstrapVars
    BY <1>1 DEF bootstrapVars, ImportInv, BootstrapInv, BootstrapTypeOK, ImportedOnce, NothingSilent, Imported,
       WithinChecked, AtHandIsFresh, AtHand
  <1>2. CASE \/ \E i \in Issues \cup Documents : ForgeChanges(i)
             \/ \E i \in Importable : LosesMark(i)
             \/ Describe
    BY <1>2, PeopleKeep
  <1>3. ASSUME NEW r \in Applies, BeginSection(r) PROVE ImportInv'
    BY <1>3, SectionKeeps
  <1>4. ASSUME NEW r \in Applies,
               \/ \E some \in SUBSET Importable, draft \in BOOLEAN : SendApply(r, some, draft)
               \/ EndSections(r) \/ SetOverview(r) \/ ApplyFails(r) \/ StampSync(r)
               \/ \E i \in Importable : SkipItem(r, i)
        PROVE  ImportInv'
    BY <1>4, ApplyKeeps
  <1>5. ASSUME NEW r \in Applies, NEW i \in Importable, CreateItem(r, i) PROVE ImportInv'
    <2>1. CASE CloseApply(r, "failed") /\ UNCHANGED rows
      BY <2>1, <1>5, ApplyKeeps DEF CreateItem
    <2>2. CASE /\ ImportIssue(i) \/ ImportDoc(i) \/ ImportTrigger(i) \/ ImportAgent(i)
               /\ apply' = [apply EXCEPT ![r] = [@ EXCEPT
                       !.left = apply[r].left \ {i}, !.had = apply[r].had \cup {i}]]
      <3>1. Inserted(i) /\ (i \in Suggested => rows[i] = 0)
        BY <2>2, BootstrapAssumption DEF ImportIssue, ImportDoc, ImportTrigger, ImportAgent
      <3>. QED BY <2>2, <3>1, <1>5, InsertItemKeeps
    <2>. QED BY <1>5, <2>1, <2>2 DEF CreateItem
  <1>. QED BY <1>1, <1>2, <1>3, <1>4, <1>5 DEF BootstrapNext

(* What the import promises: an item has one row however often the checked part of a preview is
   sent, fails and is sent again, unless two requests were at it at once, and an agent even
   then; and only what a person left checked is made (Apply, for any items and requests). *)
THEOREM BootstrapInvariant == BootstrapSpec => []BootstrapInv
  <1>1. ImportInv => BootstrapInv
    BY DEF ImportInv
  <1>. QED BY <1>1, ImportInit, ImportStepKeeps, PTL DEF BootstrapSpec


------------------------------------------------------------------------------
(* Ordering: what a drag does to the order of a list.                        *)

\* The order by position and id is strict and total.
LEMMA BeforeIsOrder ==
  ASSUME NEW D, D \subseteq Nat, NEW pos, \A y \in D : pos[y] \in Nat
  PROVE  /\ \A a \in D : ~Before(pos, a, a)
         /\ \A a, b \in D : a # b => Before(pos, a, b) \/ Before(pos, b, a)
         /\ \A a, b \in D : Before(pos, a, b) => ~Before(pos, b, a) /\ a # b /\ pos[a] <= pos[b]
         /\ \A a, b, c \in D : Before(pos, a, b) /\ Before(pos, b, c) => Before(pos, a, c)
  <1>1. ASSUME NEW a \in D, NEW b \in D
        PROVE  /\ a \in Nat /\ b \in Nat /\ pos[a] \in Nat /\ pos[b] \in Nat
    OBVIOUS
  <1>2. \A a \in D : ~Before(pos, a, a)
    BY <1>1 DEF Before
  <1>3. \A a, b \in D : a # b => Before(pos, a, b) \/ Before(pos, b, a)
    BY <1>1 DEF Before
  <1>4. \A a, b \in D : Before(pos, a, b) => ~Before(pos, b, a) /\ a # b /\ pos[a] <= pos[b]
    BY <1>1 DEF Before
  <1>5. ASSUME NEW a \in D, NEW b \in D, NEW c \in D, Before(pos, a, b), Before(pos, b, c)
        PROVE  Before(pos, a, c)
    BY <1>1, <1>5 DEF Before
  <1>. QED BY <1>2, <1>3, <1>4, <1>5

\* What lacks one of a finite set has fewer.
LEMMA FewerThan ==
  ASSUME NEW A, IsFiniteSet(A), NEW B, B \subseteq A, NEW z \in A, z \notin B
  PROVE  Cardinality(B) \in Nat /\ Cardinality(A) \in Nat /\ Cardinality(B) < Cardinality(A)
  <1>1. IsFiniteSet(B) /\ Cardinality(B) <= Cardinality(A) /\ (Cardinality(A) = Cardinality(B) => A = B)
    BY FS_Subset
  <1>2. Cardinality(B) \in Nat /\ Cardinality(A) \in Nat
    BY <1>1, FS_CardinalityType
  <1>. QED BY <1>1, <1>2

\* Where an order has no circles, a finite set has one that nothing of it is below.
LEMMA SomeIsLast ==
  ASSUME NEW S, IsFiniteSet(S), S # {}, NEW Over,
         \A y \in S : Over[y] \subseteq S /\ y \notin Over[y],
         \A y \in S : \A z \in Over[y] : Over[z] \subseteq Over[y]
  PROVE  \E y \in S : Over[y] = {}
  <1> DEFINE N == {Cardinality(Over[y]) : y \in S}
  <1>1. \A y \in S : Cardinality(Over[y]) \in Nat
    <2>. SUFFICES ASSUME NEW y \in S PROVE Cardinality(Over[y]) \in Nat
      OBVIOUS
    <2>1. IsFiniteSet(Over[y])
      BY FS_Subset
    <2>. QED BY <2>1, FS_CardinalityType
  <1>2. N \subseteq Nat /\ N # {}
    BY <1>1
  <1>3. PICK n \in N : \A m \in N : ~ (<<m, n>> \in OpToRel(<, Nat))
    BY <1>2, NatLessThanWellFounded, WFMin
  <1>4. \A m \in N : ~(m < n)
    BY <1>2, <1>3 DEF OpToRel
  <1>5. PICK y \in S : n = Cardinality(Over[y])
    OBVIOUS
  <1>6. Over[y] = {}
    <2>. SUFFICES ASSUME NEW z \in Over[y] PROVE FALSE
      OBVIOUS
    <2>1. z \in S /\ Over[z] \subseteq Over[y] /\ z \notin Over[z]
      OBVIOUS
    <2>2. IsFiniteSet(Over[y])
      BY FS_Subset
    <2>3. Cardinality(Over[z]) < Cardinality(Over[y])
      BY <2>1, <2>2, FewerThan
    <2>4. Cardinality(Over[z]) \in N
      BY <2>1
    <2>. QED BY <1>4, <1>5, <2>3, <2>4
  <1>. QED BY <1>6

\* So a list that is not empty has a last item and a first.
LEMMA LastIs ==
  ASSUME NEW S, S \subseteq Nat, IsFiniteSet(S), S # {}, NEW pos, \A y \in S : pos[y] \in Nat
  PROVE  LastIn(S, pos) \in S /\ \A y \in S \ {LastIn(S, pos)} : Before(pos, y, LastIn(S, pos))
  <1> DEFINE Over == [y \in S |-> {z \in S : Before(pos, y, z)}]
  <1>1. \A y \in S : Over[y] \subseteq S /\ y \notin Over[y]
    BY BeforeIsOrder
  <1>2. \A y \in S : \A z \in Over[y] : Over[z] \subseteq Over[y]
    <2>1. \A a, b, c \in S : Before(pos, a, b) /\ Before(pos, b, c) => Before(pos, a, c)
      BY BeforeIsOrder
    <2>. QED BY <2>1
  <1>3. \E y \in S : Over[y] = {}
    <2>. HIDE DEF Over
    <2>. QED BY <1>1, <1>2, SomeIsLast
  <1>4. PICK y \in S : Over[y] = {}
    BY <1>3
  <1>5. \A z \in S \ {y} : Before(pos, z, y)
    BY <1>4, BeforeIsOrder
  <1>. QED BY <1>5 DEF LastIn

LEMMA FirstIs ==
  ASSUME NEW S, S \subseteq Nat, IsFiniteSet(S), S # {}, NEW pos, \A y \in S : pos[y] \in Nat
  PROVE  FirstIn(S, pos) \in S /\ \A y \in S \ {FirstIn(S, pos)} : Before(pos, FirstIn(S, pos), y)
  <1> DEFINE Over == [y \in S |-> {z \in S : Before(pos, z, y)}]
  <1>1. \A y \in S : Over[y] \subseteq S /\ y \notin Over[y]
    BY BeforeIsOrder
  <1>2. \A y \in S : \A z \in Over[y] : Over[z] \subseteq Over[y]
    <2>1. \A a, b, c \in S : Before(pos, a, b) /\ Before(pos, b, c) => Before(pos, a, c)
      BY BeforeIsOrder
    <2>. QED BY <2>1
  <1>3. \E y \in S : Over[y] = {}
    <2>. HIDE DEF Over
    <2>. QED BY <1>1, <1>2, SomeIsLast
  <1>4. PICK y \in S : Over[y] = {}
    BY <1>3
  <1>5. \A z \in S \ {y} : Before(pos, y, z)
    BY <1>4, BeforeIsOrder
  <1>. QED BY <1>5 DEF FirstIn

\* A list of others into which x goes behind those ahead of it.
List(pos, rest, ahead, x) ==
  /\ rest \subseteq Nat /\ IsFiniteSet(rest) /\ x \in Nat /\ x \notin rest
  /\ ahead \subseteq rest /\ \A y \in ahead, z \in rest : Before(pos, z, y) => z \in ahead
  /\ pos = [y \in DOMAIN pos |-> pos[y]] /\ rest \cup {x} \subseteq DOMAIN pos
  /\ \A y \in rest : pos[y] \in Nat /\ pos[y] # 0

\* x is there, the others are as they were, and nothing else is touched.
Placed(new, pos, rest, ahead, x) ==
  /\ \A y \in ahead : Before(new, y, x)
  /\ \A y \in rest \ ahead : Before(new, x, y)
  /\ \A y, z \in rest : Before(pos, y, z) => Before(new, y, z)
  /\ new = [y \in DOMAIN pos |-> new[y]]
  /\ \A y \in DOMAIN pos \ (rest \cup {x}) : new[y] = pos[y]
  /\ \A y \in rest \cup {x} : new[y] \in Nat /\ new[y] # 0

\* A position between its neighbours' does it.
LEMMA MidPlaces ==
  ASSUME NEW pos, NEW rest, NEW ahead, NEW x, List(pos, rest, ahead, x), NEW m \in Nat, m # 0,
         \A y \in ahead : pos[y] < m, \A y \in rest \ ahead : m < pos[y]
  PROVE  Placed([pos EXCEPT ![x] = m], pos, rest, ahead, x)
  <1> DEFINE new == [pos EXCEPT ![x] = m]
  <1>1. new = [y \in DOMAIN pos |-> new[y]]
    BY DEF List
  <1>2. new[x] = m /\ \A y \in DOMAIN pos \ {x} : new[y] = pos[y]
    BY DEF List
  <1>3. x \notin rest /\ ahead \subseteq rest /\ rest \cup {x} \subseteq DOMAIN pos
    BY DEF List
  <1>4. \A y \in rest : new[y] = pos[y]
    BY <1>2, <1>3
  <1>5. \A y \in rest : pos[y] \in Nat /\ pos[y] # 0
    BY DEF List
  <1>. HIDE DEF new
  <1>6. \A y \in ahead : Before(new, y, x)
    BY <1>2, <1>3, <1>4 DEF Before
  <1>7. \A y \in rest \ ahead : Before(new, x, y)
    BY <1>2, <1>3, <1>4 DEF Before
  <1>8. \A y, z \in rest : Before(pos, y, z) => Before(new, y, z)
    BY <1>4 DEF Before
  <1>9. \A y \in DOMAIN pos \ (rest \cup {x}) : new[y] = pos[y]
    BY <1>2
  <1>10. \A y \in rest \cup {x} : new[y] \in Nat /\ new[y] # 0
    BY <1>2, <1>4, <1>5
  <1>11. Placed(new, pos, rest, ahead, x)
    BY <1>1, <1>6, <1>7, <1>8, <1>9, <1>10 DEF Placed
  <1>. QED BY <1>11 DEF new

\* Multiples of the gap grow with what they are multiples of.
LEMMA GapGrows ==
  /\ \A a \in Nat : (a + 1) * Gap \in Nat /\ (a + 1) * Gap # 0
  /\ \A a, b \in Nat : a < b => (a + 1) * Gap < (b + 1) * Gap
  <1>1. PICK g \in Nat : g = Gap /\ g # 0
    BY OrderingAssumption
  <1>2. \A a \in Nat : (a + 1) * g \in Nat /\ (a + 1) * g # 0
    BY <1>1
  <1>3. ASSUME NEW a \in Nat, NEW b \in Nat, a < b
        PROVE  (a + 1) * g < (b + 1) * g
    <2>1. PICK d \in Nat : b = a + d /\ d # 0
      <3>1. b - a \in Nat /\ b = a + (b - a) /\ b - a # 0
        BY <1>3
      <3>. QED BY <3>1
    <2>2. (b + 1) * g = (a + 1) * g + d * g
      BY <2>1, <1>1
    <2>3. d * g \in Nat /\ d * g # 0
      BY <2>1, <1>1
    <2>4. (a + 1) * g \in Nat
      BY <1>2
    <2>. QED BY <2>2, <2>3, <2>4
  <1>. QED BY <1>1, <1>2, <1>3

\* And so does a renumbering, by how many are before each.
LEMMA RenumberedPlaces ==
  ASSUME NEW pos, NEW rest, NEW ahead, NEW x, List(pos, rest, ahead, x)
  PROVE  Placed(Renumbered(pos, rest, ahead, x), pos, rest, ahead, x)
  <1> DEFINE Early(y) == IF y = x THEN ahead
                         ELSE {z \in rest : Before(pos, z, y)} \cup {z \in {x} : y \notin ahead}
             new == Renumbered(pos, rest, ahead, x)
  <1>1. new = [y \in DOMAIN pos |->
                 IF y \in rest \cup {x} THEN (Cardinality(Early(y)) + 1) * Gap ELSE pos[y]]
    BY DEF Renumbered
  <1>2. /\ rest \subseteq Nat /\ IsFiniteSet(rest) /\ x \notin rest /\ ahead \subseteq rest
        /\ rest \cup {x} \subseteq DOMAIN pos /\ \A y \in rest : pos[y] \in Nat
        /\ \A y \in ahead, z \in rest : Before(pos, z, y) => z \in ahead
    BY DEF List
  <1>3. new = [y \in DOMAIN pos |-> new[y]]
    BY <1>1
  <1>4. \A y \in DOMAIN pos \ (rest \cup {x}) : new[y] = pos[y]
    BY <1>1
  <1>5. \A y \in rest \cup {x} : new[y] = (Cardinality(Early(y)) + 1) * Gap
    BY <1>1, <1>2
  <1>. HIDE DEF new
  <1>6. IsFiniteSet(rest \cup {x}) /\ \A y : Early(y) \subseteq rest \cup {x}
    BY <1>2, FS_AddElement
  <1>7. \A y : IsFiniteSet(Early(y)) /\ Cardinality(Early(y)) \in Nat
    <2>. SUFFICES ASSUME NEW y PROVE IsFiniteSet(Early(y)) /\ Cardinality(Early(y)) \in Nat
      OBVIOUS
    <2>. HIDE DEF Early
    <2>1. IsFiniteSet(Early(y))
      BY <1>6, FS_Subset
    <2>. QED BY <2>1, FS_CardinalityType
  <1>8. ASSUME NEW y \in rest \cup {x}, NEW z \in rest \cup {x},
               Early(y) \subseteq Early(z), NEW w \in Early(z), w \notin Early(y)
        PROVE  Before(new, y, z)
    <2>. HIDE DEF Early
    <2>1. Cardinality(Early(y)) < Cardinality(Early(z))
      BY <1>7, <1>8, FewerThan
    <2>2. new[y] < new[z]
      BY <1>5, <1>7, <2>1, GapGrows
    <2>. QED BY <2>2 DEF Before
  <1>9. ASSUME NEW y \in ahead PROVE Before(new, y, x)
    <2>1. Early(y) \subseteq Early(x)
      BY <1>2
    <2>2. y \in Early(x)
      BY <1>2
    <2>3. y \notin Early(y)
      BY <1>2, BeforeIsOrder
    <2>. HIDE DEF Early
    <2>. QED BY <1>2, <1>8, <2>1, <2>2, <2>3
  <1>10. ASSUME NEW y \in rest \ ahead PROVE Before(new, x, y)
    <2>1. Early(x) \subseteq Early(y)
      <3>1. ASSUME NEW z \in ahead PROVE Before(pos, z, y)
        <4>1. z # y /\ z \in rest /\ y \in rest
          BY <1>2
        <4>2. ~Before(pos, y, z)
          BY <1>2, <4>1
        <4>. QED BY <1>2, <4>1, <4>2, BeforeIsOrder
      <3>. QED BY <1>2, <3>1
    <2>2. x \in Early(y)
      BY <1>2
    <2>3. x \notin Early(x)
      BY <1>2
    <2>. HIDE DEF Early
    <2>. QED BY <1>2, <1>8, <2>1, <2>2, <2>3
  <1>11. ASSUME NEW y \in rest, NEW z \in rest, Before(pos, y, z)
         PROVE  Before(new, y, z)
    <2>1. z \in ahead => y \in ahead
      BY <1>2, <1>11
    <2>2. \A w \in rest : Before(pos, w, y) => Before(pos, w, z)
      BY <1>2, <1>11, BeforeIsOrder
    <2>3. Early(y) \subseteq Early(z)
      BY <1>2, <2>1, <2>2
    <2>4. y \in Early(z) /\ y \notin Early(y)
      BY <1>2, <1>11, BeforeIsOrder
    <2>. HIDE DEF Early
    <2>. QED BY <1>8, <2>3, <2>4
  <1>12. \A y \in rest \cup {x} : new[y] \in Nat /\ new[y] # 0
    <2>. HIDE DEF Early
    <2>. QED BY <1>5, <1>7, GapGrows
  <1>13. Placed(new, pos, rest, ahead, x)
    BY <1>3, <1>4, <1>9, <1>10, <1>11, <1>12 DEF Placed
  <1>. QED BY <1>13 DEF new

\* Where a request aims: on top, at the end, or behind one of the others.
LEMMA AheadIs ==
  ASSUME NEW rest, rest \subseteq Nat, IsFiniteSet(rest), NEW x \in Nat \ rest,
         NEW pos, pos = [y \in DOMAIN pos |-> pos[y]], rest \cup {x} \subseteq DOMAIN pos,
         \A y \in rest : pos[y] \in Nat /\ pos[y] # 0,
         NEW after, after \in {Top, End} \cup rest
  PROVE  List(pos, rest, InFront(rest, pos, after), x)
  <1> DEFINE ahead == InFront(rest, pos, after)
  <1>1. ahead \subseteq rest
    BY DEF InFront
  <1>2. ASSUME NEW y \in ahead, NEW z \in rest, Before(pos, z, y)
        PROVE  z \in ahead
    <2>1. CASE after = End
      BY <2>1 DEF InFront
    <2>2. CASE after # End
      <3>1. after \in rest /\ after # Top /\ (y = after \/ Before(pos, y, after))
        BY <2>2 DEF InFront
      <3>2. Before(pos, z, after)
        BY <1>1, <1>2, <3>1, BeforeIsOrder
      <3>. QED BY <3>1, <3>2 DEF InFront
    <2>. QED BY <2>1, <2>2
  <1>. HIDE DEF ahead
  <1>3. List(pos, rest, ahead, x)
    BY <1>1, <1>2 DEF List
  <1>. QED BY <1>3 DEF ahead

\* What is placed there is directly behind what the request names.
LEMMA PlacedLands ==
  ASSUME NEW rest, NEW x, NEW pos, NEW new, NEW after,
         after \in {Top, End} \cup rest, Top # End, {Top, End} \cap rest = {},
         List(pos, rest, InFront(rest, pos, after), x),
         Placed(new, pos, rest, InFront(rest, pos, after), x)
  PROVE  Lands(rest \cup {x}, new, x, after)
  <1> DEFINE ahead == InFront(rest, pos, after)
             S == rest \cup {x}
  <1>1. /\ x \notin rest /\ S \ {x} = rest /\ S \subseteq Nat
        /\ \A y \in S : new[y] \in Nat
        /\ \A y \in ahead : Before(new, y, x)
        /\ \A y \in rest \ ahead : Before(new, x, y)
    BY DEF List, Placed
  <1>2. CASE after = Top
    <2>1. ahead = {}
      BY <1>2 DEF InFront
    <2>. HIDE DEF ahead
    <2>. QED BY <1>1, <1>2, <2>1 DEF Lands
  <1>3. CASE after = End
    <2>1. ahead = rest
      BY <1>3 DEF InFront
    <2>. HIDE DEF ahead
    <2>. QED BY <1>1, <1>3, <2>1 DEF Lands
  <1>4. CASE after \in rest
    <2>1. after \in ahead /\ after # Top /\ after # End
      BY <1>4 DEF InFront
    <2>2. ASSUME NEW y \in S \ {x, after}, Before(new, after, y)
          PROVE  Before(new, x, y)
      <3>1. y \in rest
        BY <1>1
      <3>2. y \notin ahead
        <4>. SUFFICES ASSUME y \in ahead PROVE FALSE
          OBVIOUS
        <4>1. Before(pos, y, after)
          BY <2>1, <2>2 DEF InFront
        <4>2. Before(new, y, after)
          BY <1>4, <3>1, <4>1 DEF Placed
        <4>. QED BY <1>1, <1>4, <2>2, <4>2, BeforeIsOrder
      <3>. QED BY <1>1, <3>1, <3>2
    <2>3. after \in S /\ Before(new, after, x)
      BY <1>1, <1>4, <2>1
    <2>. QED BY <2>1, <2>2, <2>3 DEF Lands
  <1>. QED BY <1>2, <1>3, <1>4

\* The neighbours a new position goes between.
LEMMA NeighboursAre ==
  ASSUME NEW pos, NEW rest, NEW ahead, NEW x, List(pos, rest, ahead, x)
  PROVE  /\ ahead # {} => /\ pos[LastIn(ahead, pos)] \in Nat /\ pos[LastIn(ahead, pos)] # 0
                          /\ \A y \in ahead : pos[y] <= pos[LastIn(ahead, pos)]
         /\ ahead # rest => /\ pos[FirstIn(rest \ ahead, pos)] \in Nat /\ pos[FirstIn(rest \ ahead, pos)] # 0
                            /\ \A y \in rest \ ahead : pos[FirstIn(rest \ ahead, pos)] <= pos[y]
         /\ ahead # {} /\ ahead # rest => pos[LastIn(ahead, pos)] <= pos[FirstIn(rest \ ahead, pos)]
  <1>1. /\ rest \subseteq Nat /\ IsFiniteSet(rest) /\ ahead \subseteq rest
        /\ \A y \in ahead, z \in rest : Before(pos, z, y) => z \in ahead
        /\ \A y \in rest : pos[y] \in Nat /\ pos[y] # 0
    BY DEF List
  <1>2. IsFiniteSet(ahead) /\ IsFiniteSet(rest \ ahead)
    BY <1>1, FS_Subset
  <1> DEFINE l == LastIn(ahead, pos)
             f == FirstIn(rest \ ahead, pos)
  <1>3. ahead # {} => l \in ahead /\ \A y \in ahead \ {l} : Before(pos, y, l)
    BY <1>1, <1>2, LastIs
  <1>4. ahead # rest => f \in rest \ ahead /\ \A y \in (rest \ ahead) \ {f} : Before(pos, f, y)
    BY <1>1, <1>2, FirstIs
  <1>. HIDE DEF l, f
  <1>5. ahead # {} => pos[l] \in Nat /\ pos[l] # 0 /\ \A y \in ahead : pos[y] <= pos[l]
    <2>. SUFFICES ASSUME ahead # {}
                  PROVE  pos[l] \in Nat /\ pos[l] # 0 /\ \A y \in ahead : pos[y] <= pos[l]
      OBVIOUS
    <2>1. l \in rest /\ pos[l] \in Nat /\ pos[l] # 0
      BY <1>1, <1>3
    <2>2. ASSUME NEW y \in ahead, y # l
          PROVE  pos[y] <= pos[l]
      <3>1. y \in rest /\ Before(pos, y, l)
        BY <1>1, <1>3, <2>2
      <3>. QED BY <1>1, <2>1, <3>1, BeforeIsOrder
    <2>. QED BY <2>1, <2>2
  <1>6. ahead # rest => pos[f] \in Nat /\ pos[f] # 0 /\ \A y \in rest \ ahead : pos[f] <= pos[y]
    <2>. SUFFICES ASSUME ahead # rest
                  PROVE  pos[f] \in Nat /\ pos[f] # 0 /\ \A y \in rest \ ahead : pos[f] <= pos[y]
      OBVIOUS
    <2>1. f \in rest /\ pos[f] \in Nat /\ pos[f] # 0
      BY <1>1, <1>4
    <2>2. ASSUME NEW y \in rest \ ahead, y # f
          PROVE  pos[f] <= pos[y]
      <3>1. y \in rest /\ Before(pos, f, y)
        BY <1>4, <2>2
      <3>. QED BY <1>1, <2>1, <3>1, BeforeIsOrder
    <2>. QED BY <2>1, <2>2
  <1>7. ASSUME ahead # {}, ahead # rest
        PROVE  pos[l] <= pos[f]
    <2>1. ~Before(pos, f, l)
      BY <1>1, <1>3, <1>4, <1>7
    <2>. QED BY <1>5, <1>6, <1>7, <2>1 DEF Before
  <1>. QED BY <1>5, <1>6, <1>7 DEF l, f

\* Half of what is between two numbers.
LEMMA HalfOf ==
  ASSUME NEW a \in Nat, NEW b \in Nat, a <= b
  PROVE  a + (b - a) \div 2 \in Nat
  OBVIOUS

\* The columns of a board and the criteria of a ticket.
LEMMA BetweenPlaces ==
  ASSUME NEW pos, NEW rest, NEW ahead, NEW x, List(pos, rest, ahead, x)
  PROVE  Placed(Between(pos, rest, ahead, x), pos, rest, ahead, x)
  <1> DEFINE lo  == IF ahead = {} THEN 0 ELSE pos[LastIn(ahead, pos)]
             hi  == pos[FirstIn(rest \ ahead, pos)]
             mid == lo + (hi - lo) \div 2
  <1>1. Between(pos, rest, ahead, x) =
          CASE rest = {} -> [pos EXCEPT ![x] = Gap]
            [] rest # {} /\ ahead = rest -> [pos EXCEPT ![x] = lo + Gap]
            [] ahead # rest /\ mid > lo /\ mid < hi -> [pos EXCEPT ![x] = mid]
            [] OTHER -> Renumbered(pos, rest, ahead, x)
    BY DEF Between
  <1>2. Gap \in Nat /\ Gap # 0 /\ ahead \subseteq rest /\ \A y \in rest : pos[y] \in Nat
    BY OrderingAssumption DEF List
  <1>3. lo \in Nat /\ \A y \in ahead : pos[y] <= lo
    BY NeighboursAre
  <1>4. ahead # rest => hi \in Nat /\ lo <= hi /\ \A y \in rest \ ahead : hi <= pos[y]
    BY NeighboursAre
  <1>. HIDE DEF lo, hi
  <1>5. ahead # rest => mid \in Nat
    BY <1>3, <1>4, HalfOf
  <1>. HIDE DEF mid
  <1>6. CASE rest = {}
    <2>1. (\A y \in ahead : pos[y] < Gap) /\ (\A y \in rest \ ahead : Gap < pos[y])
      BY <1>2, <1>6
    <2> DEFINE m == Gap
    <2>2. m \in Nat /\ m # 0 /\ (\A y \in ahead : pos[y] < m) /\ (\A y \in rest \ ahead : m < pos[y])
      BY <1>2, <2>1
    <2>. HIDE DEF m
    <2>3. Placed([pos EXCEPT ![x] = m], pos, rest, ahead, x)
      BY <2>2, MidPlaces
    <2>4. Placed([pos EXCEPT ![x] = Gap], pos, rest, ahead, x)
      BY <2>3 DEF m
    <2>5. ahead = rest
      BY <1>2, <1>6
    <2>. QED BY <1>1, <1>6, <2>4, <2>5
  <1>7. CASE rest # {} /\ ahead = rest
    <2>1. lo + Gap \in Nat /\ lo + Gap # 0 /\ \A y \in ahead : pos[y] < lo + Gap
      BY <1>2, <1>3
    <2>2. Placed([pos EXCEPT ![x] = lo + Gap], pos, rest, ahead, x)
      BY <1>7, <2>1, MidPlaces
    <2>. QED BY <1>1, <1>7, <2>2
  <1>8. CASE rest # {} /\ ahead # rest /\ mid > lo /\ mid < hi
    <2>1. mid # 0 /\ (\A y \in ahead : pos[y] < mid) /\ (\A y \in rest \ ahead : mid < pos[y])
      BY <1>2, <1>3, <1>4, <1>5, <1>8
    <2>2. Placed([pos EXCEPT ![x] = mid], pos, rest, ahead, x)
      BY <1>5, <1>8, <2>1, MidPlaces
    <2>. QED BY <1>1, <1>8, <2>2
  <1>9. CASE rest # {} /\ ahead # rest /\ ~(mid > lo /\ mid < hi)
    BY <1>1, <1>9, RenumberedPlaces
  <1>. QED BY <1>6, <1>7, <1>8, <1>9

\* A ticket in a column.
LEMMA TicketPlaces ==
  ASSUME NEW t, NEW c, NEW after,
         List(place, ForColumn(c) \ {t}, InFront(ForColumn(c) \ {t}, place, after), t)
  PROVE  Placed(PlaceTicket(t, c, after), place, ForColumn(c) \ {t},
                InFront(ForColumn(c) \ {t}, place, after), t)
  <1> DEFINE rest  == ForColumn(c) \ {t}
             ahead == InFront(rest, place, after)
             lo    == IF ahead = {} THEN 0 ELSE place[LastIn(ahead, place)]
             hi    == IF ahead = rest THEN 0 ELSE place[FirstIn(rest \ ahead, place)]
             pos   == PositionBetween(lo, hi)
  <1>1. PlaceTicket(t, c, after) = IF pos > lo /\ (hi = 0 \/ pos < hi)
                                   THEN [place EXCEPT ![t] = pos] ELSE Renumbered(place, rest, ahead, t)
    BY DEF PlaceTicket
  <1>2. List(place, rest, ahead, t)
    OBVIOUS
  <1>. HIDE DEF rest, ahead
  <1>3. Gap \in Nat /\ Gap # 0 /\ ahead \subseteq rest /\ \A y \in rest : place[y] \in Nat
    BY <1>2, OrderingAssumption DEF List
  <1>4. lo \in Nat /\ \A y \in ahead : place[y] <= lo
    BY <1>2, NeighboursAre
  <1>5. /\ hi \in Nat /\ (hi # 0 => lo <= hi) /\ (hi = 0 => ahead = rest)
        /\ \A y \in rest \ ahead : hi <= place[y]
    <2>1. CASE ahead = rest
      BY <1>4, <2>1
    <2>2. CASE ahead # rest
      <3>1. hi = place[FirstIn(rest \ ahead, place)]
        BY <2>2
      <3>2. hi \in Nat /\ hi # 0 /\ \A y \in rest \ ahead : hi <= place[y]
        BY <1>2, <2>2, <3>1, NeighboursAre
      <3>3. ahead # {} => place[LastIn(ahead, place)] <= hi
        BY <1>2, <2>2, <3>1, NeighboursAre
      <3>4. lo <= hi
        BY <3>2, <3>3
      <3>. QED BY <2>2, <3>2, <3>4
    <2>. QED BY <2>1, <2>2
  <1>. HIDE DEF lo, hi
  <1>6. pos \in Nat
    <2>1. hi \div 2 \in Nat /\ (hi # 0 => lo + (hi - lo) \div 2 \in Nat)
      BY <1>4, <1>5, HalfOf
    <2>. QED BY <1>3, <1>4, <1>5, <2>1 DEF PositionBetween
  <1>. HIDE DEF pos
  <1>7. CASE pos > lo /\ (hi = 0 \/ pos < hi)
    <2>1. pos # 0 /\ (\A y \in ahead : place[y] < pos) /\ (\A y \in rest \ ahead : pos < place[y])
      BY <1>3, <1>4, <1>5, <1>6, <1>7
    <2>2. Placed([place EXCEPT ![t] = pos], place, rest, ahead, t)
      BY <1>2, <1>6, <2>1, MidPlaces
    <2>3. Placed(PlaceTicket(t, c, after), place, rest, ahead, t)
      BY <1>1, <1>7, <2>2
    <2>. QED BY <2>3 DEF rest, ahead
  <1>8. CASE ~(pos > lo /\ (hi = 0 \/ pos < hi))
    <2>1. Placed(PlaceTicket(t, c, after), place, rest, ahead, t)
      BY <1>1, <1>2, <1>8, RenumberedPlaces
    <2>. QED BY <2>1 DEF rest, ahead
  <1>. QED BY <1>7, <1>8

------------------------------------------------------------------------------
(* The requests.                                                             *)

\* Positions are numbers; 0 is of what is not there.
OrderTyped ==
  /\ lane \in [Cards -> Lanes \cup {NoLane}] /\ hidden \in [Cards -> BOOLEAN]
  /\ place \in [Cards -> Nat] /\ \A t \in Cards : lane[t] # NoLane => place[t] # 0
  /\ lanePos \in [Lanes -> Nat] /\ itemPos \in [Items -> Nat]

\* What is on a list, and what of it.
LEMMA ListsAre ==
  ASSUME OrderTyped
  PROVE  /\ \A c \in Lanes : /\ ForColumn(c) \subseteq Cards /\ IsFiniteSet(ForColumn(c))
                             /\ \A t \in ForColumn(c) : place[t] \in Nat /\ place[t] # 0
         /\ OnBoard \subseteq Lanes /\ IsFiniteSet(OnBoard) /\ \A c \in OnBoard : lanePos[c] \in Nat /\ lanePos[c] # 0
         /\ Listed \subseteq Items /\ IsFiniteSet(Listed) /\ \A i \in Listed : itemPos[i] \in Nat /\ itemPos[i] # 0
  <1>1. ASSUME NEW c \in Lanes
        PROVE  /\ ForColumn(c) \subseteq Cards /\ IsFiniteSet(ForColumn(c))
               /\ \A t \in ForColumn(c) : place[t] \in Nat /\ place[t] # 0
    <2>1. ForColumn(c) \subseteq Cards
      BY DEF ForColumn
    <2>2. IsFiniteSet(ForColumn(c))
      BY <2>1, OrderingAssumption, FS_Subset
    <2>3. \A t \in ForColumn(c) : place[t] \in Nat /\ place[t] # 0
      BY OrderingAssumption DEF OrderTyped, ForColumn, NoLane
    <2>. QED BY <2>1, <2>2, <2>3
  <1>2. OnBoard \subseteq Lanes /\ \A c \in OnBoard : lanePos[c] \in Nat /\ lanePos[c] # 0
    BY DEF OrderTyped, OnBoard
  <1>3. Listed \subseteq Items /\ \A i \in Listed : itemPos[i] \in Nat /\ itemPos[i] # 0
    BY DEF OrderTyped, Listed
  <1>4. IsFiniteSet(OnBoard) /\ IsFiniteSet(Listed)
    BY <1>2, <1>3, OrderingAssumption, FS_Subset
  <1>. QED BY <1>1, <1>2, <1>3, <1>4

\* A ticket that is dragged is placed in its column.
LEMMA MoveAfterPlaces ==
  ASSUME OrderTyped, NEW t \in Cards, NEW c \in Lanes, NEW a \in {Top, End} \cup Cards, MoveAfter(t, c, a)
  PROVE  /\ a \in {Top, End} \cup (ForColumn(c) \ {t})
         /\ List(place, ForColumn(c) \ {t}, InFront(ForColumn(c) \ {t}, place, a), t)
         /\ Placed(place', place, ForColumn(c) \ {t}, InFront(ForColumn(c) \ {t}, place, a), t)
  <1> DEFINE rest == ForColumn(c) \ {t}
  <1>1. a \in {Top, End} \cup rest
    BY DEF MoveAfter
  <1>2. rest \subseteq Cards /\ IsFiniteSet(rest) /\ \A y \in rest : place[y] \in Nat /\ place[y] # 0
    BY ListsAre, FS_Subset
  <1>3. Cards \subseteq Nat /\ DOMAIN place = Cards /\ place = [y \in DOMAIN place |-> place[y]]
    BY OrderingAssumption DEF OrderTyped
  <1>4. t \in Nat \ rest
    BY <1>3
  <1>. HIDE DEF rest
  <1>5. List(place, rest, InFront(rest, place, a), t)
    BY <1>1, <1>2, <1>3, <1>4, AheadIs
  <1>6. place' = PlaceTicket(t, c, a)
    BY DEF MoveAfter
  <1>7. Placed(place', place, rest, InFront(rest, place, a), t)
    BY <1>5, <1>6, TicketPlaces DEF rest
  <1>. QED BY <1>1, <1>5, <1>7 DEF rest

LEMMA MoveColumnPlaces ==
  ASSUME OrderTyped, NEW c \in Lanes, NEW a \in {Top} \cup Lanes, MoveColumn(c, a)
  PROVE  /\ a \in {Top} \cup (OnBoard \ {c})
         /\ List(lanePos, OnBoard \ {c}, InFront(OnBoard \ {c}, lanePos, a), c)
         /\ Placed(lanePos', lanePos, OnBoard \ {c}, InFront(OnBoard \ {c}, lanePos, a), c)
  <1> DEFINE rest == OnBoard \ {c}
  <1>1. a \in {Top, End} \cup rest /\ a \in {Top} \cup rest
    BY DEF MoveColumn
  <1>2. rest \subseteq Lanes /\ IsFiniteSet(rest) /\ \A y \in rest : lanePos[y] \in Nat /\ lanePos[y] # 0
    BY ListsAre, FS_Subset
  <1>3. Lanes \subseteq Nat /\ DOMAIN lanePos = Lanes /\ lanePos = [y \in DOMAIN lanePos |-> lanePos[y]]
    BY OrderingAssumption DEF OrderTyped
  <1>4. c \in Nat \ rest
    BY <1>3
  <1>5. lanePos' = Between(lanePos, rest, InFront(rest, lanePos, a), c)
    BY DEF MoveColumn, Reorder
  <1>. HIDE DEF rest
  <1>6. List(lanePos, rest, InFront(rest, lanePos, a), c)
    BY <1>1, <1>2, <1>3, <1>4, AheadIs
  <1>7. Placed(lanePos', lanePos, rest, InFront(rest, lanePos, a), c)
    BY <1>5, <1>6, BetweenPlaces
  <1>. QED BY <1>1, <1>6, <1>7 DEF rest

LEMMA MoveCriterionPlaces ==
  ASSUME OrderTyped, NEW i \in Items, NEW a \in {Top} \cup Items, MoveCriterion(i, a)
  PROVE  /\ a \in {Top} \cup (Listed \ {i})
         /\ List(itemPos, Listed \ {i}, InFront(Listed \ {i}, itemPos, a), i)
         /\ Placed(itemPos', itemPos, Listed \ {i}, InFront(Listed \ {i}, itemPos, a), i)
  <1> DEFINE rest == Listed \ {i}
  <1>1. a \in {Top, End} \cup rest /\ a \in {Top} \cup rest
    BY DEF MoveCriterion
  <1>2. rest \subseteq Items /\ IsFiniteSet(rest) /\ \A y \in rest : itemPos[y] \in Nat /\ itemPos[y] # 0
    BY ListsAre, FS_Subset
  <1>3. Items \subseteq Nat /\ DOMAIN itemPos = Items /\ itemPos = [y \in DOMAIN itemPos |-> itemPos[y]]
    BY OrderingAssumption DEF OrderTyped
  <1>4. i \in Nat \ rest
    BY <1>3
  <1>5. itemPos' = Between(itemPos, rest, InFront(rest, itemPos, a), i)
    BY DEF MoveCriterion, ReorderCriterion
  <1>. HIDE DEF rest
  <1>6. List(itemPos, rest, InFront(rest, itemPos, a), i)
    BY <1>1, <1>2, <1>3, <1>4, AheadIs
  <1>7. Placed(itemPos', itemPos, rest, InFront(rest, itemPos, a), i)
    BY <1>5, <1>6, BetweenPlaces
  <1>. QED BY <1>1, <1>6, <1>7 DEF rest

\* What a list becomes when one of it, or one new on it, is placed.
LEMMA PlacedIsTyped ==
  ASSUME NEW D, NEW pos \in [D -> Nat], NEW rest, rest \subseteq D, NEW ahead, NEW x \in D, NEW new,
         Placed(new, pos, rest, ahead, x)
  PROVE  /\ new \in [D -> Nat] /\ new[x] # 0
         /\ \A y \in D : pos[y] # 0 => new[y] # 0
         /\ \A y \in D : pos[y] = 0 /\ y \notin rest \cup {x} => new[y] = 0
  <1>1. new = [y \in D |-> new[y]] /\ DOMAIN pos = D
    BY DEF Placed
  <1>2. \A y \in D : y \notin rest \cup {x} => new[y] = pos[y]
    BY <1>1 DEF Placed
  <1>3. \A y \in rest \cup {x} : new[y] \in Nat /\ new[y] # 0
    BY DEF Placed
  <1>. QED BY <1>1, <1>2, <1>3

\* The drag lands: tickets, columns, criteria.
LEMMA TicketLands ==
  ASSUME OrderTyped, NEW t \in Cards, NEW c \in Lanes, NEW a \in {Top, End} \cup Cards, MoveAfter(t, c, a)
  PROVE  Lands(ForColumn(c)', place', t, a)
  <1>1. Lands((ForColumn(c) \ {t}) \cup {t}, place', t, a)
    <2>1. Top # End /\ {Top, End} \cap (ForColumn(c) \ {t}) = {}
      BY OrderingAssumption, ListsAre
    <2>. QED BY <2>1, MoveAfterPlaces, PlacedLands
  <1>2. ForColumn(c)' = (ForColumn(c) \ {t}) \cup {t}
    BY DEF MoveAfter, ForColumn, OrderTyped
  <1>. QED BY <1>1, <1>2

LEMMA ColumnLands ==
  ASSUME OrderTyped, NEW c \in Lanes, NEW a \in {Top} \cup Lanes, MoveColumn(c, a)
  PROVE  Lands(OnBoard', lanePos', c, a)
  <1> DEFINE rest == OnBoard \ {c}
  <1>1. Top # End /\ {Top, End} \cap rest = {}
    BY OrderingAssumption, ListsAre
  <1>2. /\ a \in {Top, End} \cup rest /\ List(lanePos, rest, InFront(rest, lanePos, a), c)
        /\ Placed(lanePos', lanePos, rest, InFront(rest, lanePos, a), c)
    BY MoveColumnPlaces
  <1>3. Lands(rest \cup {c}, lanePos', c, a)
    <2>. HIDE DEF rest
    <2>. QED BY <1>1, <1>2, PlacedLands
  <1>4. OnBoard' = rest \cup {c}
    <2>1. lanePos \in [Lanes -> Nat] /\ rest \subseteq Lanes
      BY ListsAre DEF OrderTyped
    <2>2. /\ lanePos' \in [Lanes -> Nat] /\ lanePos'[c] # 0
          /\ \A y \in Lanes : lanePos[y] # 0 => lanePos'[y] # 0
          /\ \A y \in Lanes : lanePos[y] = 0 /\ y \notin rest \cup {c} => lanePos'[y] = 0
      <3>. HIDE DEF rest
      <3>. QED BY <1>2, <2>1, PlacedIsTyped
    <2>. QED BY <2>1, <2>2 DEF OnBoard
  <1>. QED BY <1>3, <1>4

LEMMA CriterionLands ==
  ASSUME OrderTyped, NEW i \in Items, NEW a \in {Top} \cup Items, MoveCriterion(i, a)
  PROVE  Lands(Listed', itemPos', i, a)
  <1> DEFINE rest == Listed \ {i}
  <1>1. Top # End /\ {Top, End} \cap rest = {}
    BY OrderingAssumption, ListsAre
  <1>2. /\ a \in {Top, End} \cup rest /\ List(itemPos, rest, InFront(rest, itemPos, a), i)
        /\ Placed(itemPos', itemPos, rest, InFront(rest, itemPos, a), i)
    BY MoveCriterionPlaces
  <1>3. Lands(rest \cup {i}, itemPos', i, a)
    <2>. HIDE DEF rest
    <2>. QED BY <1>1, <1>2, PlacedLands
  <1>4. Listed' = rest \cup {i}
    <2>1. itemPos \in [Items -> Nat] /\ rest \subseteq Items
      BY ListsAre DEF OrderTyped
    <2>2. /\ itemPos' \in [Items -> Nat] /\ itemPos'[i] # 0
          /\ \A y \in Items : itemPos[y] # 0 => itemPos'[y] # 0
          /\ \A y \in Items : itemPos[y] = 0 /\ y \notin rest \cup {i} => itemPos'[y] = 0
      <3>. HIDE DEF rest
      <3>. QED BY <1>2, <2>1, PlacedIsTyped
    <2>. QED BY <2>1, <2>2 DEF Listed
  <1>. QED BY <1>3, <1>4

\* What is placed among others leaves them in their order.
LEMMA PlacedKeeps ==
  ASSUME NEW new, NEW pos, NEW rest, NEW ahead, NEW x, Placed(new, pos, rest, ahead, x),
         dropped' = x, NEW S, S \ {x} \subseteq rest, NEW T
  PROVE  StillOrdered(S, pos, T, new)
  BY DEF Placed, StillOrdered

\* And so does what moves none of them.
LEMMA SameIsKept ==
  ASSUME NEW S, NEW pos, NEW T, NEW new, \A x \in (S \cap T) \ {dropped'} : new[x] = pos[x]
  PROVE  StillOrdered(S, pos, T, new)
  BY DEF StillOrdered, Before

\* Deleting a column: its tickets move by one distance, past the last of the other.
LEMMA AllMove ==
  ASSUME OrderTyped, NEW c \in Lanes, NEW d \in Lanes, NEW s \in Cards, lane[s] = c
  PROVE  \E first, last \in Nat :
           /\ \A t \in Cards : lane[t] = c => first <= place[t]
           /\ \A t \in Cards : lane[t] = d => place[t] <= last
           /\ MoveAllToColumn(c, d) =
                [t \in Cards |-> IF lane[t] = c THEN last + 1 + place[t] - first ELSE place[t]]
  <1> DEFINE from  == {place[t] : t \in {u \in Cards : lane[u] = c}}
             to    == {place[t] : t \in {u \in Cards : lane[u] = d}} \cup {0}
             first == CHOOSE p \in from : \A q \in from : p <= q
             last  == CHOOSE p \in to : \A q \in to : p >= q
  <1>1. /\ Cards \subseteq Nat /\ IsFiniteSet(Cards)
        /\ \A t \in Cards : place[t] \in Nat
    BY OrderingAssumption DEF OrderTyped
  <1>2. from \subseteq Nat /\ from # {}
    BY <1>1
  <1>3. \E p \in from : \A q \in from : p <= q
    <2>. HIDE DEF from
    <2>1. PICK n \in from : \A m \in from : ~ (<<m, n>> \in OpToRel(<, Nat))
      BY <1>2, NatLessThanWellFounded, WFMin
    <2>2. \A m \in from : ~(m < n)
      BY <1>2, <2>1 DEF OpToRel
    <2>. QED BY <1>2, <2>2
  <1>4. first \in from /\ \A q \in from : first <= q
    <2>. HIDE DEF from
    <2>. QED BY <1>3
  <1>5. \E p \in to : \A q \in to : p >= q
    <2> DEFINE held == {u \in Cards : lane[u] = d}
    <2>1. held \subseteq Nat /\ IsFiniteSet(held) /\ \A y \in held : place[y] \in Nat
      <3>1. held \subseteq Cards
        OBVIOUS
      <3>. QED BY <1>1, <3>1, FS_Subset
    <2>2. CASE held = {}
      BY <2>2
    <2>3. CASE held # {}
      <3> DEFINE l == LastIn(held, place)
      <3>. HIDE DEF held
      <3>1. l \in held /\ \A y \in held \ {l} : Before(place, y, l)
        BY <2>1, <2>3, LastIs
      <3>. HIDE DEF l
      <3>2. \A y \in held : place[y] <= place[l]
        <4>. SUFFICES ASSUME NEW y \in held, y # l PROVE place[y] <= place[l]
          BY <2>1, <3>1
        <4>1. Before(place, y, l) /\ l \in held
          BY <3>1
        <4>2. place[y] \in Nat /\ place[l] \in Nat
          BY <2>1, <3>1
        <4>. QED BY <4>1, <4>2 DEF Before
      <3>3. place[l] \in to /\ \A q \in to : place[l] >= q
        BY <2>1, <3>1, <3>2 DEF held
      <3>. QED BY <3>3
    <2>. QED BY <2>2, <2>3
  <1>6. last \in to /\ \A q \in to : last >= q
    <2>. HIDE DEF to
    <2>. QED BY <1>5
  <1>7. MoveAllToColumn(c, d) =
          [t \in Cards |-> IF lane[t] = c THEN last + 1 + place[t] - first ELSE place[t]]
    BY DEF MoveAllToColumn
  <1>. HIDE DEF first, last
  <1>8. first \in Nat /\ last \in Nat
    BY <1>1, <1>2, <1>4, <1>6
  <1>9. \A t \in Cards : lane[t] = c => first <= place[t]
    BY <1>4
  <1>10. \A t \in Cards : lane[t] = d => place[t] <= last
    BY <1>1, <1>6, <1>8
  <1>. QED BY <1>7, <1>8, <1>9, <1>10

\* So they come behind, in their order, and the positions stay numbers.
LEMMA ColumnIsTakenOver ==
  ASSUME OrderTyped, NEW c \in Lanes, NEW d \in Lanes, DeleteColumn(c, d)
  PROVE  /\ TakenOver(c, d) /\ ForColumn(c)' = {}
         /\ place' \in [Cards -> Nat] /\ \A t \in Cards : place[t] # 0 => place'[t] # 0
         /\ \A t \in Cards : lane[t] # c => place'[t] = place[t]
  <1>1. /\ c # d /\ c # NoLane /\ d # NoLane
        /\ lane' = [t \in Cards |-> IF lane[t] = c THEN d ELSE lane[t]] /\ hidden' = hidden
        /\ \A t \in Cards : place[t] \in Nat
    BY OrderingAssumption DEF DeleteColumn, OrderTyped, NoLane
  <1>2. ForColumn(d)' = ForColumn(d) \cup ForColumn(c) /\ ForColumn(c)' = {}
    BY <1>1 DEF ForColumn
  <1>3. CASE \E s \in Cards : lane[s] = c
    <2>1. PICK first \in Nat, last \in Nat :
            /\ \A t \in Cards : lane[t] = c => first <= place[t]
            /\ \A t \in Cards : lane[t] = d => place[t] <= last
            /\ MoveAllToColumn(c, d) =
                 [t \in Cards |-> IF lane[t] = c THEN last + 1 + place[t] - first ELSE place[t]]
      BY <1>3, AllMove
    <2>2. place' = [t \in Cards |-> IF lane[t] = c THEN last + 1 + place[t] - first ELSE place[t]]
      BY <1>3, <2>1 DEF DeleteColumn
    <2>3. \A t \in Cards : lane[t] = c => place'[t] = last + 1 + place[t] - first
      BY <2>2
    <2>4. \A t \in Cards : lane[t] # c => place'[t] = place[t]
      BY <2>2
    <2>5. \A t \in Cards : lane[t] = c => place'[t] \in Nat /\ place'[t] > last
      <3>. SUFFICES ASSUME NEW t \in Cards, lane[t] = c PROVE place'[t] \in Nat /\ place'[t] > last
        OBVIOUS
      <3>1. place[t] \in Nat /\ first <= place[t] /\ place'[t] = last + 1 + place[t] - first
        BY <1>1, <2>1, <2>3
      <3>. QED BY <3>1
    <2>6. place' \in [Cards -> Nat]
      <3>1. place' = [t \in Cards |-> place'[t]]
        BY <2>2
      <3>2. \A t \in Cards : place'[t] \in Nat
        BY <1>1, <2>4, <2>5
      <3>. QED BY <3>1, <3>2
    <2>7. \A t \in Cards : place[t] # 0 => place'[t] # 0
      BY <2>4, <2>5
    <2>8. \A x, y \in ForColumn(c) : Before(place, x, y) => Before(place', x, y)
      <3>. SUFFICES ASSUME NEW x \in ForColumn(c), NEW y \in ForColumn(c), Before(place, x, y)
                    PROVE  Before(place', x, y)
        OBVIOUS
      <3>1. /\ place[x] \in Nat /\ first <= place[x] /\ place'[x] = last + 1 + place[x] - first
            /\ place[y] \in Nat /\ first <= place[y] /\ place'[y] = last + 1 + place[y] - first
        BY <1>1, <2>1, <2>3 DEF ForColumn
      <3>. QED BY <3>1 DEF Before
    <2>9. \A x \in ForColumn(d), y \in ForColumn(c) : Before(place', x, y)
      <3>. SUFFICES ASSUME NEW x \in ForColumn(d), NEW y \in ForColumn(c) PROVE Before(place', x, y)
        OBVIOUS
      <3>1. place'[x] = place[x] /\ place[x] \in Nat /\ place[x] <= last
        BY <1>1, <2>1, <2>4 DEF ForColumn
      <3>2. place'[y] \in Nat /\ place'[y] > last
        BY <2>5 DEF ForColumn
      <3>. QED BY <3>1, <3>2 DEF Before
    <2>10. TakenOver(c, d)
      BY <1>2, <2>8, <2>9 DEF TakenOver, StillOrdered
    <2>. QED BY <1>2, <2>4, <2>6, <2>7, <2>10
  <1>4. CASE ~\E s \in Cards : lane[s] = c
    <2>1. place' = place /\ ForColumn(c) = {}
      BY <1>4 DEF DeleteColumn, ForColumn
    <2>2. TakenOver(c, d)
      BY <1>2, <2>1 DEF TakenOver, StillOrdered
    <2>. QED BY <1>2, <2>1, <2>2 DEF OrderTyped
  <1>. QED BY <1>3, <1>4

\* A new position at the end of a list.
LEMMA EndOfList ==
  ASSUME OrderTyped
  PROVE  /\ \A c \in Lanes : PositionBetween(LastPosition(c), 0) \in Nat \ {0}
         /\ OnBoard # {} => lanePos[LastIn(OnBoard, lanePos)] + Gap \in Nat \ {0}
         /\ Listed # {} => itemPos[LastIn(Listed, itemPos)] + Gap \in Nat \ {0}
  <1>1. Gap \in Nat /\ Gap # 0 /\ Cards \subseteq Nat /\ Lanes \subseteq Nat /\ Items \subseteq Nat
    BY OrderingAssumption
  <1>2. ASSUME NEW c \in Lanes
        PROVE  PositionBetween(LastPosition(c), 0) \in Nat \ {0}
    <2> DEFINE held == ForColumn(c)
               l    == LastIn(held, place)
    <2>1. held \subseteq Nat /\ IsFiniteSet(held) /\ \A y \in held : place[y] \in Nat
      BY <1>1, ListsAre
    <2>2. LastPosition(c) = IF held = {} THEN 0 ELSE place[l]
      BY DEF LastPosition
    <2>3. held # {} => l \in held
      <3>. HIDE DEF held
      <3>. QED BY <2>1, LastIs
    <2>. HIDE DEF held, l
    <2>4. LastPosition(c) \in Nat
      <3>1. CASE held = {}
        BY <2>2, <3>1
      <3>2. CASE held # {}
        <4>1. place[l] \in Nat
          BY <2>1, <2>3, <3>2
        <4>. QED BY <2>2, <3>2, <4>1
      <3>. QED BY <3>1, <3>2
    <2>. HIDE DEF LastPosition
    <2>. QED BY <1>1, <2>4 DEF PositionBetween
  <1>3. ASSUME OnBoard # {}
        PROVE  lanePos[LastIn(OnBoard, lanePos)] + Gap \in Nat \ {0}
    <2>1. /\ OnBoard \subseteq Nat /\ IsFiniteSet(OnBoard)
          /\ \A y \in OnBoard : lanePos[y] \in Nat
      BY <1>1, ListsAre
    <2>2. OnBoard # {}
      BY <1>3
    <2>3. LastIn(OnBoard, lanePos) \in OnBoard
      BY <2>1, <2>2, LastIs
    <2> DEFINE l == LastIn(OnBoard, lanePos)
    <2>. HIDE DEF l
    <2>4. lanePos[l] \in Nat
      BY <2>1, <2>3 DEF l
    <2>5. lanePos[l] + Gap \in Nat /\ lanePos[l] + Gap # 0
      BY <1>1, <2>4
    <2>. QED BY <2>5 DEF l
  <1>4. ASSUME Listed # {}
        PROVE  itemPos[LastIn(Listed, itemPos)] + Gap \in Nat \ {0}
    <2>1. /\ Listed \subseteq Nat /\ IsFiniteSet(Listed)
          /\ \A y \in Listed : itemPos[y] \in Nat
      BY <1>1, ListsAre
    <2>2. Listed # {}
      BY <1>4
    <2>3. LastIn(Listed, itemPos) \in Listed
      BY <2>1, <2>2, LastIs
    <2> DEFINE l == LastIn(Listed, itemPos)
    <2>. HIDE DEF l
    <2>4. itemPos[l] \in Nat
      BY <2>1, <2>3 DEF l
    <2>5. itemPos[l] + Gap \in Nat /\ itemPos[l] + Gap # 0
      BY <1>1, <2>4
    <2>. QED BY <2>5 DEF l
  <1>. QED BY <1>2, <1>3, <1>4

\* What a request that gives one ticket a position, in a column, leaves of the rest.
LEMMA OneTicketMoves ==
  ASSUME OrderTyped, NEW t \in Cards, NEW c \in Lanes,
         lane' = [lane EXCEPT ![t] = c], hidden' = hidden, lanePos' = lanePos, itemPos' = itemPos,
         place' \in [Cards -> Nat], place'[t] # 0, \A u \in Cards : place[u] # 0 => place'[u] # 0
  PROVE  OrderTyped'
  BY DEF OrderTyped

\* Every request keeps positions numbers, and the order of what it does not place.
TicketsKept == \A c \in Lanes : StillOrdered(ForColumn(c), place, ForColumn(c)', place')
ListsKept ==
  StillOrdered(OnBoard, lanePos, OnBoard', lanePos') /\ StillOrdered(Listed, itemPos, Listed', itemPos')

LEMMA TicketStep ==
  ASSUME OrderTyped, TicketOrder
  PROVE  OrderTyped' /\ TicketsKept /\ ListsKept
  <1>0. /\ lane \in [Cards -> Lanes \cup {NoLane}] /\ hidden \in [Cards -> BOOLEAN]
        /\ place \in [Cards -> Nat] /\ \A t \in Cards : lane[t] # NoLane => place[t] # 0
        /\ lanePos \in [Lanes -> Nat] /\ itemPos \in [Items -> Nat]
    BY DEF OrderTyped
  <1>1. UNCHANGED <<lanePos, itemPos>> => ListsKept
    BY SameIsKept DEF ListsKept
  <1>2. ASSUME NEW t \in Cards, NEW c \in Lanes, AppendTicket(t, c)
        PROVE  OrderTyped' /\ TicketsKept /\ ListsKept
    <2> DEFINE p == PositionBetween(LastPosition(c), 0)
    <2>1. p \in Nat \ {0}
      BY EndOfList
    <2>. HIDE DEF p
    <2>2. /\ lane' = [lane EXCEPT ![t] = c] /\ place' = [place EXCEPT ![t] = p] /\ dropped' = t
          /\ hidden' = hidden /\ lanePos' = lanePos /\ itemPos' = itemPos
      BY <1>2 DEF AppendTicket, Drop, p
    <2>3. /\ place' \in [Cards -> Nat] /\ place'[t] # 0
          /\ \A u \in Cards \ {t} : place'[u] = place[u]
      BY <1>0, <2>1, <2>2
    <2>4. TicketsKept
      BY <2>2, <2>3, SameIsKept, ListsAre DEF TicketsKept
    <2>5. OrderTyped'
      BY <2>2, <2>3, OneTicketMoves
    <2>. QED BY <1>1, <2>2, <2>4, <2>5
  <1>3. ASSUME NEW t \in Cards, NEW c \in Lanes, NEW a \in {Top, End} \cup Cards, MoveAfter(t, c, a)
        PROVE  OrderTyped' /\ TicketsKept /\ ListsKept
    <2> DEFINE rest  == ForColumn(c) \ {t}
               ahead == InFront(rest, place, a)
    <2>1. /\ lane' = [lane EXCEPT ![t] = c] /\ dropped' = t
          /\ hidden' = hidden /\ lanePos' = lanePos /\ itemPos' = itemPos
      BY <1>3 DEF MoveAfter, Drop
    <2>2. Placed(place', place, rest, ahead, t)
      BY <1>3, MoveAfterPlaces
    <2>3. rest \subseteq Cards
      BY ListsAre
    <2>4. \A k \in Lanes : k # c => ForColumn(k) \cap rest = {}
      BY DEF ForColumn
    <2>5. ForColumn(c) \ {t} \subseteq rest /\ \A k \in Lanes : ForColumn(k) \subseteq Cards
      BY ListsAre
    <2>. HIDE DEF rest, ahead
    <2>6. /\ place' \in [Cards -> Nat] /\ place'[t] # 0
          /\ \A u \in Cards : place[u] # 0 => place'[u] # 0
      BY <1>0, <2>2, <2>3, PlacedIsTyped
    <2>7. OrderTyped'
      BY <2>1, <2>6, OneTicketMoves
    <2>8. \A u \in Cards \ (rest \cup {t}) : place'[u] = place[u]
      BY <1>0, <2>2 DEF Placed
    <2>9. ASSUME NEW k \in Lanes PROVE StillOrdered(ForColumn(k), place, ForColumn(k)', place')
      <3>1. CASE k = c
        BY <2>1, <2>2, <2>5, <3>1, PlacedKeeps
      <3>2. CASE k # c
        <4>1. \A u \in (ForColumn(k) \cap ForColumn(k)') \ {dropped'} : place'[u] = place[u]
          BY <2>1, <2>4, <2>5, <2>8, <3>2
        <4>. QED BY <4>1, SameIsKept
      <3>. QED BY <3>1, <3>2
    <2>. QED BY <1>1, <2>1, <2>7, <2>9 DEF TicketsKept
  <1>4. ASSUME NEW t \in Cards, NEW c \in Lanes, NEW p \in 1..MaxPlace, MoveTo(t, c, p)
        PROVE  OrderTyped' /\ TicketsKept /\ ListsKept
    <2>1. p \in Nat /\ p # 0
      BY OrderingAssumption
    <2>2. /\ lane' = [lane EXCEPT ![t] = c] /\ place' = [place EXCEPT ![t] = p] /\ dropped' = t
          /\ hidden' = hidden /\ lanePos' = lanePos /\ itemPos' = itemPos
      BY <1>4 DEF MoveTo, Drop
    <2>3. /\ place' \in [Cards -> Nat] /\ place'[t] # 0
          /\ \A u \in Cards \ {t} : place'[u] = place[u]
      BY <1>0, <2>1, <2>2
    <2>4. TicketsKept
      BY <2>2, <2>3, SameIsKept, ListsAre DEF TicketsKept
    <2>5. OrderTyped'
      BY <2>2, <2>3, OneTicketMoves
    <2>. QED BY <1>1, <2>2, <2>4, <2>5
  <1>5. ASSUME NEW t \in Cards, Hide(t)
        PROVE  OrderTyped' /\ TicketsKept /\ ListsKept
    <2>1. /\ lane' = lane /\ place' = place /\ hidden' = [hidden EXCEPT ![t] = ~@]
          /\ lanePos' = lanePos /\ itemPos' = itemPos
      BY <1>5 DEF Hide
    <2>2. TicketsKept
      BY <2>1, SameIsKept DEF TicketsKept
    <2>3. OrderTyped'
      BY <2>1 DEF OrderTyped
    <2>. QED BY <1>1, <2>1, <2>2, <2>3
  <1>6. ASSUME NEW c \in Lanes, NEW d \in Lanes, DeleteColumn(c, d)
        PROVE  OrderTyped' /\ TicketsKept /\ ListsKept
    <2>1. /\ lane' = [t \in Cards |-> IF lane[t] = c THEN d ELSE lane[t]] /\ c # d
          /\ lanePos' = [lanePos EXCEPT ![c] = 0] /\ hidden' = hidden /\ itemPos' = itemPos
      BY <1>6 DEF DeleteColumn
    <2>2. /\ ForColumn(c)' = {}
          /\ place' \in [Cards -> Nat] /\ \A t \in Cards : place[t] # 0 => place'[t] # 0
          /\ \A t \in Cards : lane[t] # c => place'[t] = place[t]
      BY <1>6, ColumnIsTakenOver
    <2>3. c # NoLane
      BY OrderingAssumption DEF NoLane
    <2>4. lane' \in [Cards -> Lanes \cup {NoLane}] /\ \A t \in Cards : lane'[t] # NoLane => lane[t] # NoLane
      BY <1>0, <2>1, <2>3
    <2>5. lanePos' \in [Lanes -> Nat] /\ \A k \in Lanes : k # c => lanePos'[k] = lanePos[k]
      BY <1>0, <2>1
    <2>6. OrderTyped'
      BY <1>0, <2>1, <2>2, <2>4, <2>5 DEF OrderTyped
    <2>7. ASSUME NEW k \in Lanes PROVE StillOrdered(ForColumn(k), place, ForColumn(k)', place')
      <3>1. CASE k = c
        BY <2>2, <3>1 DEF StillOrdered
      <3>2. CASE k # c
        <4>1. \A u \in (ForColumn(k) \cap ForColumn(k)') \ {dropped'} : place'[u] = place[u]
          BY <2>2, <3>2 DEF ForColumn
        <4>. QED BY <4>1, SameIsKept
      <3>. QED BY <3>1, <3>2
    <2>8. StillOrdered(OnBoard, lanePos, OnBoard', lanePos')
      <3>1. c \notin OnBoard'
        BY <1>0, <2>1 DEF OnBoard
      <3>2. \A k \in (OnBoard \cap OnBoard') \ {dropped'} : lanePos'[k] = lanePos[k]
        BY <2>5, <3>1, ListsAre
      <3>. QED BY <3>2, SameIsKept
    <2>9. StillOrdered(Listed, itemPos, Listed', itemPos')
      BY <2>1, SameIsKept
    <2>. QED BY <2>6, <2>7, <2>8, <2>9 DEF TicketsKept, ListsKept
  <1>. QED BY <1>2, <1>3, <1>4, <1>5, <1>6 DEF TicketOrder

LEMMA ListStep ==
  ASSUME OrderTyped, ListOrder
  PROVE  OrderTyped' /\ TicketsKept /\ ListsKept
  <1>0. lanePos \in [Lanes -> Nat] /\ itemPos \in [Items -> Nat]
    BY DEF OrderTyped
  <1>1. UNCHANGED <<lane, place, hidden>> => TicketsKept
    BY SameIsKept DEF TicketsKept
  <1>2. lanePos' = lanePos => StillOrdered(OnBoard, lanePos, OnBoard', lanePos')
    BY SameIsKept
  <1>3. itemPos' = itemPos => StillOrdered(Listed, itemPos, Listed', itemPos')
    BY SameIsKept
  <1>4. UNCHANGED <<lane, place, hidden>> /\ lanePos' \in [Lanes -> Nat] /\ itemPos' \in [Items -> Nat]
          => OrderTyped'
    BY DEF OrderTyped
  <1>5. ASSUME NEW c \in Lanes, NEW a \in {Top} \cup Lanes, MoveColumn(c, a)
        PROVE  OrderTyped' /\ TicketsKept /\ ListsKept
    <2> DEFINE rest == OnBoard \ {c}
    <2>1. dropped' = c /\ UNCHANGED <<lane, place, hidden, itemPos>>
      BY <1>5 DEF MoveColumn, Drop
    <2>2. Placed(lanePos', lanePos, rest, InFront(rest, lanePos, a), c)
      BY <1>5, MoveColumnPlaces
    <2>3. rest \subseteq Lanes /\ OnBoard \ {c} \subseteq rest
      BY ListsAre
    <2>. HIDE DEF rest
    <2>4. lanePos' \in [Lanes -> Nat]
      BY <1>0, <2>2, <2>3, PlacedIsTyped
    <2>5. StillOrdered(OnBoard, lanePos, OnBoard', lanePos')
      BY <2>1, <2>2, <2>3, PlacedKeeps
    <2>. QED BY <1>0, <1>1, <1>3, <1>4, <2>1, <2>4, <2>5 DEF ListsKept
  <1>6. ASSUME NEW c \in Lanes, CreateColumn(c)
        PROVE  OrderTyped' /\ TicketsKept /\ ListsKept
    <2> DEFINE p == IF OnBoard = {} THEN Gap ELSE lanePos[LastIn(OnBoard, lanePos)] + Gap
    <2>1. p \in Nat
      BY EndOfList, OrderingAssumption
    <2>2. lanePos' = [lanePos EXCEPT ![c] = p] /\ dropped' = c /\ UNCHANGED <<lane, place, hidden, itemPos>>
      BY <1>6 DEF CreateColumn, Drop
    <2>. HIDE DEF p
    <2>3. lanePos' \in [Lanes -> Nat] /\ \A k \in Lanes \ {c} : lanePos'[k] = lanePos[k]
      BY <1>0, <2>1, <2>2
    <2>4. StillOrdered(OnBoard, lanePos, OnBoard', lanePos')
      BY <2>2, <2>3, ListsAre, SameIsKept
    <2>. QED BY <1>0, <1>1, <1>3, <1>4, <2>2, <2>3, <2>4 DEF ListsKept
  <1>7. ASSUME NEW i \in Items, NEW a \in {Top} \cup Items, MoveCriterion(i, a)
        PROVE  OrderTyped' /\ TicketsKept /\ ListsKept
    <2> DEFINE rest == Listed \ {i}
    <2>1. dropped' = i /\ UNCHANGED <<lane, place, hidden, lanePos>>
      BY <1>7 DEF MoveCriterion, Drop
    <2>2. Placed(itemPos', itemPos, rest, InFront(rest, itemPos, a), i)
      BY <1>7, MoveCriterionPlaces
    <2>3. rest \subseteq Items /\ Listed \ {i} \subseteq rest
      BY ListsAre
    <2>. HIDE DEF rest
    <2>4. itemPos' \in [Items -> Nat]
      BY <1>0, <2>2, <2>3, PlacedIsTyped
    <2>5. StillOrdered(Listed, itemPos, Listed', itemPos')
      BY <2>1, <2>2, <2>3, PlacedKeeps
    <2>. QED BY <1>0, <1>1, <1>2, <1>4, <2>1, <2>4, <2>5 DEF ListsKept
  <1>8. ASSUME NEW i \in Items, AddCriterion(i)
        PROVE  OrderTyped' /\ TicketsKept /\ ListsKept
    <2> DEFINE p == IF Listed = {} THEN Gap ELSE itemPos[LastIn(Listed, itemPos)] + Gap
    <2>1. p \in Nat
      BY EndOfList, OrderingAssumption
    <2>2. itemPos' = [itemPos EXCEPT ![i] = p] /\ dropped' = i /\ UNCHANGED <<lane, place, hidden, lanePos>>
      BY <1>8 DEF AddCriterion, Drop
    <2>. HIDE DEF p
    <2>3. itemPos' \in [Items -> Nat] /\ \A k \in Items \ {i} : itemPos'[k] = itemPos[k]
      BY <1>0, <2>1, <2>2
    <2>4. StillOrdered(Listed, itemPos, Listed', itemPos')
      BY <2>2, <2>3, ListsAre, SameIsKept
    <2>. QED BY <1>0, <1>1, <1>2, <1>4, <2>2, <2>3, <2>4 DEF ListsKept
  <1>9. ASSUME NEW i \in Items, DeleteCriterion(i)
        PROVE  OrderTyped' /\ TicketsKept /\ ListsKept
    <2>1. itemPos' = [itemPos EXCEPT ![i] = 0] /\ dropped' = i /\ UNCHANGED <<lane, place, hidden, lanePos>>
      BY <1>9 DEF DeleteCriterion, Drop
    <2>2. itemPos' \in [Items -> Nat] /\ \A k \in Items \ {i} : itemPos'[k] = itemPos[k]
      BY <1>0, <2>1
    <2>3. StillOrdered(Listed, itemPos, Listed', itemPos')
      BY <2>1, <2>2, ListsAre, SameIsKept
    <2>. QED BY <1>0, <1>1, <1>2, <1>4, <2>1, <2>2, <2>3 DEF ListsKept
  <1>. QED BY <1>5, <1>6, <1>7, <1>8, <1>9 DEF ListOrder

LEMMA OrderIsTyped ==
  /\ OrderInit => OrderTyped
  /\ OrderTyped /\ [OrderNext]_orderVars => OrderTyped'
  <1>1. OrderInit => OrderTyped
    <2>. SUFFICES ASSUME OrderInit PROVE OrderTyped
      OBVIOUS
    <2>1. PICK g \in Nat : g = Gap
      BY OrderingAssumption
    <2>2. \A c \in Lanes : c * Gap \in Nat
      BY <2>1, OrderingAssumption
    <2>. QED BY <2>2 DEF OrderInit, OrderTyped
  <1>2. ASSUME OrderTyped, [OrderNext]_orderVars PROVE OrderTyped'
    <2>1. CASE UNCHANGED orderVars
      BY <1>2, <2>1 DEF OrderTyped, orderVars
    <2>. QED BY <1>2, <2>1, TicketStep, ListStep DEF OrderNext
  <1>. QED BY <1>1, <1>2

\* Whatever the cards, the columns and the criteria, and however small the gap: what is
\* dragged lands where it was dropped and nothing else changes its order (placeTicket,
\* reorder, reorderCriterion, MoveAllToColumn).
THEOREM DragsAlwaysLand == OrderSpec => DragsAreExact
  <1>1. OrderTyped /\ [OrderNext]_orderVars => [drops' # drops => Landed]_orderVars
    BY TicketLands, ColumnLands, CriterionLands DEF Landed
  <1>2. OrderTyped /\ [OrderNext]_orderVars => [drops' # drops => KeptInOrder]_orderVars
    <2>. SUFFICES ASSUME OrderTyped, OrderNext PROVE KeptInOrder
      OBVIOUS
    <2>1. TicketsKept /\ ListsKept
      BY TicketStep, ListStep DEF OrderNext
    <2>2. \A c, d \in Lanes : DeleteColumn(c, d) => TakenOver(c, d)
      BY ColumnIsTakenOver
    <2>. QED BY <2>1, <2>2 DEF KeptInOrder, TicketsKept, ListsKept
  <1>. QED BY <1>1, <1>2, OrderIsTyped, PTL DEF OrderSpec, DragsAreExact, DropsLand, OthersKeepOrder
==============================================================================
