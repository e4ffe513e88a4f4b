-------------------------------- MODULE Hub --------------------------------
(***************************************************************************)
(* The hub that streams events to browsers (internal/kernel/httpx/sse.go): *)
(* the bus's handler, a ring of past frames, one buffered channel per      *)
(* connection, connections that are given up on when it is full, and       *)
(* browsers that reconnect with the last id they have seen.                *)
(*                                                                         *)
(* A frame is its number in the order the handler saw them.                *)
(***************************************************************************)
EXTENDS Naturals, Sequences, SequencesExt

CONSTANTS
  TopicOf,      \* the topic of each frame, in order
  Tabs,         \* browser tabs
  Wants,        \* the topics of each tab's stream
  RingSize, ConnBuffer, MaxConnects

ASSUME HubAssumption ==
  /\ RingSize \in Nat \ {0} /\ ConnBuffer \in Nat \ {0} /\ MaxConnects \in Nat
  /\ Len(TopicOf) \in Nat

VARIABLES
  published,    \* frames that handleEvent has fanned out
  ring,         \* h.ring
  hubClosed,    \* h.closed
  conns,        \* h.conns
  ch,           \* a connection's channel
  owed,      \* what register returned and is not written yet
  killed,       \* conn.done is closed
  deadline,     \* the write deadline has been set because of it
  lastId,       \* Last-Event-ID of the tab, 0 before the first frame
  connects,
  known,        \* history: the last frame it has seen, or that its last refetch covered
  gapless,      \* history: no frame of its topics was passed over or repeated since that
  wroteLate     \* history: a frame was written on a connection that had been killed

hubVars  == <<published, ring, hubClosed, conns, ch, owed, killed, deadline, lastId, connects,
              known, gapless, wroteLate>>
connVars == <<owed, killed, deadline>>
seenVars == <<lastId, connects, known, gapless, wroteLate>>

Frames == 1..Len(TopicOf)

HubTypeOK ==
  /\ published \in 0..Len(TopicOf) /\ Len(ring) <= RingSize /\ hubClosed \in BOOLEAN
  /\ conns \subseteq Tabs
  /\ \A c \in Tabs : Len(ch[c]) <= ConnBuffer /\ lastId[c] \in 0..published /\ connects[c] \in 0..MaxConnects

HubInit ==
  /\ published = 0 /\ ring = <<>> /\ hubClosed = FALSE /\ conns = {}
  /\ ch = [c \in Tabs |-> <<>>] /\ owed = [c \in Tabs |-> <<>>]
  /\ killed = [c \in Tabs |-> FALSE] /\ deadline = [c \in Tabs |-> FALSE]
  /\ lastId = [c \in Tabs |-> 0] /\ connects = [c \in Tabs |-> 0]
  /\ known = [c \in Tabs |-> 0] /\ gapless = [c \in Tabs |-> TRUE] /\ wroteLate = [c \in Tabs |-> FALSE]

------------------------------------------------------------------------------
LastOf(s, n) == SubSeq(s, IF Len(s) > n THEN Len(s) - n + 1 ELSE 1, Len(s))

\* handleEvent: into the ring, then to every connection of the topic without waiting; one
\* whose buffer is full is killed.
HandleEvent ==
  /\ published < Len(TopicOf)
  /\ LET f    == published + 1
         to   == {c \in conns : TopicOf[f] \in Wants[c]}
         full == {c \in to : Len(ch[c]) = ConnBuffer}
     IN /\ published' = f
        /\ ring' = LastOf(Append(ring, f), RingSize)
        /\ ch' = [c \in Tabs |-> IF c \in to \ full THEN Append(ch[c], f) ELSE ch[c]]
        /\ killed' = [c \in Tabs |-> killed[c] \/ c \in full]
  /\ UNCHANGED <<hubClosed, conns, owed, deadline, seenVars>>

InRing(id) == \E i \in DOMAIN ring : ring[i] = id

\* The frames from a place in the ring on that are for the tab, in their order.
FramesFor(c, from) ==
  LET missed == {f \in ToSet(ring) : f >= from /\ TopicOf[f] \in Wants[c]}
  IN CHOOSE list \in [1..Cardinality(missed) -> missed] :
       \A i, j \in 1..Cardinality(missed) : i < j => list[i] < list[j]

\* Mutant: the frame the tab has seen is among them.
ReplayFrom(c, id) == IF InRing(id) THEN FramesFor(c, id) ELSE <<>>

\* register, in one critical section: what follows lastID in the ring, and from now on the
\* channel.  An id the ring has not, or no id, resumes live only: the client refetches.
Replay(c, id) == IF InRing(id) THEN FramesFor(c, id + 1) ELSE <<>>

RegisterConn(c) ==
  /\ c \notin conns /\ ~hubClosed /\ connects[c] < MaxConnects
  /\ conns' = conns \cup {c}
  /\ owed' = [owed EXCEPT ![c] = Replay(c, lastId[c])]
  /\ ch' = [ch EXCEPT ![c] = <<>>]
  /\ killed' = [killed EXCEPT ![c] = FALSE] /\ deadline' = [deadline EXCEPT ![c] = FALSE]
  /\ connects' = [connects EXCEPT ![c] = @ + 1]
  /\ LET refetches == ~InRing(lastId[c]) IN
       /\ known' = [known EXCEPT ![c] = IF refetches THEN published ELSE @]
       /\ gapless' = [gapless EXCEPT ![c] = @ \/ refetches]
       /\ wroteLate' = [wroteLate EXCEPT ![c] = @ /\ ~refetches]
  /\ UNCHANGED <<published, ring, hubClosed, lastId>>

\* writeFrame reaches the tab.
Reaches(c, f) ==
  /\ lastId' = [lastId EXCEPT ![c] = f] /\ known' = [known EXCEPT ![c] = f]
  /\ gapless' = [gapless EXCEPT ![c] =
       @ /\ f > known[c] /\ \A g \in (known[c] + 1)..(f - 1) : TopicOf[g] \notin Wants[c]]
  /\ wroteLate' = [wroteLate EXCEPT ![c] = @ \/ killed[c]]

\* What is owed first; a kill shows only as a failing write.
WriteBacklog(c) ==
  /\ c \in conns /\ owed[c] # <<>> /\ ~deadline[c]
  /\ Reaches(c, Head(owed[c]))
  /\ owed' = [owed EXCEPT ![c] = Tail(@)]
  /\ UNCHANGED <<published, ring, hubClosed, conns, ch, killed, deadline, connects>>

\* The loop: `select' takes either when both are ready.
WriteLive(c) ==
  /\ c \in conns /\ owed[c] = <<>> /\ ch[c] # <<>> /\ ~deadline[c]
  /\ Reaches(c, Head(ch[c]))
  /\ ch' = [ch EXCEPT ![c] = Tail(@)]
  /\ UNCHANGED <<published, ring, hubClosed, conns, connVars, connects>>

\* The goroutine that waits for done fails the pending write, and all that follow.
ExpireDeadline(c) ==
  /\ c \in conns /\ killed[c] /\ ~deadline[c]
  /\ deadline' = [deadline EXCEPT ![c] = TRUE]
  /\ UNCHANGED <<published, ring, hubClosed, conns, ch, owed, killed, seenVars>>

\* The handler returns: done was seen, a write failed, or the browser went away; what was
\* not written is lost.
Unregister(c) ==
  /\ c \in conns
  /\ conns' = conns \ {c}
  /\ killed' = [killed EXCEPT ![c] = TRUE]
  /\ UNCHANGED <<published, ring, hubClosed, ch, owed, deadline, seenVars>>

\* Close, then another process with an empty ring.
HubRestarts ==
  /\ ~hubClosed
  /\ hubClosed' = TRUE
  /\ killed' = [c \in Tabs |-> TRUE]
  /\ UNCHANGED <<published, ring, conns, ch, owed, deadline, seenVars>>

NewHub ==
  /\ hubClosed /\ conns = {}
  /\ hubClosed' = FALSE /\ ring' = <<>>
  /\ UNCHANGED <<published, conns, ch, connVars, seenVars>>

HubNext ==
  \/ HandleEvent \/ HubRestarts \/ NewHub
  \/ \E c \in Tabs :
       RegisterConn(c) \/ WriteBacklog(c) \/ WriteLive(c) \/ ExpireDeadline(c) \/ Unregister(c)

HubSpec == HubInit /\ [][HubNext]_hubVars

------------------------------------------------------------------------------
\* "no gap and no duplicate": a tab sees each frame of its topics once and in order, across
\* connections that were dropped, killed or replayed, until it has to refetch.  The code
\* keeps to it unless it writes on a connection it has killed: `select' may choose the
\* channel before done, which makes room for a later frame behind one that was not queued.
NoGap == \A c \in Tabs : gapless[c] \/ wroteLate[c]

\* What the channel of a live connection holds is in order and not written yet.
ChannelsInOrder ==
  \A c \in conns : \A i \in DOMAIN ch[c] : ~killed[c] =>
    /\ i > 1 => ch[c][i - 1] < ch[c][i]
    /\ lastId[c] < ch[c][i]

HubInv == HubTypeOK /\ NoGap /\ ChannelsInOrder
==============================================================================
