------------------------------ MODULE Ordering ------------------------------
(***************************************************************************)
(* The order of what people drag: tickets in their columns (fractional     *)
(* positions), and the columns of a board and the criteria of a ticket     *)
(* (gapped integers).  Every request is one transaction.                   *)
(*                                                                         *)
(* A position is a natural number here; halving one rounds down, so a gap  *)
(* is exhausted after log2(Gap) halvings where a float64 takes about fifty.*)
(* Ids order as the numbers of the cards and lanes do.  A list in order is  *)
(* the set of what is in it and the relation Before.                       *)
(***************************************************************************)
EXTENDS Naturals, FiniteSets

CONSTANTS
  Cards,      \* ids of tickets, naturals
  Lanes,      \* ids of columns, naturals
  Items,      \* ids of the criteria of one ticket, naturals
  Top, End,   \* where a drag may aim besides behind an item
  Gap,        \* PositionGap, positionGap and criterionGap
  MaxPlace,   \* bound: explicit positions a client sends
  MaxDrops    \* bound: requests

NoLane == 0    \* not created yet; 0 is no id

\* Ids are no numbers of places, and there are finitely many.
ASSUME OrderingAssumption ==
  /\ Cards \subseteq Nat \ {0} /\ IsFiniteSet(Cards)
  /\ Lanes \subseteq Nat \ {0} /\ IsFiniteSet(Lanes)
  /\ Items \subseteq Nat \ {0} /\ IsFiniteSet(Items)
  /\ Top # End /\ {Top, End} \cap (Cards \cup Lanes \cup Items) = {}
  /\ Gap \in Nat \ {0} /\ MaxPlace \in Nat /\ MaxDrops \in Nat

VARIABLES
  lane, place, hidden,  \* tickets: column_id, position, archived_at set
  lanePos,              \* columns: position; 0 once deleted
  itemPos,              \* criteria: position; 0 while absent
  drops,                \* requests so far
  dropped               \* history: the card, column or criterion the last request placed

orderVars == <<lane, place, hidden, lanePos, itemPos, drops, dropped>>

\* Neighbours of a new item; 0 means there is none on that side.
PositionBetween(before, after) ==
  CASE before = 0 /\ after = 0 -> Gap
    [] before # 0 /\ after = 0 -> before + Gap
    [] before = 0 /\ after # 0 -> after \div 2
    [] OTHER -> before + (after - before) \div 2

\* ORDER BY position, id.
Before(pos, a, b) == pos[a] < pos[b] \/ (pos[a] = pos[b] /\ a < b)
FirstIn(S, pos) == CHOOSE x \in S : \A y \in S \ {x} : Before(pos, x, y)
LastIn(S, pos) == CHOOSE x \in S : \A y \in S \ {x} : Before(pos, y, x)

\* A column's unarchived tickets, as every request lists them.
ForColumn(c) == {t \in Cards : lane[t] = c /\ ~hidden[t]}

LastPosition(c) == IF ForColumn(c) = {} THEN 0 ELSE place[LastIn(ForColumn(c), place)]

OnBoard == {c \in Lanes : lanePos[c] # 0}
Listed  == {i \in Items : itemPos[i] # 0}

\* Those of the others an item goes behind: none, all, or all up to "after".
InFront(rest, pos, after) ==
  {y \in rest : after = End \/ (after # Top /\ (y = after \/ Before(pos, y, after)))}

\* Everything, x behind those ahead of it, renumbered to multiples of the gap.
Renumbered(pos, rest, ahead, x) ==
  LET earlier(y) == IF y = x THEN ahead
                    ELSE {z \in rest : Before(pos, z, y)} \cup {z \in {x} : y \notin ahead}
  IN [y \in DOMAIN pos |->
       IF y \in rest \cup {x} THEN (Cardinality(earlier(y)) + 1) * Gap ELSE pos[y]]

------------------------------------------------------------------------------
(* Tickets. *)

\* placeTicket: a midpoint, or the whole column renumbered when none is left.
PlaceTicket(t, c, after) ==
  LET rest  == ForColumn(c) \ {t}
      ahead == InFront(rest, place, after)
      lo    == IF ahead = {} THEN 0 ELSE place[LastIn(ahead, place)]
      hi    == IF ahead = rest THEN 0 ELSE place[FirstIn(rest \ ahead, place)]
      pos   == PositionBetween(lo, hi)
  IN IF pos > lo /\ (hi = 0 \/ pos < hi)
     THEN [place EXCEPT ![t] = pos] ELSE Renumbered(place, rest, ahead, t)

Drop(x) == drops < MaxDrops /\ drops' = drops + 1 /\ dropped' = x

\* Create, Subtickets and CreateFromTrigger append; ids grow.
AppendTicket(t, c) ==
  /\ lane[t] = NoLane /\ \A u \in Cards : u < t => lane[u] # NoLane
  /\ c \in OnBoard
  /\ lane' = [lane EXCEPT ![t] = c]
  /\ place' = [place EXCEPT ![t] = PositionBetween(LastPosition(c), 0)]
  /\ Drop(t) /\ UNCHANGED <<hidden, lanePos, itemPos>>

\* Move with after_ticket_id: null, absent, or another ticket of the column.
MoveAfter(t, c, after) ==
  /\ lane[t] # NoLane /\ ~hidden[t] /\ c \in OnBoard
  /\ after \in {Top, End} \cup (ForColumn(c) \ {t})
  /\ place' = PlaceTicket(t, c, after)
  /\ lane' = [lane EXCEPT ![t] = c]
  /\ Drop(t) /\ UNCHANGED <<hidden, lanePos, itemPos>>

\* Move with an explicit position: any positive number, taken ones included.
MoveTo(t, c, p) ==
  /\ lane[t] # NoLane /\ ~hidden[t] /\ c \in OnBoard
  /\ place' = [place EXCEPT ![t] = p]
  /\ lane' = [lane EXCEPT ![t] = c]
  /\ Drop(t) /\ UNCHANGED <<hidden, lanePos, itemPos>>

Hide(t) ==
  /\ lane[t] # NoLane
  /\ hidden' = [hidden EXCEPT ![t] = ~@]
  /\ Drop(t) /\ UNCHANGED <<lane, place, lanePos, itemPos>>

MoveAllOntoLast(c, d) ==
  LET from  == {place[t] : t \in {u \in Cards : lane[u] = c}}
      to    == {place[t] : t \in {u \in Cards : lane[u] = d}} \cup {0}
      first == CHOOSE p \in from : \A q \in from : p <= q
      last  == CHOOSE p \in to : \A q \in to : p >= q
  IN [t \in Cards |-> IF lane[t] = c THEN last + place[t] - first ELSE place[t]]

\* MoveAllToColumn: archived tickets move too and count for the offset.
MoveAllToColumn(c, d) ==
  LET from  == {place[t] : t \in {u \in Cards : lane[u] = c}}
      to    == {place[t] : t \in {u \in Cards : lane[u] = d}} \cup {0}
      first == CHOOSE p \in from : \A q \in from : p <= q
      last  == CHOOSE p \in to : \A q \in to : p >= q
  IN [t \in Cards |-> IF lane[t] = c THEN last + 1 + place[t] - first ELSE place[t]]

DeleteColumn(c, d) ==
  /\ {c, d} \subseteq OnBoard /\ c # d
  /\ place' = IF \E t \in Cards : lane[t] = c THEN MoveAllToColumn(c, d) ELSE place
  /\ lane' = [t \in Cards |-> IF lane[t] = c THEN d ELSE lane[t]]
  /\ lanePos' = [lanePos EXCEPT ![c] = 0]
  /\ Drop(0) /\ UNCHANGED <<hidden, itemPos>>

------------------------------------------------------------------------------
(* Columns and criteria: the same scheme over integers, in two copies. *)

\* reorder: the midpoint between the new neighbours, or a renumbering.
Between(pos, rest, ahead, x) ==
  LET lo  == IF ahead = {} THEN 0 ELSE pos[LastIn(ahead, pos)]
      hi  == pos[FirstIn(rest \ ahead, pos)]
      mid == lo + (hi - lo) \div 2
  IN CASE rest = {} -> [pos EXCEPT ![x] = Gap]
       [] rest # {} /\ ahead = rest -> [pos EXCEPT ![x] = lo + Gap]
       [] ahead # rest /\ mid > lo /\ mid < hi -> [pos EXCEPT ![x] = mid]
       [] OTHER -> Renumbered(pos, rest, ahead, x)

Reorder(c, after) ==
  LET rest == OnBoard \ {c} IN Between(lanePos, rest, InFront(rest, lanePos, after), c)

MoveColumn(c, after) ==
  /\ c \in OnBoard /\ after \in {Top} \cup (OnBoard \ {c})
  /\ lanePos' = Reorder(c, after)
  /\ Drop(c) /\ UNCHANGED <<lane, place, hidden, itemPos>>

CreateColumn(c) ==
  /\ c \notin OnBoard /\ \A t \in Cards : lane[t] # c
  /\ lanePos' = [lanePos EXCEPT ![c] =
       IF OnBoard = {} THEN Gap ELSE lanePos[LastIn(OnBoard, lanePos)] + Gap]
  /\ Drop(c) /\ UNCHANGED <<lane, place, hidden, itemPos>>

ReorderCriterion(i, after) ==
  LET rest == Listed \ {i} IN Between(itemPos, rest, InFront(rest, itemPos, after), i)

MoveCriterion(i, after) ==
  /\ i \in Listed /\ after \in {Top} \cup (Listed \ {i})
  /\ itemPos' = ReorderCriterion(i, after)
  /\ Drop(i) /\ UNCHANGED <<lane, place, hidden, lanePos>>

AddCriterion(i) ==
  /\ i \notin Listed
  /\ itemPos' = [itemPos EXCEPT ![i] =
       IF Listed = {} THEN Gap ELSE itemPos[LastIn(Listed, itemPos)] + Gap]
  /\ Drop(i) /\ UNCHANGED <<lane, place, hidden, lanePos>>

DeleteCriterion(i) ==
  /\ i \in Listed
  /\ itemPos' = [itemPos EXCEPT ![i] = 0]
  /\ Drop(i) /\ UNCHANGED <<lane, place, hidden, lanePos>>

------------------------------------------------------------------------------
\* A request is about tickets, or columns, or criteria; the cases do not meet.
TicketOrder ==
  \/ \E t \in Cards, c \in Lanes : AppendTicket(t, c)
  \/ \E t \in Cards, c \in Lanes, a \in {Top, End} \cup Cards : MoveAfter(t, c, a)
  \/ \E t \in Cards, c \in Lanes, p \in 1..MaxPlace : MoveTo(t, c, p)
  \/ \E t \in Cards : Hide(t)
  \/ \E c, d \in Lanes : DeleteColumn(c, d)

ListOrder ==
  \/ \E c \in Lanes, a \in {Top} \cup Lanes : MoveColumn(c, a)
  \/ \E c \in Lanes : CreateColumn(c)
  \/ \E i \in Items, a \in {Top} \cup Items : MoveCriterion(i, a)
  \/ \E i \in Items : AddCriterion(i) \/ DeleteCriterion(i)

\* A board whose columns were spaced when it was created.
OrderInit ==
  /\ lane = [t \in Cards |-> NoLane] /\ place = [t \in Cards |-> 0]
  /\ hidden = [t \in Cards |-> FALSE]
  /\ lanePos = [c \in Lanes |-> c * Gap] /\ itemPos = [i \in Items |-> 0]
  /\ drops = 0 /\ dropped = 0

OrderNext == TicketOrder \/ ListOrder

OrderSpec == OrderInit /\ [][OrderNext]_orderVars

------------------------------------------------------------------------------
(* Properties. *)

\* In the order of pos, S holds x directly behind "after".
Lands(S, pos, x, after) ==
  CASE after = Top -> \A y \in S \ {x} : Before(pos, x, y)
    [] after = End -> \A y \in S \ {x} : Before(pos, y, x)
    [] OTHER -> /\ after \in S /\ Before(pos, after, x)
                /\ \A y \in S \ {x, after} : Before(pos, after, y) => Before(pos, x, y)

Landed ==
  /\ \A t \in Cards, c \in Lanes, a \in {Top, End} \cup Cards :
       MoveAfter(t, c, a) => Lands(ForColumn(c)', place', t, a)
  /\ \A c \in Lanes, a \in {Top} \cup Lanes :
       MoveColumn(c, a) => Lands(OnBoard', lanePos', c, a)
  /\ \A i \in Items, a \in {Top} \cup Items :
       MoveCriterion(i, a) => Lands(Listed', itemPos', i, a)

\* What is in both S and T, and was not dropped, is in the same order as it was.
StillOrdered(S, pos, T, after) ==
  \A x, y \in (S \cap T) \ {dropped'} : Before(pos, x, y) => Before(after, x, y)

\* The tickets of a deleted column, in their order, come behind those of the other.
TakenOver(c, d) ==
  /\ ForColumn(d)' = ForColumn(d) \cup ForColumn(c)
  /\ StillOrdered(ForColumn(c), place, ForColumn(d)', place')
  /\ \A x \in ForColumn(d), y \in ForColumn(c) : Before(place', x, y)

KeptInOrder ==
  /\ \A c \in Lanes : StillOrdered(ForColumn(c), place, ForColumn(c)', place')
  /\ StillOrdered(OnBoard, lanePos, OnBoard', lanePos')
  /\ StillOrdered(Listed, itemPos, Listed', itemPos')
  /\ \A c, d \in Lanes : DeleteColumn(c, d) => TakenOver(c, d)

\* A drag puts the card where it was dropped: directly behind the ticket the request
\* names, on top, or at the end, also among equal positions and exhausted gaps (Move,
\* placeTicket), and likewise for a column (reorder) and a criterion (reorderCriterion).
DropsLand == [][drops' # drops => Landed]_orderVars

\* What was not dragged keeps its order: any two visible tickets of one column that a
\* request did not place stay in their order, renumbered or not, as do columns and criteria,
\* and when a column is deleted its tickets come behind those of the column that takes them
\* (MoveAllToColumn: "preserving their relative order").
OthersKeepOrder == [][drops' # drops => KeptInOrder]_orderVars

\* A drag does what it says and nothing else.
DragsAreExact == DropsLand /\ OthersKeepOrder

=============================================================================
