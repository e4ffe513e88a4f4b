------------------------------- MODULE Schedule -------------------------------
(***************************************************************************)
(* The cron source (internal/module/cron): a scan at the start and at each *)
(* minute fires a rule for the latest minute its expression matches since  *)
(* the rule's cursor.  A scan reads, publishes and writes in steps, so the *)
(* rule may be edited, a read or a write may fail, and the process may be  *)
(* stopped between any two of them.                                        *)
(***************************************************************************)
EXTENDS FiniteSetsExt, Integers

CONSTANTS
  Expressions,   \* five fields, each a set of parts
  When,          \* minute -> what the calendar says of it
  FirstMinute, LastMinute,
  Lookback,      \* how far back a scan searches
  NoMinute,      \* no cursor, or nothing found
  MaxFaults      \* bound: reads, writes and publishes that fail, and stops

Minutes == FirstMinute .. LastMinute
Fields == {"minute", "hour", "dom", "month", "dow"}

ASSUME ScheduleAssumption ==
  /\ FirstMinute \in Int /\ LastMinute \in Int /\ FirstMinute <= LastMinute /\ Lookback \in Nat \ {0}
  /\ DOMAIN When = Minutes /\ \A m \in Minutes : DOMAIN When[m] = Fields
  /\ NoMinute \notin Minutes /\ NoMinute < FirstMinute
  /\ MaxFaults \in Nat

VARIABLES
  cronClock,   \* the minute it is
  schedule,    \* the rule: its expression, and whether it is enabled
  cursor,      \* poll_cursors: the last minute that was handled
  scan,        \* the scan under way
  published,   \* schedule events on the bus: expression and minute, which is the dedupe key
  watched,     \* history: the rule's baseline, and what its latest whole scan was of
  faults       \* faults there have been

scheduleVars == <<cronClock, schedule, cursor, scan, published, watched, faults>>

------------------------------------------------------------------------------
(* Expressions.                                                              *)

Least == [minute |-> 0, hour |-> 0, dom |-> 1, month |-> 1, dow |-> 0]
Most == [minute |-> 59, hour |-> 23, dom |-> 31, month |-> 12, dow |-> 7]

\* One entry of a field's list: a star, a value or a range, with a step or none (0).  A value
\* with a step goes on to the end of the field.
PartBits(part, field) ==
  LET lo == IF part.is = "star" THEN Least[field] ELSE part.lo
      hi == CASE part.is = "range" -> part.hi
              [] part.is = "value" /\ part.step = 0 -> part.lo
              [] OTHER -> Most[field]
      step == IF part.step = 0 THEN 1 ELSE part.step
  IN {v \in lo .. hi : (v - lo) % step = 0}

\* Both 0 and 7 are Sunday.
Fold(bits) == IF 7 \in bits THEN (bits \ {7}) \cup {0} ELSE bits

FieldBits(expr, field) ==
  LET bits == UNION {PartBits(p, field) : p \in expr[field]}
  IN IF field = "dow" THEN Fold(bits) ELSE bits

\* Only a lone star leaves a day unrestricted; a star with a step restricts it.
Star(expr, field) == expr[field] = {[is |-> "star", lo |-> 0, hi |-> 0, step |-> 0]}

\* The day is right when either restricted day field is (POSIX).
MatchesAt(expr, m) ==
  LET has(field) == When[m][field] \in FieldBits(expr, field)
  IN /\ \A f \in {"minute", "hour", "month"} : has(f)
     /\ \/ Star(expr, "dom") /\ Star(expr, "dow")
        \/ ~Star(expr, "dom") /\ has("dom")
        \/ ~Star(expr, "dow") /\ has("dow")

\* The minutes the expression matches in (since, until], no further back than Lookback.
Due(expr, since, until) ==
  {m \in Minutes : m > Max({since, until - Lookback}) /\ m <= until /\ MatchesAt(expr, m)}

\* Mutant: what was missed is caught up from the oldest on.
OldestMatch(expr, since, until) ==
  IF Due(expr, since, until) = {} THEN NoMinute ELSE Min(Due(expr, since, until))

LatestMatch(expr, since, until) ==
  IF Due(expr, since, until) = {} THEN NoMinute ELSE Max(Due(expr, since, until))

------------------------------------------------------------------------------
(* The actions.                                                              *)

\* A scan is of the rule as it was read, at the minute it began.
Idle(due) == [step |-> "idle", due |-> due]
Of(step) == [scan EXCEPT !.step = step]

ScheduleInit ==
  /\ cronClock = FirstMinute
  /\ schedule \in [expr : Expressions, enabled : {TRUE}]
  /\ cursor = NoMinute
  /\ scan = Idle(TRUE)
  /\ published = {}
  /\ watched = [baseline |-> NoMinute, whole |-> NoMinute, expr |-> schedule.expr]
  /\ faults = 0

Fails == faults < MaxFaults /\ faults' = faults + 1

\* The scan is asked for at each boundary; one that goes on past it is followed by one at the
\* next.
Minute ==
  /\ cronClock < LastMinute
  /\ cronClock' = cronClock + 1
  /\ scan' = IF scan.step = "idle" THEN Idle(TRUE) ELSE scan
  /\ UNCHANGED <<schedule, cursor, published, watched, faults>>

\* People: another expression, or on and off.
EditSchedule ==
  /\ \E to \in [expr : Expressions, enabled : BOOLEAN] :
       to # schedule /\ schedule' = to
  /\ UNCHANGED <<cronClock, cursor, scan, published, watched, faults>>

\* The enabled rules are read; if that fails the scan is skipped.
StartScan ==
  /\ scan.step = "idle" /\ scan.due
  /\ \/ /\ schedule.enabled
        /\ scan' = [step |-> "cursor", due |-> FALSE, expr |-> schedule.expr,
                    minute |-> cronClock, at |-> cronClock]
        /\ UNCHANGED faults
     \/ ~schedule.enabled /\ scan' = Idle(FALSE) /\ UNCHANGED faults
     \/ Fails /\ scan' = Idle(FALSE)
  /\ UNCHANGED <<cronClock, schedule, cursor, published, watched>>

\* The first time, the rule has its baseline; then, the latest minute since the cursor.
ReadCursor ==
  /\ scan.step = "cursor"
  /\ LET fire == LatestMatch(scan.expr, cursor, scan.minute)
     IN \/ /\ cursor = NoMinute /\ UNCHANGED <<watched, faults>>
           /\ scan' = Of("write")
        \/ /\ cursor # NoMinute /\ fire # NoMinute /\ UNCHANGED <<watched, faults>>
           /\ scan' = [Of("emit") EXCEPT !.at = fire]
        \/ /\ cursor # NoMinute /\ fire = NoMinute /\ UNCHANGED faults
           /\ watched' = [watched EXCEPT !.whole = scan.minute, !.expr = scan.expr]
           /\ scan' = Idle(FALSE)
        \/ Fails /\ scan' = Idle(FALSE) /\ UNCHANGED watched
  /\ UNCHANGED <<cronClock, schedule, cursor, published>>

\* On the bus a duplicate is none.  A publish that fails may have stored the event; the
\* cursor stays either way.
Emit ==
  /\ scan.step = "emit"
  /\ \/ /\ published' = published \cup {[expr |-> scan.expr, at |-> scan.at]}
        /\ scan' = Of("write") /\ UNCHANGED faults
     \/ /\ Fails /\ scan' = Idle(FALSE)
        /\ published' \in {published, published \cup {[expr |-> scan.expr, at |-> scan.at]}}
  /\ UNCHANGED <<cronClock, schedule, cursor, watched>>

WriteCursor ==
  /\ scan.step = "write"
  /\ \/ /\ cursor' = scan.at
        /\ watched' = IF cursor = NoMinute THEN [watched EXCEPT !.baseline = scan.at]
                   ELSE [watched EXCEPT !.whole = scan.minute, !.expr = scan.expr]
        /\ UNCHANGED faults
     \/ Fails /\ UNCHANGED <<cursor, watched>>
  /\ scan' = Idle(FALSE)
  /\ UNCHANGED <<cronClock, schedule, published>>

\* Stopped or killed at any step, and started again: a scan at once.
Restart ==
  /\ Fails
  /\ scan' = Idle(TRUE)
  /\ UNCHANGED <<cronClock, schedule, cursor, published, watched>>

ScheduleNext ==
  \/ Minute \/ EditSchedule \/ StartScan \/ ReadCursor \/ Emit \/ WriteCursor \/ Restart

ScheduleSpec == ScheduleInit /\ [][ScheduleNext]_scheduleVars

------------------------------------------------------------------------------
(* What must hold.                                                           *)

\* A rule never fires for the past (doc.go): not for its baseline or before, and not for a
\* minute that is still to come.
NeverThePast ==
  \A e \in published : e.at > watched.baseline /\ e.at <= cronClock /\ MatchesAt(e.expr, e.at)

\* Nothing is missed for good (source.go, scanTrigger): after a whole scan, the latest minute
\* since the baseline that its expression matches has been fired, or one later than it has,
\* whatever failed before and wherever the process was stopped.
CaughtUp ==
  watched.whole # NoMinute =>
    \A m \in Due(watched.expr, watched.baseline, watched.whole) : \E e \in published : e.at >= m

ScheduleInv ==
  /\ cronClock \in Minutes /\ cursor \in Minutes \cup {NoMinute} /\ faults \in 0 .. MaxFaults
  /\ NeverThePast /\ CaughtUp
  /\ cursor # NoMinute => cursor = watched.baseline \/ \E e \in published : e.at = cursor

\* Catching up is at most one firing (doc.go), never a backlog: what a scan publishes is the
\* latest minute its expression matches, and what an expression fires for comes in order.
ScheduleKept ==
  [][/\ ScheduleInv'
     /\ \A e \in published' \ published :
          /\ \A d \in published : d.expr = e.expr => d.at < e.at
          /\ Due(e.expr, e.at, scan.minute) = {}]_scheduleVars
==============================================================================
