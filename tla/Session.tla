------------------------------- MODULE Session -------------------------------
(***************************************************************************)
(* One launched agent: the messages humans post to its run, the loop of    *)
(* its supervisor that hands them over, the session that reads the agent's *)
(* stream and writes its stdin between tool calls, and the sink that keeps *)
(* the transcript other writers append to as well.                         *)
(*                                                                         *)
(* One launch in one process; what a line says is left out.  The agent and *)
(* its two pipes are external: it reads its stdin when a turn is over, and *)
(* leaves when it finds it closed.                                         *)
(***************************************************************************)
EXTENDS Naturals, FiniteSets, SequencesExt

CONSTANTS
  Messages,   \* numbered as created_at orders them
  ToolCalls,  \* tool_use ids
  PipeSize,   \* lines that fit into the pipe before the agent waits for the session
  MaxTurns,   \* bound: turns the agent takes
  MaxOthers   \* bound: rows the proxy and the MCP server append meanwhile

ASSUME SessionAssumption ==
  /\ Messages \subseteq Nat /\ IsFiniteSet(Messages)
  /\ 0 \notin ToolCalls

VARIABLES
  message,    \* run_messages.state, "none" before the row
  poster,     \* handleSteer: "idle", "checked", "created", "done"
  steer,      \* the supervisor's one-slot channel is full
  loop,       \* the supervisor: "launch", "select", "hand", "mark", "drop", "end", "over"
  listed,     \* drainSteering's list
  inFlight, held,          \* session.inFlight and session.queue
  stdinClosed, stopped, ended,
  actionSeq, progressSeq,  \* the adapter's number of a call's row and heartbeat row, or 0
  seqMap, transcript,      \* the sink's numbers, and the rows
  stdin, stdout,           \* what is in the pipes
  cli, calling, turns,     \* the agent: "working", "waiting", "exited"; its open calls
  accepted, written        \* history: what Steer took, what went to stdin

messageVars == <<message, poster>>
loopVars    == <<steer, loop, listed>>
adapterVars == <<inFlight, held, stdinClosed, stopped, ended, actionSeq, progressSeq>>
rowsVars    == <<seqMap, transcript>>
agentVars   == <<stdin, stdout, cli, calling, turns>>
paperVars   == <<accepted, written>>
sessionAll  == <<messageVars, loopVars, adapterVars, rowsVars, agentVars, paperVars>>

SinkRow(what, call, done) == [what |-> what, call |-> call, done |-> done]
StreamLine(what, call) == [what |-> what, call |-> call]

\* Provisioning has left a row already.
SessionInit ==
  /\ message = [m \in Messages |-> "none"] /\ poster = [m \in Messages |-> "idle"]
  /\ steer = FALSE /\ loop = "launch" /\ listed = <<>>
  /\ inFlight = {} /\ held = <<>>
  /\ stdinClosed = FALSE /\ stopped = FALSE /\ ended = FALSE
  /\ actionSeq = [t \in ToolCalls |-> 0] /\ progressSeq = [t \in ToolCalls |-> 0]
  /\ seqMap = <<>> /\ transcript = <<SinkRow("other", 0, TRUE)>>
  /\ stdin = <<>> /\ stdout = <<>> /\ cli = "working" /\ calling = {} /\ turns = 0
  /\ accepted = <<>> /\ written = <<>>

------------------------------------------------------------------------------
(* handleSteer: look and take the time, insert, nudge.                      *)

ReadRun(m) ==
  /\ poster[m] = "idle" /\ loop # "over"
  /\ \A k \in Messages : k < m => poster[k] # "idle"
  /\ poster' = [poster EXCEPT ![m] = "checked"]
  /\ UNCHANGED <<message, loopVars, adapterVars, rowsVars, agentVars, paperVars>>

CreateMessage(m) ==
  /\ poster[m] = "checked"
  /\ poster' = [poster EXCEPT ![m] = "created"]
  /\ message' = [message EXCEPT ![m] = "queued"]
  /\ UNCHANGED <<loopVars, adapterVars, rowsVars, agentVars, paperVars>>

NotifySteering(m) ==
  /\ poster[m] = "created"
  /\ poster' = [poster EXCEPT ![m] = "done"]
  /\ steer' = (steer \/ loop # "over")
  /\ UNCHANGED <<message, loop, listed, adapterVars, rowsVars, agentVars, paperVars>>

------------------------------------------------------------------------------
(* The sink: an adapter's number is mapped to the row it got.               *)

EmitNew(row) ==
  /\ transcript' = Append(transcript, row)
  /\ seqMap' = Append(seqMap, Len(transcript) + 1)

EmitAgain(seq, row) == transcript' = [transcript EXCEPT ![seqMap[seq]] = row] /\ UNCHANGED seqMap

\* What a call does, seen by the egress proxy and the MCP tools: AppendNext between the
\* adapter's rows.
OthersAppend ==
  /\ calling # {} /\ Len(transcript) - Len(seqMap) <= MaxOthers
  /\ transcript' = Append(transcript, SinkRow("other", 0, TRUE))
  /\ UNCHANGED <<messageVars, loopVars, adapterVars, seqMap, agentVars, paperVars>>

------------------------------------------------------------------------------
(* Writing to the agent.  A write fails once it has exited.                 *)

Writable == cli # "exited"

WriteUser(ms) == stdin' = stdin \o ms /\ written' = written \o ms

\* flushQueueLocked: all of the queue, or none of it into a broken pipe.
FlushQueue ==
  IF Writable THEN WriteUser(held) /\ held' = <<>> ELSE UNCHANGED <<held, stdin, written>>

Kept == UNCHANGED <<held, stdin, written>>

------------------------------------------------------------------------------
(* The supervisor hands messages over.                                      *)

\* The queued ones, oldest first.
QueuedForRun ==
  LET queued == {m \in Messages : message[m] = "queued"}
  IN CHOOSE list \in [1..Cardinality(queued) -> queued] :
       \A i, j \in 1..Cardinality(queued) : i < j => list[i] < list[j]

Drain ==
  /\ listed' = QueuedForRun
  /\ loop' = IF QueuedForRun = <<>> THEN "select" ELSE "hand"

\* Launch returned: the handle is set, and what was posted before is drained.
DrainAfterLaunch ==
  /\ loop = "launch" /\ Drain
  /\ UNCHANGED <<messageVars, steer, adapterVars, rowsVars, agentVars, paperVars>>

DrainOnNudge ==
  /\ loop = "select" /\ steer /\ steer' = FALSE /\ Drain
  /\ UNCHANGED <<messageVars, adapterVars, rowsVars, agentVars, paperVars>>

\* Steer, of the list's head: refused, held until the calls in flight return, or written.
HandOver ==
  /\ loop = "hand"
  /\ \/ /\ ended \/ stdinClosed \/ (inFlight = {} /\ ~Writable)
        /\ loop' = "select" /\ listed' = <<>>
        /\ Kept /\ UNCHANGED accepted
     \/ /\ ~ended /\ ~stdinClosed /\ (inFlight # {} \/ Writable)
        /\ loop' = "mark" /\ UNCHANGED listed
        /\ accepted' = Append(accepted, Head(listed))
        /\ IF inFlight # {}
           THEN held' = Append(held, Head(listed)) /\ UNCHANGED <<stdin, written>>
           ELSE WriteUser(<<Head(listed)>>) /\ UNCHANGED held
  /\ UNCHANGED <<messageVars, steer, inFlight, stdinClosed, stopped, ended, actionSeq, progressSeq,
                 rowsVars, stdout, cli, calling, turns>>

MarkDelivered ==
  /\ loop = "mark"
  /\ message' = [message EXCEPT ![Head(listed)] = IF @ = "queued" THEN "delivered" ELSE @]
  /\ listed' = Tail(listed)
  /\ loop' = IF Tail(listed) = <<>> THEN "select" ELSE "hand"
  /\ UNCHANGED <<poster, steer, adapterVars, rowsVars, agentVars, paperVars>>

\* The terminal path, once Wait returned.
WaitReturns ==
  /\ loop = "select" /\ ended
  /\ loop' = "drop"
  /\ UNCHANGED <<messageVars, steer, listed, adapterVars, rowsVars, agentVars, paperVars>>

DropQueued ==
  /\ loop = "drop" /\ loop' = "end"
  /\ message' = [m \in Messages |-> IF message[m] = "queued" THEN "dropped" ELSE message[m]]
  /\ UNCHANGED <<poster, steer, listed, adapterVars, rowsVars, agentVars, paperVars>>

EndRow ==
  /\ loop = "end" /\ loop' = "over"
  /\ UNCHANGED <<messageVars, steer, listed, adapterVars, rowsVars, agentVars, paperVars>>

------------------------------------------------------------------------------
(* The session reads a line.                                                *)

Line(what) == stdout # <<>> /\ Head(stdout).what = what /\ stdout' = Tail(stdout)
OfCall(t)  == Head(stdout).call = t

BeginAction(t) ==
  /\ ~ended /\ Line("use") /\ OfCall(t)
  /\ EmitNew(SinkRow("action", t, FALSE))
  /\ actionSeq' = [actionSeq EXCEPT ![t] = Len(seqMap) + 1]
  /\ inFlight' = inFlight \cup {t}
  /\ UNCHANGED <<messageVars, loopVars, held, stdinClosed, stopped, ended, progressSeq, stdin, cli, calling, turns,
                 paperVars>>

\* One heartbeat row per call, counting up in place.
HandleToolProgress(t) ==
  /\ ~ended /\ Line("progress") /\ OfCall(t)
  /\ IF progressSeq[t] = 0
     THEN /\ EmitNew(SinkRow("progress", t, FALSE))
          /\ progressSeq' = [progressSeq EXCEPT ![t] = Len(seqMap) + 1]
     ELSE EmitAgain(progressSeq[t], SinkRow("progress", t, FALSE)) /\ UNCHANGED progressSeq
  /\ UNCHANGED <<messageVars, loopVars, inFlight, held, stdinClosed, stopped, ended, actionSeq,
                 stdin, cli, calling, turns, paperVars>>

\* The result goes onto the call's own row; a gap between calls delivers what is held.
HandleUserOnly(t) ==
  /\ ~ended /\ Line("done") /\ OfCall(t)
  /\ EmitAgain(actionSeq[t], SinkRow("action", t, TRUE))
  /\ inFlight' = inFlight \ {t}
  /\ progressSeq' = [progressSeq EXCEPT ![t] = 0]
  /\ Kept
  /\ UNCHANGED <<messageVars, loopVars, stdinClosed, stopped, ended, actionSeq, cli, calling, turns,
                 accepted>>

HandleUser(t) ==
  /\ ~ended /\ Line("done") /\ OfCall(t)
  /\ EmitAgain(actionSeq[t], SinkRow("action", t, TRUE))
  /\ inFlight' = inFlight \ {t}
  /\ progressSeq' = [progressSeq EXCEPT ![t] = 0]
  /\ IF inFlight' = {} /\ ~stdinClosed THEN FlushQueue ELSE Kept
  /\ UNCHANGED <<messageVars, loopVars, stdinClosed, stopped, ended, actionSeq, cli, calling, turns,
                 accepted>>

TurnEndedLeavesOpen == Kept /\ UNCHANGED stdinClosed

\* The turn is over: there is more to say, or stdin is closed and the agent leaves.
TurnEnded ==
  \/ /\ held = <<>> \/ stdinClosed
     /\ stdinClosed' = TRUE /\ Kept
  \/ /\ held # <<>> /\ ~stdinClosed
     /\ FlushQueue /\ stdinClosed' = ~Writable

HandleResult ==
  /\ ~ended /\ Line("result")
  /\ EmitNew(SinkRow("result", 0, TRUE))
  /\ TurnEnded
  /\ UNCHANGED <<messageVars, loopVars, inFlight, stopped, ended, actionSeq, progressSeq, cli,
                 calling, turns, accepted>>

\* End of the stream: what is still held is reported as a count, in one row.
Finish ==
  /\ ~ended /\ cli = "exited" /\ stdout = <<>>
  /\ ended' = TRUE /\ held' = <<>>
  /\ IF held # <<>> THEN EmitNew(SinkRow("undelivered", 0, TRUE)) ELSE UNCHANGED rowsVars
  /\ UNCHANGED <<messageVars, loopVars, inFlight, stdinClosed, stopped, actionSeq, progressSeq,
                 agentVars, paperVars>>

\* Stop, by a human, the step cap, the wall clock or shutdown: stdin is closed, the agent
\* signalled.
StopSession ==
  /\ loop \notin {"launch", "over"} /\ ~stopped /\ ~ended
  /\ stopped' = TRUE /\ stdinClosed' = TRUE
  /\ UNCHANGED <<messageVars, loopVars, inFlight, held, ended, actionSeq, progressSeq, rowsVars,
                 agentVars, paperVars>>

------------------------------------------------------------------------------
(* The agent (external).                                                    *)

Says(line) == Len(stdout) < PipeSize /\ stdout' = Append(stdout, line)

CliUses(t) ==
  /\ cli = "working" /\ t \notin calling
  /\ StreamLine("use", t) \notin ToSet(stdout) /\ actionSeq[t] = 0
  /\ calling' = calling \cup {t} /\ Says(StreamLine("use", t))
  /\ UNCHANGED <<messageVars, loopVars, adapterVars, rowsVars, stdin, cli, turns, paperVars>>

CliHeartbeat(t) ==
  /\ cli = "working" /\ t \in calling
  /\ StreamLine("progress", t) \notin ToSet(stdout) /\ Says(StreamLine("progress", t))
  /\ UNCHANGED <<messageVars, loopVars, adapterVars, rowsVars, stdin, cli, calling, turns,
                 paperVars>>

CliReturns(t) ==
  /\ cli = "working" /\ t \in calling
  /\ calling' = calling \ {t} /\ Says(StreamLine("done", t))
  /\ UNCHANGED <<messageVars, loopVars, adapterVars, rowsVars, stdin, cli, turns, paperVars>>

\* A turn may end on an error with calls open.
CliEndsTurn ==
  /\ cli = "working"
  /\ cli' = "waiting" /\ calling' = {} /\ Says(StreamLine("result", 0))
  /\ UNCHANGED <<messageVars, loopVars, adapterVars, rowsVars, stdin, turns, paperVars>>

CliHears ==
  /\ cli = "waiting" /\ stdin # <<>> /\ turns < MaxTurns
  /\ cli' = "working" /\ turns' = turns + 1 /\ stdin' = Tail(stdin)
  /\ UNCHANGED <<messageVars, loopVars, adapterVars, rowsVars, stdout, calling, paperVars>>

\* It leaves at the end of its input, when it is killed, or when it breaks down.
CliExits ==
  /\ \/ cli = "waiting" /\ stdinClosed /\ (stdin = <<>> \/ turns = MaxTurns)
     \/ cli # "exited" /\ stopped
     \/ cli = "working"
  /\ cli' = "exited" /\ calling' = {}
  /\ UNCHANGED <<messageVars, loopVars, adapterVars, rowsVars, stdin, stdout, turns, paperVars>>

------------------------------------------------------------------------------
SuperviseMessages ==
  DrainAfterLaunch \/ DrainOnNudge \/ HandOver \/ MarkDelivered \/ WaitReturns \/ DropQueued \/ EndRow

PumpStdout ==
  \/ HandleResult \/ Finish
  \/ \E t \in ToolCalls : BeginAction(t) \/ HandleToolProgress(t) \/ HandleUser(t)

CliSteps ==
  \/ CliEndsTurn \/ CliHears \/ CliExits
  \/ \E t \in ToolCalls : CliUses(t) \/ CliHeartbeat(t) \/ CliReturns(t)

SessionNext ==
  \/ \E m \in Messages : ReadRun(m) \/ CreateMessage(m) \/ NotifySteering(m)
  \/ SuperviseMessages \/ PumpStdout \/ StopSession \/ OthersAppend \/ CliSteps

\* Handlers, the supervisor and the pump run; an agent that has nothing to read leaves.
\* Nothing obliges a working agent to end its turn, or a human to post or to stop it.
SessionFairness ==
  /\ \A m \in Messages : WF_sessionAll(CreateMessage(m)) /\ WF_sessionAll(NotifySteering(m))
  /\ WF_sessionAll(SuperviseMessages) /\ WF_sessionAll(PumpStdout)
  /\ WF_sessionAll(CliHears \/ (cli = "waiting" /\ CliExits)) /\ WF_sessionAll(stopped /\ CliExits)

SessionSpec == SessionInit /\ [][SessionNext]_sessionAll /\ SessionFairness

------------------------------------------------------------------------------
(* Properties. *)

\* Messages reach the agent in the order Steer took them and once each, held back or not
\* ("queue, don't interrupt"), none is held while nothing is in flight, and a turn's end
\* never closes stdin over one that is held (Steer, flushQueueLocked, turnEndedLocked).
NoneOvertakes ==
  /\ ~ended => accepted = written \o held
  /\ \A i, j \in DOMAIN accepted : accepted[i] = accepted[j] => i = j
  /\ held # <<>> /\ Writable /\ ~stopped => inFlight # {} /\ ~stdinClosed

\* A call has one action row, and its result is on it, whatever heartbeats and other
\* writers appended in between (seqMap, AppendNext, Update).
ResultsOnOwnRow ==
  \A t \in ToolCalls : actionSeq[t] # 0 =>
    \E i \in DOMAIN transcript :
      /\ transcript[i] = SinkRow("action", t, t \notin inFlight)
      /\ \A j \in DOMAIN transcript \ {i} :
           transcript[j].call = t => transcript[j].what = "progress"

SessionInv == NoneOvertakes /\ ResultsOnOwnRow

\* Nobody waits for ever: no message stays queued while the agent could take it or once it
\* has left, and no agent sits at the end of a turn with its stdin open and empty ("a run that
\* had finished its work sat in running until its wall clock fired").
SessionMovesOn ==
  []<>(/\ \A m \in Messages : message[m] = "queued" => (stdinClosed /\ cli # "exited") \/ loop = "over"
       /\ ~(cli = "waiting" /\ stdin = <<>> /\ ~stdinClosed))

\* "a message a run can no longer hear is honestly `dropped`, never silently forgotten"
\* (DropQueued).  Not so: what the session held at its exit is marked delivered, and a
\* message inserted behind the sweep stays queued.
NoneForgotten ==
  loop = "over" => \A m \in Messages :
    /\ message[m] # "queued"
    /\ message[m] = "delivered" => m \in ToSet(written)
==============================================================================
