----------------------------- MODULE GateOpening -----------------------------
(***************************************************************************)
(* Opening a gate end to end: the backend's commands and outbox worker,    *)
(* the broker's topics and the edge gateway.                               *)
(***************************************************************************)
EXTENDS GateCommands, EdgeGateway

vars == <<backend, edge, topics>>

TypeOK == CommandsTypeOK /\ EdgeTypeOK

Init == CommandsInit /\ TopicsInit /\ EdgeInit

NextNoRestart ==
  \/ CommandsNext /\ UNCHANGED edge
  \/ EdgeNext /\ UNCHANGED backend

Next ==
  \/ NextNoRestart
  \/ EdgeRestarts /\ UNCHANGED backend
  \/ \E w \in Workers : WorkerDies(w) /\ UNCHANGED edge

Spec == Init /\ [][Next]_vars

\* handleAck as it reads in the source, its read and its write one step; and
\* nobody restarts.
NextAcksAtOnce == NextNoRestart /\ (acking = {} \/ acking' = {})

\* Handlers run on, messages reach connected peers, backoffs end.
Fairness ==
  /\ \A w \in Workers :
       WF_vars((WorkerStep(w) \/ \E c \in Commands : HandlerStep(w, c)) /\ UNCHANGED edge)
  /\ \A c \in Commands :
       /\ WF_vars(BackoffEnds(c) /\ UNCHANGED edge)
       /\ WF_vars(HandleCommand(c) /\ UNCHANGED backend)
       /\ WF_vars(HandlerGoesOn(c) /\ UNCHANGED backend)
  /\ \A a \in Answer :
       /\ WF_vars(readAck(a) /\ UNCHANGED edge)
       /\ WF_vars(writeAck(a) /\ UNCHANGED edge)

SpecAcksAtOnce == Init /\ [][NextAcksAtOnce]_vars /\ Fairness
-----------------------------------------------------------------------------
\* The status EXECUTED is never invented: the barrier was opened for the command
\* (handleAck, handleCommand), whoever restarts and whatever is lost or repeated.
ExecutedWasOpened == \A c \in Commands : command[c] = "EXECUTED" => c \in served

\* Between two starts of the gateway the barrier opens once per command at most,
\* however often it is published or delivered (CommandState.check).  Report,
\* resolution 8: "command-state.ts replays final ack without re-pulse".
OpenedOnce == \A c \in Commands : opened[c] <= 1

\* The outbox has done with a command only if the command left PENDING and
\* PUBLISHING: nobody else would publish it (GateOpenRequestedHandler).
ProcessedMeansPublished ==
  \A c \in Commands : event[c] = "PROCESSED" => command[c] \notin {"PENDING", "PUBLISHING"}

\* Every command the outbox has done with was published, and however often it is
\* published or delivered the barrier opens for it once (handler and gateway).
PublishedOpensOnce == OpenedOnce /\ ProcessedMeansPublished

\* Review resolution 9, "Concurrent commands - pg_advisory_xact_lock": one live
\* command per gate.
OneLiveCommandPerGate ==
  \A c1, c2 \in Commands : c1 # c2 /\ GateOf[c1] = GateOf[c2] => ~ (Live(c1) /\ Live(c2))

\* Edge README, "EXECUTED - barrier open succeeded", the last answer of the
\* lifecycle RECEIVED then EXECUTED / FAILED: it is not taken back.
ExecutedStaysExecuted ==
  [][\A c \in Commands : command[c] = "EXECUTED" => command'[c] = "EXECUTED"]_vars

\* Report, resolution 8, "replays final ack": a command whose answer was EXECUTED
\* is not answered FAILED when it comes again.
FinalAckReplayed ==
  [][\A c \in Commands :
       seen[c] = "EXECUTED" => Ack(c, "FAILED") \notin ackTopic' \ ackTopic]_vars

\* simulate-iot-gate.sh, scenario 7, "Only one RECEIVED ack should appear": once the
\* answer RECEIVED is out, it is not sent again.
OneReceivedAck ==
  [][\A c \in Commands :
       seen[c] # "none" /\ handler[c] # "receiving" =>
         Ack(c, "RECEIVED") \notin ackTopic' \ ackTopic]_vars

Contract == INSTANCE GateContract WITH
  requested <- {c \in Commands : command[c] # "NONE"},
  openings <- opened,
  served <- served,
  shown <- {c \in Commands : command[c] = "EXECUTED"}

\* Commands, outbox, broker and gateway together keep the contract of the gate.
KeepsContract == Contract!Spec

\* Nothing lost and nobody restarting, a command is answered, or expires on one
\* of the two clocks, or the outbox gives its event up.
CommandsSettle ==
  \A c \in Commands :
    command[c] = "PENDING" ~>
      \/ command[c] \in FinalStatuses
      \/ c \in expired \cup late
      \/ event[c] = "FAILED"
=============================================================================
