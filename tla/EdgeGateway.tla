----------------------------- MODULE EdgeGateway -----------------------------
(***************************************************************************)
(* The edge gateway of a gate (iot-edge): it takes OPEN commands, opens    *)
(* the barrier at most once for each one it remembers, and answers.        *)
(***************************************************************************)
EXTENDS GateTopics, Naturals

CONSTANTS
  TtlOutlivesDedupe,  \* whether a command may live longer than it is remembered
  MaxOpenings         \* bound: openings of the barrier per command and start of the gateway

ASSUME EdgeAssumption == MaxOpenings \in Nat

VARIABLES
  seen,      \* CommandState: the last answer recorded for a command, or "none"
  handler,   \* per command: where handleCommand is
  late,      \* commands whose expiresAt the gateway's clock has passed
  opened,    \* how often the barrier was opened for a command since the gateway started
  served,    \* commands the barrier was ever opened for
  degraded   \* whether the gateway reports DEGRADED

edge == <<seen, handler, late, opened, served, degraded>>

EdgeTypeOK ==
  /\ seen \in [Commands -> {"none"} \cup AckStatus]
  /\ handler \in [Commands -> {"idle", "receiving", "opening", "opened"}]
  /\ late \subseteq Commands
  /\ opened \in [Commands -> 0 .. MaxOpenings]
  /\ served \subseteq Commands
  /\ degraded \in BOOLEAN

EdgeInit ==
  /\ seen = [c \in Commands |-> "none"]
  /\ handler = [c \in Commands |-> "idle"]
  /\ late = {}
  /\ opened = [c \in Commands |-> 0]
  /\ served = {}
  /\ degraded = FALSE

Ack(c, status) == [command |-> c, status |-> status]

\* A publication of an answer that fails rejects the promise awaited.
PublishOk(a) == ackTopic' \in Accepted(ackTopic, a)
PublishFails(a) == Lossy /\ ackTopic' \in Rejected(ackTopic, a)

Take(c) == c \in openTopic /\ openTopic' \in Delivered(openTopic, c)

\* Fault: the duplicate is recognised by its answer, which is recorded only when
\* the barrier has been opened.
newCommandByFinalAck(c) ==
  /\ Take(c)
  /\ c \notin late
  /\ seen[c] \notin {"EXECUTED", "FAILED"}
  /\ seen' = [seen EXCEPT ![c] = "RECEIVED"]
  /\ handler' = [handler EXCEPT ![c] = "receiving"]
  /\ UNCHANGED <<late, opened, served, degraded, ackTopic>>

\* NEW: remembered and recorded as received before anything is awaited.
newCommand(c) ==
  /\ Take(c)
  /\ c \notin late
  /\ seen[c] = "none"
  /\ seen' = [seen EXCEPT ![c] = "RECEIVED"]
  /\ handler' = [handler EXCEPT ![c] = "receiving"]
  /\ UNCHANGED <<late, opened, served, degraded, ackTopic>>

\* DUPLICATE: the recorded answers again, RECEIVED first.
ReplayAcks(c) ==
  {Ack(c, "RECEIVED")} \cup (IF seen[c] = "RECEIVED" THEN {} ELSE {Ack(c, seen[c])})

duplicateCommand(c) ==
  /\ Take(c)
  /\ c \notin late
  /\ seen[c] # "none"
  /\ \E replayed \in SUBSET ReplayAcks(c) :
       /\ Lossy \/ replayed = ReplayAcks(c)
       /\ ackTopic' = ackTopic \cup replayed
  /\ UNCHANGED edge

\* EXPIRED is looked at before the commands remembered are.
expiredCommand(c) ==
  /\ Take(c)
  /\ c \in late
  /\ PublishOk(Ack(c, "FAILED")) \/ PublishFails(Ack(c, "FAILED"))
  /\ UNCHANGED edge

\* The barrier waits for the publication of RECEIVED, and is not opened if it fails.
publishReceived(c) ==
  /\ handler[c] = "receiving"
  /\ \/ /\ PublishOk(Ack(c, "RECEIVED"))
        /\ handler' = [handler EXCEPT ![c] = "opening"]
     \/ /\ PublishFails(Ack(c, "RECEIVED"))
        /\ handler' = [handler EXCEPT ![c] = "idle"]
  /\ UNCHANGED <<seen, late, opened, served, degraded, openTopic>>

\* The relay opens the barrier.
openBarrier(c) ==
  /\ handler[c] = "opening"
  /\ opened[c] < MaxOpenings
  /\ opened' = [opened EXCEPT ![c] = @ + 1]
  /\ served' = served \cup {c}
  /\ handler' = [handler EXCEPT ![c] = "opened"]
  /\ UNCHANGED <<seen, late, degraded, topics>>

\* The relay's answer, or none before the timeout: FAILED although the barrier
\* may be open.  The result is recorded if the command is still remembered.
\* The gateway turns DEGRADED only if the answer FAILED could be published.
finishCommand(c) ==
  /\ handler[c] \in {"opening", "opened"}
  /\ \E result \in {"EXECUTED", "FAILED"} :
       /\ result = "EXECUTED" => handler[c] = "opened"
       /\ seen' = [seen EXCEPT ![c] = IF @ = "none" THEN @ ELSE result]
       /\ \/ PublishOk(Ack(c, result)) /\ degraded' = (degraded \/ result = "FAILED")
          \/ PublishFails(Ack(c, result)) /\ UNCHANGED degraded
  /\ handler' = [handler EXCEPT ![c] = "idle"]
  /\ UNCHANGED <<late, opened, served, openTopic>>

\* The gateway's clock passes the command's expiresAt.
ExpireAtEdge(c) ==
  /\ c \in Expiring \ late
  /\ late' = late \cup {c}
  /\ UNCHANGED <<seen, handler, opened, served, degraded, topics>>

\* Fault: the entries pruned are the young ones.
pruneYoung(c) ==
  /\ seen[c] # "none"
  /\ c \notin late
  /\ handler[c] = "idle"
  /\ seen' = [seen EXCEPT ![c] = "none"]
  /\ UNCHANGED <<handler, late, opened, served, degraded, topics>>

\* An entry is forgotten COMMAND_DEDUPE_TTL_MS after the command came: when the
\* command has expired, unless commandTtlSeconds is longer than that.
prune(c) ==
  /\ seen[c] # "none"
  /\ c \in late \/ (TtlOutlivesDedupe /\ handler[c] = "idle")
  /\ seen' = [seen EXCEPT ![c] = "none"]
  /\ UNCHANGED <<handler, late, opened, served, degraded, topics>>

\* The gateway restarts: it remembers nothing, and a clean session finds no
\* message from before.
EdgeRestarts ==
  /\ seen' = [c \in Commands |-> "none"]
  /\ handler' = [c \in Commands |-> "idle"]
  /\ opened' = [c \in Commands |-> 0]
  /\ degraded' = FALSE
  /\ openTopic' = {}
  /\ UNCHANGED <<late, served, ackTopic>>

HandleCommand(c) == newCommand(c) \/ duplicateCommand(c) \/ expiredCommand(c)
HandlerGoesOn(c) == publishReceived(c) \/ openBarrier(c) \/ finishCommand(c)

EdgeNext ==
  \E c \in Commands :
    HandleCommand(c) \/ HandlerGoesOn(c) \/ ExpireAtEdge(c) \/ prune(c)
=============================================================================
