----------------------------- MODULE GateCommands -----------------------------
(***************************************************************************)
(* The backend's side of opening a gate: the gate_commands table, the      *)
(* outbox worker's handler that publishes a command, and the handling of   *)
(* the gateway's answers.  Each statement sent to the database is a step.  *)
(***************************************************************************)
EXTENDS GateTopics, Naturals, Sequences

CONSTANTS
  GateOf,       \* the gate of each command
  Workers, BatchSize, MaxAttempts

\* The configuration of the outbox worker (OutboxWorker!OutboxAssumption).
ASSUME CommandsAssumption ==
  /\ BatchSize \in Nat \ {0}
  /\ MaxAttempts \in Nat \ {0}

VARIABLES
  command,      \* status column, "NONE" before the row is inserted
  expired,      \* commands whose expiresAt the backend's clock has passed
  step,         \* per worker: where the handler of its event is
  acking,       \* answers read, checked against the row, and not yet written
  event, attempts, due, found, claimed

Outbox == INSTANCE OutboxWorker WITH Events <- Commands

commandRows == <<command, expired>>
outboxRows == <<event, attempts, due, found, claimed>>
backend == <<commandRows, step, acking, outboxRows>>

LiveStatuses == {"PENDING", "PUBLISHING", "PUBLISHED", "ACKNOWLEDGED"}
FinalStatuses == {"EXECUTED", "FAILED", "EXPIRED"}

Steps == {"claim", "revalidate", "block", "publish", "release", "mark", "expire",
          "returned", "threw"}

CommandsTypeOK ==
  /\ Outbox!OutboxTypeOK
  /\ TopicsTypeOK
  /\ command \in [Commands -> {"NONE"} \cup LiveStatuses \cup FinalStatuses]
  /\ expired \subseteq {c \in Commands : command[c] # "NONE"}
  /\ step \in [Workers -> Steps]
  /\ acking \subseteq Answer
  /\ \A c \in Commands : command[c] = "NONE" <=> event[c] = "NONE"

CommandsInit ==
  /\ Outbox!Init
  /\ command = [c \in Commands |-> "NONE"]
  /\ expired = {}
  /\ step = [w \in Workers |-> "claim"]
  /\ acking = {}

Live(c) == command[c] \in LiveStatuses /\ c \notin expired

\* Fault: the command being published is not taken to be live.
createOpenCommandDuringPublishing(c) ==
  /\ command[c] = "NONE"
  /\ \A other \in Commands :
       GateOf[other] = GateOf[c] /\ Live(other) => command[other] = "PUBLISHING"
  /\ command' = [command EXCEPT ![c] = "PENDING"]
  /\ Outbox!publishEvent(c)
  /\ UNCHANGED <<expired, step, acking, topics>>

\* The advisory lock of the gate makes the test and the insertion one step.  If
\* the gate has a live command the caller gets COMMAND_ALREADY_PENDING, and
\* only an access attempt is recorded.
createOpenCommand(c) ==
  /\ command[c] = "NONE"
  /\ \A other \in Commands : GateOf[other] = GateOf[c] => ~ Live(other)
  /\ command' = [command EXCEPT ![c] = "PENDING"]
  /\ Outbox!publishEvent(c)
  /\ UNCHANGED <<expired, step, acking, topics>>

\* The command outlives its commandTtlSeconds.
Expire(c) ==
  /\ command[c] # "NONE"
  /\ c \in Expiring \ expired
  /\ expired' = expired \cup {c}
  /\ UNCHANGED <<command, step, acking, outboxRows, topics>>

\* Worker w runs the GATE_OPEN_REQUESTED handler of command c, and is at s.
At(w, c, s) == Outbox!Handling(w, c) /\ step[w] = s

Go(w, s) == step' = [step EXCEPT ![w] = s]

SetCommand(c, status) == command' = [command EXCEPT ![c] = status]

\* A PENDING command becomes PUBLISHING.  One that was published already is
\* published again; an expired one is marked so; any other is an error.
claimCommandForPublishing(w, c) ==
  /\ At(w, c, "claim")
  /\ CASE command[c] = "PENDING" /\ c \notin expired ->
            SetCommand(c, "PUBLISHING") /\ Go(w, "revalidate")
       [] command[c] \in {"PUBLISHING", "PUBLISHED", "ACKNOWLEDGED", "EXECUTED"} ->
            UNCHANGED command /\ Go(w, "publish")
       [] command[c] \in {"PENDING", "FAILED", "EXPIRED"} /\ c \in expired ->
            UNCHANGED command /\ Go(w, "expire")
       [] OTHER ->
            UNCHANGED command /\ Go(w, "threw")
  /\ UNCHANGED <<expired, acking, outboxRows, topics>>

\* The gate, lot, organization or gateway may have been switched off since.
revalidateBeforePublish(w, c) ==
  /\ At(w, c, "revalidate")
  /\ Go(w, "publish") \/ Go(w, "block")
  /\ UNCHANGED <<command, expired, acking, outboxRows, topics>>

\* GATE_PUBLISH_BLOCKED: the update names the row, not the status it read.
blockCommand(w, c) ==
  /\ At(w, c, "block")
  /\ SetCommand(c, "FAILED")
  /\ Go(w, "threw")
  /\ UNCHANGED <<expired, acking, outboxRows, topics>>

publishOpenCommand(w, c) ==
  /\ At(w, c, "publish")
  /\ \/ openTopic' \in Accepted(openTopic, c) /\ Go(w, "mark")
     \/ openTopic' \in Rejected(openTopic, c) /\ Go(w, "release")
  /\ UNCHANGED <<commandRows, acking, outboxRows, ackTopic>>

\* Fault: the claim is kept, and the event's error swallowed.
keepPublishingClaim(w, c) ==
  /\ At(w, c, "release")
  /\ Go(w, "returned")
  /\ UNCHANGED <<commandRows, acking, outboxRows, topics>>

releasePublishingClaim(w, c) ==
  /\ At(w, c, "release")
  /\ command' = [command EXCEPT ![c] = IF @ = "PUBLISHING" THEN "PENDING" ELSE @]
  /\ Go(w, "threw")
  /\ UNCHANGED <<expired, acking, outboxRows, topics>>

\* Fault: a publication the broker accepted is not recorded.
publishedUnmarked(w, c) ==
  /\ At(w, c, "mark")
  /\ Go(w, "returned")
  /\ UNCHANGED <<commandRows, acking, outboxRows, topics>>

\* An answer may have come before the mark, which then leaves the status alone.
markCommandPublished(w, c) ==
  /\ At(w, c, "mark")
  /\ CASE command[c] \in {"PUBLISHING", "PENDING"} /\ c \notin expired ->
            SetCommand(c, "PUBLISHED") /\ Go(w, "returned")
       [] command[c] \in {"ACKNOWLEDGED", "EXECUTED", "PUBLISHED"} ->
            UNCHANGED command /\ Go(w, "returned")
       [] command[c] \in {"PUBLISHING", "PENDING", "FAILED", "EXPIRED"} /\ c \in expired ->
            UNCHANGED command /\ Go(w, "expire")
       [] OTHER ->
            UNCHANGED command /\ Go(w, "threw")
  /\ UNCHANGED <<expired, acking, outboxRows, topics>>

\* The update names the row, not the status that was read.
markCommandExpired(w, c) ==
  /\ At(w, c, "expire")
  /\ SetCommand(c, "EXPIRED")
  /\ Go(w, "threw")
  /\ UNCHANGED <<expired, acking, outboxRows, topics>>

HandlerStep(w, c) ==
  \/ claimCommandForPublishing(w, c)
  \/ revalidateBeforePublish(w, c)
  \/ blockCommand(w, c)
  \/ publishOpenCommand(w, c)
  \/ releasePublishingClaim(w, c)
  \/ markCommandPublished(w, c)
  \/ markCommandExpired(w, c)

\* The worker around the handler.  The update to PROCESSED may fail too.
WorkerStep(w) ==
  /\ \/ Outbox!tick(w) /\ UNCHANGED step
     \/ Outbox!claimNext(w) /\ UNCHANGED step
     \/ step[w] = "returned" /\ Outbox!handlerReturned(w) /\ Go(w, "claim")
     \/ step[w] \in {"returned", "threw"} /\ Outbox!handlerThrew(w) /\ Go(w, "claim")
  /\ UNCHANGED <<commandRows, acking, topics>>

BackoffEnds(c) ==
  /\ Outbox!BackoffEnds(c)
  /\ UNCHANGED <<commandRows, step, acking, topics>>

\* The process of worker w dies.  (Every process gets every answer, so another
\* one may still write those that this one was handling.)
WorkerDies(w) ==
  /\ Outbox!workerDies(w)
  /\ Go(w, "claim")
  /\ UNCHANGED <<commandRows, acking, topics>>

\* An answer comes in.  Nothing is done with it if the row has a final status.
readAck(a) ==
  /\ a \in ackTopic
  /\ ackTopic' \in Delivered(ackTopic, a)
  /\ acking' = IF command[a.command] \in FinalStatuses THEN acking ELSE acking \cup {a}
  /\ UNCHANGED <<commandRows, step, outboxRows, openTopic>>

AckedStatus == [RECEIVED |-> "ACKNOWLEDGED", EXECUTED |-> "EXECUTED", FAILED |-> "FAILED"]

\* The update names the row, not the status that readAck saw.  The event that
\* goes with it has a handler that does nothing.
writeAck(a) ==
  /\ a \in acking
  /\ acking' = acking \ {a}
  /\ SetCommand(a.command, AckedStatus[a.status])
  /\ UNCHANGED <<expired, step, outboxRows, topics>>

CommandsNext ==
  \/ \E c \in Commands :
       \/ createOpenCommand(c)
       \/ Expire(c)
       \/ BackoffEnds(c)
       \/ \E w \in Workers : HandlerStep(w, c)
  \/ \E w \in Workers : WorkerStep(w)
  \/ \E a \in Answer : readAck(a) \/ writeAck(a)
=============================================================================
