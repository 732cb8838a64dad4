-------------------------- MODULE GateOpeningProofs --------------------------
(***************************************************************************)
(* What holds of a gate and its commands for any commands, workers, number *)
(* of attempts and faults of the broker.  The outbox is proved about in    *)
(* OutboxProofs; Rows brings its theorems to the rows of the commands.  At  *)
(* the end: what holds of the tags and gates that administrators register.  *)
(***************************************************************************)
EXTENDS GateOpening, GateRegistry, TLAPS

Rows == INSTANCE OutboxProofs WITH Events <- Commands

OutboxSound == Outbox!OutboxTypeOK /\ Outbox!ClaimsExclusive

\* The two instances of the outbox, the one the model runs and the one the proofs
\* are about, are the same.
LEMMA SameOutbox ==
  /\ OutboxSound <=> Rows!OutboxInv
  /\ OutboxSound' <=> Rows!OutboxInv'
  /\ Outbox!Init <=> Rows!Init
  /\ Outbox!Next <=> Rows!Next
  /\ \A w, e : Outbox!Handling(w, e) <=> Rows!Handling(w, e)
<1>1. OutboxSound <=> Rows!OutboxInv
  BY DEF OutboxSound, Rows!OutboxInv, Outbox!OutboxTypeOK, Rows!OutboxTypeOK,
         Outbox!ClaimsExclusive, Rows!ClaimsExclusive, Outbox!EventStatus, Rows!EventStatus,
         Outbox!Row, Rows!Row, Outbox!Claims, Rows!Claims
<1>2. OutboxSound' <=> Rows!OutboxInv'
  BY DEF OutboxSound, Rows!OutboxInv, Outbox!OutboxTypeOK, Rows!OutboxTypeOK,
         Outbox!ClaimsExclusive, Rows!ClaimsExclusive, Outbox!EventStatus, Rows!EventStatus,
         Outbox!Row, Rows!Row, Outbox!Claims, Rows!Claims
<1>3. Outbox!Init <=> Rows!Init
  BY DEF Outbox!Init, Rows!Init
<1>4. ASSUME NEW w, NEW e
      PROVE  Outbox!Handling(w, e) <=> Rows!Handling(w, e)
  BY DEF Outbox!Handling, Rows!Handling
<1>5. \A q, e : /\ Outbox!Contains(q, e) <=> Rows!Contains(q, e)
               /\ Outbox!RemoveFirst(q, e) = Rows!RemoveFirst(q, e)
  BY DEF Outbox!Contains, Rows!Contains, Outbox!RemoveFirst, Rows!RemoveFirst, Outbox!RemoveAt,
         Rows!RemoveAt, Outbox!SelectInSeq, Rows!SelectInSeq, Outbox!Min, Rows!Min
<1>6. ASSUME NEW w
      PROVE  Outbox!WorkerStep(w) <=> Rows!WorkerStep(w)
  <2>1. Outbox!tick(w) <=> Rows!tick(w)
    BY DEF Outbox!tick, Rows!tick, Outbox!Idle, Rows!Idle, Outbox!FirstDue, Rows!FirstDue
  <2>2. Outbox!claimNext(w) <=> Rows!claimNext(w)
    BY <1>5 DEF Outbox!claimNext, Rows!claimNext
  <2>3. Outbox!handlerReturned(w) <=> Rows!handlerReturned(w)
    BY <1>4 DEF Outbox!handlerReturned, Rows!handlerReturned
  <2>4. Outbox!handlerThrew(w) <=> Rows!handlerThrew(w)
    BY <1>4 DEF Outbox!handlerThrew, Rows!handlerThrew
  <2> QED
    BY <2>1, <2>2, <2>3, <2>4 DEF Outbox!WorkerStep, Rows!WorkerStep
<1>7. Outbox!Next <=> Rows!Next
  <2>1. \A e : Outbox!publishEvent(e) <=> Rows!publishEvent(e)
    BY DEF Outbox!publishEvent, Rows!publishEvent
  <2>2. \A e : Outbox!BackoffEnds(e) <=> Rows!BackoffEnds(e)
    BY <1>5 DEF Outbox!BackoffEnds, Rows!BackoffEnds
  <2>3. \A w : Outbox!workerDies(w) <=> Rows!workerDies(w)
    BY DEF Outbox!workerDies, Rows!workerDies, Outbox!Idle, Rows!Idle
  <2> QED
    BY <1>6, <2>1, <2>2, <2>3 DEF Outbox!Next, Rows!Next
<1> QED
  BY <1>1, <1>2, <1>3, <1>4, <1>7

\* What OutboxProofs says of the outbox's steps, and of a row in a handler.
LEMMA OutboxKept ==
  ASSUME OutboxSound, Outbox!Next \/ UNCHANGED outboxRows
  PROVE  OutboxSound'
<1>1. [Rows!Next]_Rows!outbox
  BY SameOutbox DEF Rows!outbox, outboxRows
<1> QED
  BY <1>1, SameOutbox, CommandsAssumption, Rows!OutboxStep DEF Rows!OutboxAssumption

\* A handler works on a command whose event is PROCESSING.
LEMMA HandledRow ==
  ASSUME OutboxSound, NEW w \in Workers, NEW c, Outbox!Handling(w, c)
  PROVE  c \in Commands /\ event[c] = "PROCESSING"
BY SameOutbox, CommandsAssumption, Rows!HandledProcessing DEF Rows!OutboxAssumption
-----------------------------------------------------------------------------
Requested == {c \in Commands : command[c] # "NONE"}

\* The command was published, or given up: nobody has to publish it any more.
Published(c) == command[c] \notin {"NONE", "PENDING", "PUBLISHING"}

\* A worker that is past the claim of its handler has a row, and the handler
\* returns, or the row is PROCESSED, only when the command was published.
HandlersSound ==
  /\ \A w \in Workers : step[w] # "claim" => found[w] = <<>> /\ claimed[w] # <<>>
  /\ \A w \in Workers, c \in Commands : At(w, c, "returned") => Published(c)
  /\ \A c \in Commands : event[c] = "PROCESSED" => Published(c)

\* Nothing is under way for a command nobody asked for, and EXECUTED is said only
\* of commands that the barrier was opened for: in the topics ...
TopicsHonest ==
  /\ openTopic \subseteq Requested
  /\ \A a \in ackTopic \cup acking :
       a.command \in Requested /\ (a.status = "EXECUTED" => a.command \in served)

\* ... and where it is recorded.
RecordsHonest ==
  \A c \in Commands :
    /\ seen[c] # "none" \/ handler[c] # "idle" => c \in Requested
    /\ seen[c] = "EXECUTED" \/ handler[c] = "opened" => c \in served
    /\ command[c] = "EXECUTED" => c \in served

MessagesSound == TopicsHonest /\ RecordsHonest

\* A command that the gateway handles or has opened the barrier for is remembered
\* until it is late, and a late one is not taken for a new one.
OpeningsSound ==
  \A c \in Commands :
    /\ opened[c] <= 1
    /\ handler[c] \in {"receiving", "opening"} => opened[c] = 0
    /\ opened[c] # 0 \/ handler[c] # "idle" => seen[c] # "none" \/ c \in late

CommandStatus == {"NONE"} \cup LiveStatuses \cup FinalStatuses

\* Whatever the broker does with a message, the topic has no other one in it.
LEMMA TopicsKept ==
  ASSUME NEW topic, NEW message
  PROVE  /\ \A t \in Accepted(topic, message) \cup Rejected(topic, message) : t \subseteq topic \cup {message}
         /\ \A t \in Delivered(topic, message) : t \subseteq topic
BY DEF Accepted, Rejected, Delivered

\* What the handler of worker w does to command c in one step: it moves on, and
\* changes the status of the command, if any, in these ways only.
HandlerMove(w, c) ==
  /\ Outbox!Handling(w, c)
  /\ \E s \in Steps, status \in CommandStatus :
       /\ step' = [step EXCEPT ![w] = s]
       /\ command' = [command EXCEPT ![c] = status]
       /\ status = "NONE" => command[c] = "NONE"
       /\ status = "EXECUTED" => command[c] = "EXECUTED"
       /\ status \in {"PENDING", "PUBLISHING"} => ~ Published(c)
       /\ s = "returned" => status \in {"PUBLISHED", "ACKNOWLEDGED", "EXECUTED"}
       /\ status \in LiveStatuses /\ c \notin expired => Live(c)
  /\ openTopic' \subseteq openTopic \cup {c}
  /\ UNCHANGED <<expired, acking, outboxRows, ackTopic>>

\* Every step of GateOpenRequestedHandler is such a move.
LEMMA HandlerShape ==
  ASSUME CommandsTypeOK, OutboxSound, NEW w \in Workers, NEW c \in Commands, HandlerStep(w, c)
  PROVE  HandlerMove(w, c)
<1>0. /\ command \in [Commands -> CommandStatus] /\ step \in [Workers -> Steps]
      /\ command[c] \in CommandStatus
  BY DEF CommandsTypeOK, CommandStatus
<1>h. Outbox!Handling(w, c)
  BY DEF HandlerStep, claimCommandForPublishing, revalidateBeforePublish, blockCommand,
         publishOpenCommand, releasePublishingClaim, markCommandPublished, markCommandExpired, At
<1>s. command[c] # "NONE"
  BY <1>h, HandledRow DEF CommandsTypeOK
<1>u. ASSUME UNCHANGED command
      PROVE  command' = [command EXCEPT ![c] = command[c]]
  BY <1>0, <1>u
<1>t. Live(c) <=> command[c] \in LiveStatuses /\ c \notin expired
  BY DEF Live
<1> USE DEF CommandStatus, LiveStatuses, FinalStatuses, Steps, Go, SetCommand
<1>1. CASE claimCommandForPublishing(w, c)
  <2>1. /\ UNCHANGED <<expired, acking, outboxRows, openTopic, ackTopic>>
        /\ \/ command[c] = "PENDING" /\ c \notin expired /\ SetCommand(c, "PUBLISHING") /\ Go(w, "revalidate")
           \/ UNCHANGED command /\ Go(w, "publish")
           \/ UNCHANGED command /\ Go(w, "expire")
           \/ UNCHANGED command /\ Go(w, "threw")
    BY <1>1 DEF claimCommandForPublishing, topics
  <2> QED
    BY <1>0, <1>h, <1>s, <1>u, <1>t, <2>1 DEF HandlerMove, Published
<1>2. CASE revalidateBeforePublish(w, c)
  BY <1>0, <1>h, <1>s, <1>u, <1>t, <1>2 DEF revalidateBeforePublish, HandlerMove, Published, topics
<1>3. CASE blockCommand(w, c)
  BY <1>0, <1>h, <1>s, <1>t, <1>3 DEF blockCommand, HandlerMove, Published, topics
<1>4. CASE publishOpenCommand(w, c)
  <2>1. /\ openTopic' \subseteq openTopic \cup {c}
        /\ UNCHANGED <<command, expired, acking, outboxRows, ackTopic>>
        /\ Go(w, "mark") \/ Go(w, "release")
    BY <1>4, TopicsKept DEF publishOpenCommand, commandRows
  <2> QED
    BY <1>0, <1>h, <1>s, <1>u, <1>t, <2>1 DEF HandlerMove, Published
<1>5. CASE releasePublishingClaim(w, c)
  BY <1>0, <1>h, <1>s, <1>t, <1>5 DEF releasePublishingClaim, HandlerMove, Published, topics
<1>6. CASE markCommandPublished(w, c)
  <2>1. /\ UNCHANGED <<expired, acking, outboxRows, openTopic, ackTopic>>
        /\ \/ /\ command[c] \in {"PUBLISHING", "PENDING"} /\ c \notin expired
              /\ SetCommand(c, "PUBLISHED") /\ Go(w, "returned")
           \/ /\ command[c] \in {"ACKNOWLEDGED", "EXECUTED", "PUBLISHED"}
              /\ UNCHANGED command /\ Go(w, "returned")
           \/ UNCHANGED command /\ Go(w, "expire")
           \/ UNCHANGED command /\ Go(w, "threw")
    BY <1>6 DEF markCommandPublished, topics
  <2> QED
    BY <1>0, <1>h, <1>s, <1>u, <1>t, <2>1 DEF HandlerMove, Published
<1>7. CASE markCommandExpired(w, c)
  BY <1>0, <1>h, <1>s, <1>t, <1>7 DEF markCommandExpired, HandlerMove, Published, topics
<1> QED
  BY <1>1, <1>2, <1>3, <1>4, <1>5, <1>6, <1>7 DEF HandlerStep

BackendSound == CommandsTypeOK /\ OutboxSound /\ HandlersSound

\* A step that leaves the workers' rows and places alone keeps HandlersSound if it
\* takes no published command back.
LEMMA HandlersUntouched ==
  ASSUME HandlersSound, UNCHANGED <<step, found, claimed>>,
         \A c \in Commands : Published(c) => Published(c)',
         \A c \in Commands : event'[c] = "PROCESSED" => event[c] = "PROCESSED"
  PROVE  HandlersSound'
BY DEF HandlersSound, At, Outbox!Handling

\* A command that is inserted is new, to the outbox as to the handlers.
LEMMA createOpenCommandSound ==
  ASSUME BackendSound, NEW c \in Commands, createOpenCommand(c)
  PROVE  BackendSound'
<1>0. /\ CommandsTypeOK /\ OutboxSound /\ HandlersSound /\ command[c] = "NONE" /\ event[c] = "NONE"
      /\ command' = [command EXCEPT ![c] = "PENDING"] /\ Outbox!publishEvent(c)
      /\ UNCHANGED <<expired, step, acking, topics>>
  BY DEF BackendSound, createOpenCommand, CommandsTypeOK
<1>1. OutboxSound'
  BY <1>0, OutboxKept DEF Outbox!Next
<1>2. /\ event' = [event EXCEPT ![c] = "PENDING"] /\ UNCHANGED <<found, claimed>>
      /\ event \in [Commands -> Outbox!EventStatus]
      /\ command \in [Commands -> {"NONE"} \cup LiveStatuses \cup FinalStatuses]
  BY <1>0 DEF Outbox!publishEvent, CommandsTypeOK, Outbox!OutboxTypeOK
<1>3. CommandsTypeOK'
  BY <1>0, <1>1, <1>2 DEF CommandsTypeOK, OutboxSound, LiveStatuses, TopicsTypeOK, topics
<1>4. HandlersSound'
  BY <1>0, <1>2, HandlersUntouched DEF Published
<1> QED
  BY <1>1, <1>3, <1>4 DEF BackendSound

\* Clocks and backoffs change no status.
LEMMA ClocksSound ==
  ASSUME BackendSound, NEW c \in Commands, Expire(c) \/ BackoffEnds(c)
  PROVE  BackendSound'
<1>0. CommandsTypeOK /\ OutboxSound /\ HandlersSound
  BY DEF BackendSound
<1>1. CASE Expire(c)
  <2>1. /\ command[c] # "NONE" /\ expired' = expired \cup {c}
        /\ UNCHANGED <<command, step, acking, topics, outboxRows>>
    BY <1>1 DEF Expire
  <2>2. OutboxSound'
    BY <1>0, <2>1, OutboxKept
  <2>3. HandlersSound'
    BY <1>0, <2>1, HandlersUntouched DEF outboxRows, Published
  <2>4. CommandsTypeOK'
    BY <1>0, <2>1, <2>2 DEF CommandsTypeOK, OutboxSound, TopicsTypeOK, topics, outboxRows
  <2> QED
    BY <2>2, <2>3, <2>4 DEF BackendSound
<1>2. CASE BackoffEnds(c)
  <2>1. Outbox!BackoffEnds(c) /\ UNCHANGED <<command, expired, step, acking, topics, event, found, claimed>>
    BY <1>2 DEF BackoffEnds, Outbox!BackoffEnds, commandRows
  <2>2. OutboxSound'
    BY <1>0, <2>1, OutboxKept DEF Outbox!Next
  <2>3. HandlersSound'
    BY <1>0, <2>1, HandlersUntouched DEF Published
  <2>4. CommandsTypeOK'
    BY <1>0, <2>1, <2>2 DEF CommandsTypeOK, OutboxSound, TopicsTypeOK, topics
  <2> QED
    BY <2>2, <2>3, <2>4 DEF BackendSound
<1> QED
  BY <1>1, <1>2

\* A move of a handler returns only with a published command.
LEMMA HandlerMoveSound ==
  ASSUME BackendSound, NEW w \in Workers, NEW c \in Commands, HandlerMove(w, c)
  PROVE  BackendSound'
<1>0. /\ CommandsTypeOK /\ OutboxSound /\ HandlersSound /\ Outbox!Handling(w, c)
      /\ UNCHANGED <<expired, acking, outboxRows, ackTopic>> /\ openTopic' \subseteq openTopic \cup {c}
      /\ UNCHANGED <<event, found, claimed>>
      /\ command \in [Commands -> CommandStatus] /\ step \in [Workers -> Steps]
  BY DEF BackendSound, HandlerMove, CommandsTypeOK, CommandStatus, outboxRows
<1>1. PICK s \in Steps, status \in CommandStatus :
        /\ step' = [step EXCEPT ![w] = s]
        /\ command' = [command EXCEPT ![c] = status]
        /\ status = "NONE" => command[c] = "NONE"
        /\ status \in {"PENDING", "PUBLISHING"} => ~ Published(c)
        /\ s = "returned" => status \in {"PUBLISHED", "ACKNOWLEDGED", "EXECUTED"}
  BY DEF HandlerMove
<1>2. OutboxSound'
  BY <1>0, OutboxKept
<1>3. command[c] # "NONE" /\ command'[c] = status
  BY <1>0, <1>1, HandledRow DEF CommandsTypeOK
<1>4. CommandsTypeOK'
  <2>1. command' \in [Commands -> CommandStatus] /\ step' \in [Workers -> Steps]
    BY <1>0, <1>1
  <2>2. \A d \in Commands : command'[d] = "NONE" <=> command[d] = "NONE"
    BY <1>0, <1>1, <1>3
  <2>3. TopicsTypeOK'
    BY <1>0 DEF CommandsTypeOK, TopicsTypeOK
  <2> QED
    BY <1>0, <1>2, <2>1, <2>2, <2>3 DEF CommandsTypeOK, OutboxSound, CommandStatus
<1>5. \A d \in Commands : Published(d) => Published(d)'
  BY <1>0, <1>1, <1>3 DEF Published
<1>6. HandlersSound'
  <2>1. ASSUME NEW v \in Workers, step'[v] # "claim"
        PROVE  (found[v] = <<>> /\ claimed[v] # <<>>)'
    BY <1>0, <1>1, <2>1 DEF HandlersSound, Outbox!Handling
  <2>2. ASSUME NEW v \in Workers, NEW d \in Commands, At(v, d, "returned")'
        PROVE  Published(d)'
    <3>1. CASE v = w
      <4>1. d = c /\ s = "returned"
        BY <1>0, <1>1, <2>2, <3>1 DEF At, Outbox!Handling
      <4> QED
        BY <1>1, <1>3, <4>1 DEF Published
    <3>2. CASE v # w
      <4>1. At(v, d, "returned")
        BY <1>0, <1>1, <2>2, <3>2 DEF At, Outbox!Handling
      <4> QED
        BY <1>0, <1>5, <4>1 DEF HandlersSound
    <3> QED
      BY <3>1, <3>2
  <2> QED
    BY <1>0, <1>5, <2>1, <2>2 DEF HandlersSound
<1> QED
  BY <1>2, <1>4, <1>6 DEF BackendSound

\* The worker takes up the next row, or ends with the one it has: PROCESSED only
\* when the handler returned.
LEMMA WorkerSound ==
  ASSUME BackendSound, NEW w \in Workers, WorkerStep(w) \/ WorkerDies(w)
  PROVE  BackendSound'
<1>0. /\ CommandsTypeOK /\ OutboxSound /\ HandlersSound
      /\ UNCHANGED <<command, expired, acking, topics>>
      /\ step \in [Workers -> Steps] /\ event \in [Commands -> Outbox!EventStatus]
      /\ found \in [Workers -> Seq(Outbox!Row)] /\ claimed \in [Workers -> Seq(Outbox!Row)]
  BY DEF BackendSound, WorkerStep, WorkerDies, commandRows, CommandsTypeOK, Outbox!OutboxTypeOK
<1>1. OutboxSound'
  <2>1. Outbox!WorkerStep(w) \/ Outbox!workerDies(w)
    BY DEF WorkerStep, WorkerDies, Outbox!WorkerStep
  <2> QED
    BY <1>0, <2>1, OutboxKept DEF Outbox!Next
<1> DEFINE Shape ==
      /\ step' \in [Workers -> Steps]
      /\ \A v \in Workers : step'[v] # "claim" =>
           /\ step'[v] = step[v] /\ found'[v] = found[v] /\ claimed'[v] = claimed[v]
      /\ \A c \in Commands :
           /\ event'[c] = "NONE" <=> event[c] = "NONE"
           /\ event'[c] = "PROCESSED" => event[c] = "PROCESSED" \/ Published(c)
<1>2. Shape
  <2>s. "claim" \in Steps
    BY DEF Steps
  <2>1. CASE Outbox!tick(w) /\ UNCHANGED step
    <3>1. step[w] = "claim"
      BY <1>0, <2>1 DEF Outbox!tick, Outbox!Idle, HandlersSound
    <3>2. UNCHANGED event /\ \A v \in Workers \ {w} : found'[v] = found[v] /\ claimed'[v] = claimed[v]
      BY <1>0, <2>1 DEF Outbox!tick
    <3> QED
      BY <1>0, <2>1, <3>1, <3>2
  <2>2. CASE Outbox!claimNext(w) /\ UNCHANGED step
    <3>1. step[w] = "claim"
      BY <1>0, <2>2 DEF Outbox!claimNext, HandlersSound
    <3>2. \A v \in Workers \ {w} : found'[v] = found[v] /\ claimed'[v] = claimed[v]
      BY <1>0, <2>2 DEF Outbox!claimNext
    <3>3. \A c \in Commands : event'[c] = event[c] \/ (event[c] = "PENDING" /\ event'[c] = "PROCESSING")
      BY <1>0, <2>2 DEF Outbox!claimNext
    <3> QED
      BY <1>0, <2>2, <3>1, <3>2, <3>3
  <2>3. CASE step[w] = "returned" /\ Outbox!handlerReturned(w) /\ Go(w, "claim")
    <3>1. PICK e \in Commands :
            /\ Outbox!Handling(w, e) /\ event' = [event EXCEPT ![e] = "PROCESSED"]
            /\ claimed' = [claimed EXCEPT ![w] = Tail(@)] /\ UNCHANGED found
      BY <2>3 DEF Outbox!handlerReturned
    <3>2. event[e] = "PROCESSING" /\ Published(e)
      BY <1>0, <2>3, <3>1, HandledRow DEF HandlersSound, At
    <3> QED
      BY <1>0, <2>3, <2>s, <3>1, <3>2 DEF Go
  <2>4. CASE Outbox!handlerThrew(w) /\ Go(w, "claim")
    <3>1. PICK e \in Commands, status \in {"PENDING", "FAILED"} :
            /\ Outbox!Handling(w, e) /\ event' = [event EXCEPT ![e] = status]
            /\ claimed' = [claimed EXCEPT ![w] = Tail(@)] /\ UNCHANGED found
      BY <2>4 DEF Outbox!handlerThrew
    <3>2. event[e] = "PROCESSING"
      BY <1>0, <3>1, HandledRow
    <3> QED
      BY <1>0, <2>4, <2>s, <3>1, <3>2 DEF Go
  <2>5. CASE WorkerDies(w)
    BY <1>0, <2>5, <2>s DEF WorkerDies, Outbox!workerDies, Go
  <2> QED
    BY <2>1, <2>2, <2>3, <2>4, <2>5 DEF WorkerStep
<1>3. CommandsTypeOK'
  BY <1>0, <1>1, <1>2 DEF CommandsTypeOK, OutboxSound, TopicsTypeOK, topics
<1>4. HandlersSound'
  BY <1>0, <1>2 DEF HandlersSound, At, Outbox!Handling, Published
<1> QED
  BY <1>1, <1>3, <1>4 DEF BackendSound

\* An answer takes no published command back to where it must be published.
LEMMA AckSound ==
  ASSUME BackendSound, NEW a \in Answer, readAck(a) \/ writeAck(a),
         writeAck(a) => a.command \in Requested
  PROVE  BackendSound'
<1>0. /\ CommandsTypeOK /\ OutboxSound /\ HandlersSound
      /\ UNCHANGED <<expired, step, outboxRows, openTopic>>
      /\ command \in [Commands -> CommandStatus]
      /\ UNCHANGED <<event, found, claimed>>
  BY DEF BackendSound, readAck, writeAck, commandRows, topics, CommandsTypeOK, CommandStatus, outboxRows
<1>1. OutboxSound'
  BY <1>0, OutboxKept
<1>2. CASE readAck(a)
  <2>1. UNCHANGED command /\ ackTopic' \subseteq ackTopic /\ acking' \subseteq acking \cup {a}
    BY <1>2, TopicsKept DEF readAck, commandRows
  <2>2. CommandsTypeOK'
    BY <1>0, <1>1, <2>1 DEF CommandsTypeOK, OutboxSound, TopicsTypeOK
  <2>3. HandlersSound'
    BY <1>0, <2>1, HandlersUntouched DEF Published
  <2> QED
    BY <1>1, <2>2, <2>3 DEF BackendSound
<1>3. CASE writeAck(a)
  <2>1. /\ a.command \in Commands /\ a.status \in AckStatus
        /\ AckedStatus[a.status] \in {"ACKNOWLEDGED", "EXECUTED", "FAILED"}
    BY DEF Answer, AckStatus, AckedStatus
  <2>2. /\ command' = [command EXCEPT ![a.command] = AckedStatus[a.status]]
        /\ acking' = acking \ {a} /\ UNCHANGED ackTopic /\ command[a.command] # "NONE"
    BY <1>3 DEF writeAck, SetCommand, topics, Requested
  <2>3. /\ command' \in [Commands -> CommandStatus]
        /\ \A d \in Commands : (command'[d] = "NONE" <=> command[d] = "NONE") /\ (Published(d) => Published(d)')
    BY <1>0, <2>1, <2>2 DEF CommandStatus, LiveStatuses, FinalStatuses, Published
  <2>4. CommandsTypeOK'
    BY <1>0, <1>1, <2>2, <2>3 DEF CommandsTypeOK, OutboxSound, TopicsTypeOK, CommandStatus
  <2>5. HandlersSound'
    BY <1>0, <2>3, HandlersUntouched
  <2> QED
    BY <1>1, <2>4, <2>5 DEF BackendSound
<1> QED
  BY <1>2, <1>3
-----------------------------------------------------------------------------
EdgeSound == EdgeTypeOK /\ TopicsTypeOK /\ MessagesSound

\* An answer that may be said of a command: it was asked for, and EXECUTED only if
\* the barrier was opened for it.
Sayable(a) == a \in Answer /\ a.command \in Requested /\ (a.status = "EXECUTED" => a.command \in served)

\* Publishing an answer, well or badly, puts no other one in the topic.
LEMMA AnswerPublished ==
  ASSUME NEW a, PublishOk(a) \/ PublishFails(a)
  PROVE  ackTopic' \subseteq ackTopic \cup {a}
BY TopicsKept DEF PublishOk, PublishFails

\* What goes out or comes in at the gateway keeps the topics sound if no command
\* is put in /commands and what is put in /acks may be said.
LEMMA TopicsSound ==
  ASSUME EdgeSound, UNCHANGED <<command, acking>>, served \subseteq served',
         openTopic' \subseteq openTopic, NEW said, \A a \in said : Sayable(a),
         ackTopic' \subseteq ackTopic \cup said
  PROVE  TopicsTypeOK' /\ TopicsHonest'
BY DEF EdgeSound, TopicsTypeOK, MessagesSound, TopicsHonest, Sayable, Requested

\* What a step of the gateway for command c does to the others: nothing.
Others(c) ==
  \A d \in Commands \ {c} : seen'[d] = seen[d] /\ handler'[d] = handler[d] /\ opened'[d] = opened[d]

\* A command is taken only when somebody asked for it.
LEMMA HandleCommandSound ==
  ASSUME EdgeSound, NEW c \in Commands, HandleCommand(c), UNCHANGED backend
  PROVE  /\ EdgeSound'
         /\ OpeningsSound => OpeningsSound'
<1>0. /\ EdgeTypeOK /\ TopicsTypeOK /\ MessagesSound /\ UNCHANGED <<command, acking>>
      /\ c \in openTopic /\ openTopic' \subseteq openTopic /\ c \in Requested
  <2>1. Take(c)
    BY DEF HandleCommand, newCommand, duplicateCommand, expiredCommand
  <2> QED
    BY <2>1, TopicsKept DEF EdgeSound, MessagesSound, TopicsHonest, Take, backend, commandRows
<1>1. ASSUME NEW status \in {"RECEIVED", "FAILED"}
      PROVE  Sayable(Ack(c, status))
  BY <1>0 DEF Sayable, Ack, Answer, AckStatus
<1>2. CASE newCommand(c)
  <2>1. /\ seen[c] = "none" /\ c \notin late
        /\ seen' = [seen EXCEPT ![c] = "RECEIVED"] /\ handler' = [handler EXCEPT ![c] = "receiving"]
        /\ UNCHANGED <<late, opened, served, degraded, ackTopic>>
    BY <1>2 DEF newCommand
  <2>2. EdgeTypeOK'
    BY <1>0, <2>1 DEF EdgeTypeOK, AckStatus
  <2>3. Others(c) /\ seen'[c] = "RECEIVED" /\ handler'[c] = "receiving"
    BY <1>0, <2>1 DEF EdgeTypeOK, Others
  <2>4. MessagesSound' /\ TopicsTypeOK'
    BY <1>0, <2>1, <2>3 DEF MessagesSound, TopicsHonest, RecordsHonest, Others, Requested, TopicsTypeOK
  <2>5. OpeningsSound => OpeningsSound'
    BY <2>1, <2>3 DEF OpeningsSound, Others
  <2> QED
    BY <2>2, <2>4, <2>5 DEF EdgeSound
<1>3. ASSUME UNCHANGED edge, NEW said, \A a \in said : Sayable(a), ackTopic' \subseteq ackTopic \cup said
      PROVE  EdgeSound' /\ (OpeningsSound => OpeningsSound')
  <2>1. EdgeTypeOK' /\ (OpeningsSound => OpeningsSound')
    BY <1>0, <1>3 DEF EdgeTypeOK, OpeningsSound, edge
  <2>2. MessagesSound' /\ TopicsTypeOK'
    BY <1>0, <1>3, TopicsSound DEF MessagesSound, RecordsHonest, Requested, edge
  <2> QED
    BY <2>1, <2>2 DEF EdgeSound
<1>4. CASE duplicateCommand(c)
  <2>1. seen[c] \in AckStatus /\ (seen[c] = "EXECUTED" => c \in served)
    BY <1>0, <1>4 DEF duplicateCommand, EdgeTypeOK, MessagesSound, RecordsHonest
  <2>2. \A a \in ReplayAcks(c) : Sayable(a)
    BY <1>0, <1>1, <2>1 DEF ReplayAcks, Sayable, Ack, Answer
  <2> QED
    BY <1>3, <1>4, <2>2 DEF duplicateCommand
<1>5. CASE expiredCommand(c)
  <2> DEFINE said == {Ack(c, "FAILED")}
  <2>1. UNCHANGED edge /\ ackTopic' \subseteq ackTopic \cup said
    BY <1>5, AnswerPublished DEF expiredCommand
  <2>2. \A a \in said : Sayable(a)
    BY <1>1
  <2> HIDE DEF said
  <2> QED
    BY <1>3, <2>1, <2>2
<1> QED
  BY <1>2, <1>4, <1>5 DEF HandleCommand

\* The barrier opens for a command that came and was not opened before, and what
\* is said of it is what happened.
LEMMA HandlerGoesOnSound ==
  ASSUME EdgeSound, NEW c \in Commands, HandlerGoesOn(c), UNCHANGED backend
  PROVE  /\ EdgeSound'
         /\ OpeningsSound => OpeningsSound'
<1>0. /\ EdgeTypeOK /\ TopicsTypeOK /\ MessagesSound /\ UNCHANGED <<command, acking, late, openTopic>>
      /\ handler[c] # "idle" /\ c \in Requested
  BY DEF EdgeSound, HandlerGoesOn, publishReceived, openBarrier, finishCommand, MessagesSound, RecordsHonest,
         backend, commandRows, topics
<1>1. ASSUME NEW status \in {"RECEIVED", "FAILED"}
      PROVE  Sayable(Ack(c, status))
  BY <1>0 DEF Sayable, Ack, Answer, AckStatus
<1>2. CASE publishReceived(c)
  <2>1. PICK at \in {"opening", "idle"} :
          /\ handler[c] = "receiving" /\ handler' = [handler EXCEPT ![c] = at]
          /\ UNCHANGED <<seen, opened, served, degraded>>
          /\ ackTopic' \subseteq ackTopic \cup {Ack(c, "RECEIVED")}
    BY <1>2, AnswerPublished DEF publishReceived
  <2>2. EdgeTypeOK' /\ Others(c) /\ handler'[c] = at
    BY <1>0, <2>1 DEF EdgeTypeOK, Others
  <2>3. MessagesSound' /\ TopicsTypeOK'
    <3> DEFINE said == {Ack(c, "RECEIVED")}
    <3>1. (\A a \in said : Sayable(a)) /\ ackTopic' \subseteq ackTopic \cup said
      BY <1>1, <2>1
    <3> HIDE DEF said
    <3>2. TopicsTypeOK' /\ TopicsHonest'
      BY <1>0, <2>1, <3>1, TopicsSound
    <3>3. RecordsHonest'
      BY <1>0, <2>1, <2>2 DEF MessagesSound, RecordsHonest, Others, Requested
    <3> QED
      BY <3>2, <3>3 DEF MessagesSound
  <2>4. OpeningsSound => OpeningsSound'
    BY <1>0, <2>1, <2>2 DEF OpeningsSound, Others
  <2> QED
    BY <2>2, <2>3, <2>4 DEF EdgeSound
<1>3. CASE openBarrier(c)
  <2>1. /\ handler[c] = "opening" /\ opened[c] < MaxOpenings
        /\ opened' = [opened EXCEPT ![c] = opened[c] + 1]
        /\ served' = served \cup {c} /\ handler' = [handler EXCEPT ![c] = "opened"]
        /\ UNCHANGED <<seen, degraded, ackTopic>>
    BY <1>3 DEF openBarrier, topics
  <2>2. EdgeTypeOK' /\ Others(c) /\ handler'[c] = "opened" /\ opened'[c] = opened[c] + 1
    BY <1>0, <2>1, EdgeAssumption DEF EdgeTypeOK, Others
  <2>3. MessagesSound' /\ TopicsTypeOK'
    BY <1>0, <2>1, <2>2 DEF MessagesSound, TopicsHonest, RecordsHonest, Others, Requested, TopicsTypeOK
  <2>4. OpeningsSound => OpeningsSound'
    BY <1>0, <2>1, <2>2 DEF OpeningsSound, Others
  <2> QED
    BY <2>2, <2>3, <2>4 DEF EdgeSound
<1>4. CASE finishCommand(c)
  <2>1. PICK result \in {"EXECUTED", "FAILED"} :
          /\ result = "EXECUTED" => handler[c] = "opened"
          /\ seen' = [seen EXCEPT ![c] = IF @ = "none" THEN @ ELSE result]
          /\ \/ PublishOk(Ack(c, result)) /\ degraded' = (degraded \/ result = "FAILED")
             \/ PublishFails(Ack(c, result)) /\ UNCHANGED degraded
    BY <1>4 DEF finishCommand
  <2>2. /\ handler' = [handler EXCEPT ![c] = "idle"] /\ UNCHANGED <<opened, served>>
        /\ ackTopic' \subseteq ackTopic \cup {Ack(c, result)}
        /\ degraded' \in BOOLEAN
    BY <1>0, <1>4, <2>1, AnswerPublished DEF finishCommand, EdgeTypeOK
  <2>3. /\ EdgeTypeOK' /\ Others(c) /\ handler'[c] = "idle"
        /\ seen'[c] = IF seen[c] = "none" THEN "none" ELSE result
    BY <1>0, <2>1, <2>2 DEF EdgeTypeOK, Others, AckStatus
  <2>4. Sayable(Ack(c, result)) /\ (result = "EXECUTED" => c \in served)
    BY <1>0, <2>1 DEF MessagesSound, RecordsHonest, Sayable, Ack, Answer, AckStatus
  <2>5. MessagesSound' /\ TopicsTypeOK'
    <3> DEFINE said == {Ack(c, result)}
    <3>1. (\A a \in said : Sayable(a)) /\ ackTopic' \subseteq ackTopic \cup said
      BY <2>2, <2>4
    <3> HIDE DEF said
    <3>2. TopicsTypeOK' /\ TopicsHonest'
      BY <1>0, <2>2, <3>1, TopicsSound
    <3>3. RecordsHonest'
      BY <1>0, <2>2, <2>3, <2>4 DEF MessagesSound, RecordsHonest, Others, Requested
    <3> QED
      BY <3>2, <3>3 DEF MessagesSound
  <2>6. OpeningsSound => OpeningsSound'
    BY <1>0, <2>1, <2>2, <2>3 DEF OpeningsSound, Others
  <2> QED
    BY <2>3, <2>5, <2>6 DEF EdgeSound
<1> QED
  BY <1>2, <1>3, <1>4 DEF HandlerGoesOn

\* A command that is forgotten is late, unless commands outlive what is remembered;
\* and a gateway that restarts has no command in hand and finds none in the topic.
LEMMA GatewayForgetsSound ==
  ASSUME EdgeSound, UNCHANGED backend,
         EdgeRestarts \/ \E c \in Commands : ExpireAtEdge(c) \/ prune(c)
  PROVE  /\ EdgeSound'
         /\ ~ TtlOutlivesDedupe /\ OpeningsSound => OpeningsSound'
<1>0. EdgeTypeOK /\ TopicsTypeOK /\ MessagesSound /\ UNCHANGED <<command, acking>>
  BY DEF EdgeSound, backend, commandRows
<1>1. ASSUME NEW c \in Commands, ExpireAtEdge(c)
      PROVE  EdgeSound' /\ (OpeningsSound => OpeningsSound')
  BY <1>0, <1>1 DEF ExpireAtEdge, EdgeSound, EdgeTypeOK, TopicsTypeOK, MessagesSound, TopicsHonest,
                    RecordsHonest, OpeningsSound, Requested, topics
<1>2. ASSUME NEW c \in Commands, prune(c)
      PROVE  EdgeSound' /\ (~ TtlOutlivesDedupe /\ OpeningsSound => OpeningsSound')
  <2>1. /\ seen' = [seen EXCEPT ![c] = "none"] /\ (~ TtlOutlivesDedupe => c \in late)
        /\ UNCHANGED <<handler, late, opened, served, degraded, openTopic, ackTopic>>
    BY <1>2 DEF prune, topics
  <2>2. EdgeTypeOK' /\ Others(c) /\ seen'[c] = "none"
    BY <1>0, <2>1 DEF EdgeTypeOK, Others
  <2>3. MessagesSound' /\ TopicsTypeOK'
    BY <1>0, <2>1, <2>2 DEF MessagesSound, TopicsHonest, RecordsHonest, Others, Requested, TopicsTypeOK
  <2>4. ~ TtlOutlivesDedupe /\ OpeningsSound => OpeningsSound'
    BY <2>1, <2>2 DEF OpeningsSound, Others
  <2> QED
    BY <2>2, <2>3, <2>4 DEF EdgeSound
<1>3. CASE EdgeRestarts
  <2>1. /\ seen' = [c \in Commands |-> "none"] /\ handler' = [c \in Commands |-> "idle"]
        /\ opened' = [c \in Commands |-> 0] /\ degraded' = FALSE /\ openTopic' = {}
        /\ UNCHANGED <<late, served, ackTopic>>
    BY <1>3 DEF EdgeRestarts
  <2>2. EdgeTypeOK' /\ TopicsTypeOK'
    <3>1. 0 \in 0 .. MaxOpenings
      BY EdgeAssumption
    <3> QED
      BY <1>0, <2>1, <3>1 DEF EdgeTypeOK, TopicsTypeOK
  <2>3. MessagesSound'
    BY <1>0, <2>1 DEF MessagesSound, TopicsHonest, RecordsHonest, Requested
  <2>4. OpeningsSound'
    BY <2>1 DEF OpeningsSound
  <2> QED
    BY <2>2, <2>3, <2>4 DEF EdgeSound
<1> QED
  BY <1>1, <1>2, <1>3
-----------------------------------------------------------------------------
\* The inductive invariant of the gate.  OpeningsSound joins it where a command is
\* not remembered for less time than it may live.
GateInv == BackendSound /\ EdgeTypeOK /\ MessagesSound

\* What a step of the backend does to the statuses of the commands.
CommandChange ==
  \/ UNCHANGED command
  \/ \E c \in Commands : command[c] = "NONE" /\ command' = [command EXCEPT ![c] = "PENDING"]
  \/ \E c \in Commands, status \in CommandStatus \ {"NONE"} :
       /\ command[c] # "NONE"
       /\ command' = [command EXCEPT ![c] = status]
       /\ status = "EXECUTED" => c \in served

\* A step of the backend changes one status at most, EXECUTED only for a command
\* that was served, and publishes only commands that somebody asked for.
LEMMA BackendShape ==
  ASSUME GateInv, CommandsNext \/ \E w \in Workers : WorkerDies(w)
  PROVE  /\ BackendSound' /\ CommandChange
         /\ openTopic' \subseteq openTopic \cup Requested
         /\ ackTopic' \cup acking' \subseteq ackTopic \cup acking
<1>0. /\ BackendSound /\ CommandsTypeOK /\ OutboxSound /\ TopicsHonest /\ RecordsHonest
      /\ command \in [Commands -> CommandStatus]
  BY DEF GateInv, BackendSound, MessagesSound, CommandsTypeOK, CommandStatus
<1> DEFINE Topics == /\ openTopic' \subseteq openTopic \cup Requested
                     /\ ackTopic' \cup acking' \subseteq ackTopic \cup acking
<1>1. ASSUME NEW c \in Commands, createOpenCommand(c)
      PROVE  BackendSound' /\ CommandChange /\ Topics
  BY <1>0, <1>1, createOpenCommandSound DEF createOpenCommand, CommandChange, topics
<1>2. ASSUME NEW c \in Commands, Expire(c) \/ BackoffEnds(c)
      PROVE  BackendSound' /\ CommandChange /\ Topics
  BY <1>0, <1>2, ClocksSound DEF Expire, BackoffEnds, CommandChange, topics, commandRows
<1>3. ASSUME NEW c \in Commands, NEW w \in Workers, HandlerStep(w, c)
      PROVE  BackendSound' /\ CommandChange /\ Topics
  <2>1. HandlerMove(w, c)
    BY <1>0, <1>3, HandlerShape
  <2>2. command[c] # "NONE" /\ c \in Requested
    BY <1>0, <2>1, HandledRow DEF HandlerMove, CommandsTypeOK, Requested
  <2>3. PICK status \in CommandStatus :
          /\ command' = [command EXCEPT ![c] = status]
          /\ status # "NONE" /\ (status = "EXECUTED" => command[c] = "EXECUTED")
    BY <2>1, <2>2 DEF HandlerMove
  <2>4. CommandChange
    BY <1>0, <2>2, <2>3 DEF CommandChange, RecordsHonest
  <2>5. Topics
    BY <2>1, <2>2 DEF HandlerMove
  <2> QED
    BY <1>0, <2>1, <2>4, <2>5, HandlerMoveSound
<1>4. ASSUME NEW w \in Workers, WorkerStep(w) \/ WorkerDies(w)
      PROVE  BackendSound' /\ CommandChange /\ Topics
  BY <1>0, <1>4, WorkerSound DEF WorkerStep, WorkerDies, CommandChange, topics, commandRows
<1>5. ASSUME NEW a \in Answer, readAck(a) \/ writeAck(a)
      PROVE  BackendSound' /\ CommandChange /\ Topics
  <2>1. writeAck(a) => a.command \in Requested /\ (a.status = "EXECUTED" => a.command \in served)
    BY <1>0 DEF writeAck, TopicsHonest
  <2>2. BackendSound'
    BY <1>0, <1>5, <2>1, AckSound
  <2>3. CASE readAck(a)
    BY <2>2, <2>3, TopicsKept DEF readAck, CommandChange, commandRows
  <2>4. CASE writeAck(a)
    <3>1. a.command \in Commands /\ a.status \in AckStatus
      BY DEF Answer
    <3>2. /\ AckedStatus[a.status] \in CommandStatus \ {"NONE"}
          /\ AckedStatus[a.status] = "EXECUTED" => a.status = "EXECUTED"
      BY <3>1 DEF AckStatus, AckedStatus, CommandStatus, LiveStatuses, FinalStatuses
    <3>3. command' = [command EXCEPT ![a.command] = AckedStatus[a.status]] /\ command[a.command] # "NONE"
      BY <2>1, <2>4 DEF writeAck, SetCommand, Requested
    <3>4. CommandChange
      BY <2>1, <2>4, <3>1, <3>2, <3>3 DEF CommandChange
    <3>5. Topics
      BY <2>4 DEF writeAck, topics
    <3> QED
      BY <2>2, <3>4, <3>5
  <2> QED
    BY <1>5, <2>3, <2>4
<1> QED
  BY <1>1, <1>2, <1>3, <1>4, <1>5 DEF CommandsNext

\* A step of the backend keeps what the gateway relies on.
LEMMA BackendStep ==
  ASSUME GateInv, CommandsNext \/ \E w \in Workers : WorkerDies(w), UNCHANGED edge
  PROVE  GateInv' /\ (OpeningsSound => OpeningsSound')
<1>0. /\ BackendSound' /\ CommandChange /\ openTopic' \subseteq openTopic \cup Requested
      /\ ackTopic' \cup acking' \subseteq ackTopic \cup acking
      /\ UNCHANGED <<seen, handler, late, opened, served, degraded>>
      /\ EdgeTypeOK /\ TopicsHonest /\ RecordsHonest /\ command \in [Commands -> CommandStatus]
  BY BackendShape DEF edge, GateInv, MessagesSound, BackendSound, CommandsTypeOK, CommandStatus
<1>1. EdgeTypeOK' /\ (OpeningsSound => OpeningsSound')
  BY <1>0 DEF EdgeTypeOK, OpeningsSound
<1>2. \A c \in Commands :
        /\ command[c] # "NONE" => command'[c] # "NONE"
        /\ command'[c] = "EXECUTED" => command[c] = "EXECUTED" \/ c \in served
  BY <1>0 DEF CommandChange
<1>3. Requested \subseteq Requested'
  BY <1>2 DEF Requested
<1>4. MessagesSound'
  BY <1>0, <1>2, <1>3 DEF MessagesSound, TopicsHonest, RecordsHonest
<1> QED
  BY <1>0, <1>1, <1>4 DEF GateInv

\* A step of the gateway keeps what the backend relies on.
LEMMA EdgeStep ==
  ASSUME GateInv, EdgeNext \/ EdgeRestarts, UNCHANGED backend
  PROVE  /\ GateInv'
         /\ ~ TtlOutlivesDedupe /\ OpeningsSound => OpeningsSound'
<1>1. EdgeSound
  BY DEF GateInv, BackendSound, CommandsTypeOK, EdgeSound
<1>2. EdgeSound' /\ (~ TtlOutlivesDedupe /\ OpeningsSound => OpeningsSound')
  BY <1>1, HandleCommandSound, HandlerGoesOnSound, GatewayForgetsSound DEF EdgeNext
<1>3. BackendSound'
  <2>1. UNCHANGED <<command, expired, step, acking, event, attempts, due, found, claimed, outboxRows>>
    BY DEF backend, commandRows, outboxRows
  <2>2. OutboxSound'
    BY <2>1, OutboxKept DEF GateInv, BackendSound
  <2>3. CommandsTypeOK' /\ HandlersSound'
    BY <1>2, <2>1, <2>2 DEF GateInv, BackendSound, CommandsTypeOK, EdgeSound, OutboxSound, HandlersSound, At,
                            Outbox!Handling, Published
  <2> QED
    BY <2>2, <2>3 DEF BackendSound
<1> QED
  BY <1>2, <1>3 DEF GateInv, EdgeSound

\* The invariants hold before the first command is created.
LEMMA GateInit == Init => GateInv /\ OpeningsSound
<1> SUFFICES ASSUME Init PROVE GateInv /\ OpeningsSound
  OBVIOUS
<1>1. OutboxSound
  BY SameOutbox, CommandsAssumption, Rows!OutboxInit DEF Rows!OutboxAssumption, Init, CommandsInit
<1>2. CommandsTypeOK
  BY <1>1 DEF Init, CommandsInit, CommandsTypeOK, OutboxSound, TopicsInit, TopicsTypeOK, Outbox!Init, Steps,
              LiveStatuses, FinalStatuses
<1>3. EdgeTypeOK
  <2>1. 0 \in 0 .. MaxOpenings
    BY EdgeAssumption
  <2> QED
    BY <2>1 DEF Init, EdgeInit, EdgeTypeOK
<1>4. HandlersSound
  BY DEF Init, CommandsInit, Outbox!Init, HandlersSound, At
<1>5. MessagesSound /\ OpeningsSound
  BY DEF Init, CommandsInit, TopicsInit, EdgeInit, MessagesSound, TopicsHonest, RecordsHonest, OpeningsSound
<1> QED
  BY <1>1, <1>2, <1>3, <1>4, <1>5 DEF GateInv, BackendSound

\* Every step of backend, broker or gateway keeps the invariant; that openings are
\* sound needs a gateway that remembers a command as long as it may be delivered.
LEMMA GateStep ==
  ASSUME GateInv, [Next]_vars
  PROVE  /\ GateInv'
         /\ ~ TtlOutlivesDedupe /\ OpeningsSound => OpeningsSound'
<1>1. CASE UNCHANGED vars
  <2>1. UNCHANGED <<backend, edge, topics>>
    BY <1>1 DEF vars
  <2>2. UNCHANGED <<command, expired, step, acking, event, attempts, due, found, claimed, outboxRows,
                    seen, handler, late, opened, served, degraded, openTopic, ackTopic>>
    BY <2>1 DEF backend, commandRows, outboxRows, edge, topics
  <2>3. OutboxSound'
    BY <2>2, OutboxKept DEF GateInv, BackendSound
  <2>4. CommandsTypeOK' /\ HandlersSound'
    BY <2>2, <2>3 DEF GateInv, BackendSound, CommandsTypeOK, TopicsTypeOK, OutboxSound, HandlersSound, At,
                      Outbox!Handling, Published
  <2>5. EdgeTypeOK' /\ MessagesSound' /\ (OpeningsSound => OpeningsSound')
    BY <2>2 DEF GateInv, EdgeTypeOK, MessagesSound, TopicsHonest, RecordsHonest, OpeningsSound, Requested
  <2> QED
    BY <2>3, <2>4, <2>5 DEF GateInv, BackendSound
<1>2. CASE Next
  BY <1>2, BackendStep, EdgeStep DEF Next, NextNoRestart
<1> QED
  BY <1>1, <1>2

\* Rows, topics, clocks and gateway keep their types, and what each of them says of
\* a command agrees with the others.
THEOREM GateTypeCorrect == Spec => []TypeOK
<1>1. GateInv => TypeOK
  BY DEF GateInv, BackendSound, TypeOK
<1> QED
  BY <1>1, GateInit, GateStep, PTL DEF Spec

\* The status EXECUTED is never invented, whatever is lost, repeated or restarted
\* (handleAck, handleCommand).
THEOREM ExecutedOpened == Spec => []ExecutedWasOpened
<1>1. GateInv => ExecutedWasOpened
  BY DEF GateInv, MessagesSound, RecordsHonest, ExecutedWasOpened
<1> QED
  BY <1>1, GateInit, GateStep, PTL DEF Spec

\* A command the outbox has done with was published, and if commands do not outlive
\* what the gateway remembers, the barrier opens for it once between two starts of
\* the gateway, however often it is published or delivered (CommandState.check).
THEOREM PublishedOpens ==
  ASSUME ~ TtlOutlivesDedupe
  PROVE  Spec => []PublishedOpensOnce
<1>1. GateInv /\ OpeningsSound => PublishedOpensOnce
  BY DEF GateInv, BackendSound, HandlersSound, OpeningsSound, PublishedOpensOnce, OpenedOnce,
         ProcessedMeansPublished, Published
<1>2. GateInv /\ OpeningsSound /\ [Next]_vars => GateInv' /\ OpeningsSound'
  BY GateStep
<1> QED
  BY <1>1, <1>2, GateInit, PTL DEF Spec
-----------------------------------------------------------------------------
Shown == {c \in Commands : command[c] = "EXECUTED"}

\* What a change of status is to the contract: a request, a display, or nothing.
LEMMA ChangeKeepsContract ==
  ASSUME GateInv, CommandChange, UNCHANGED edge
  PROVE  [Contract!Next]_Contract!contract
<1>0. command \in [Commands -> CommandStatus] /\ RecordsHonest /\ UNCHANGED <<opened, served>>
  BY DEF GateInv, BackendSound, MessagesSound, CommandsTypeOK, CommandStatus, edge
<1>1. CASE UNCHANGED command
  BY <1>0, <1>1 DEF Contract!contract
<1>2. ASSUME NEW c \in Commands, command[c] = "NONE", command' = [command EXCEPT ![c] = "PENDING"]
      PROVE  Contract!Next
  <2>1. Requested' = Requested \cup {c} /\ Shown' = Shown
    BY <1>0, <1>2 DEF Requested, Shown
  <2>2. Contract!Request(c)
    BY <1>0, <2>1 DEF Contract!Request, Requested, Shown
  <2> QED
    BY <2>2 DEF Contract!Next
<1>3. ASSUME NEW c \in Commands, NEW status \in CommandStatus \ {"NONE"}, command[c] # "NONE",
             command' = [command EXCEPT ![c] = status], status = "EXECUTED" => c \in served
      PROVE  Contract!Next
  <2>1. Requested' = Requested
    BY <1>0, <1>3 DEF Requested
  <2>2. CASE status = "EXECUTED"
    <3>1. Shown' = Shown \cup {c}
      BY <1>0, <1>3, <2>2 DEF Shown
    <3>2. Contract!Show(c)
      BY <1>0, <1>3, <2>1, <2>2, <3>1 DEF Contract!Show, Requested, Shown
    <3> QED
      BY <3>2 DEF Contract!Next
  <2>3. CASE status # "EXECUTED"
    <3>1. Shown' = Shown \ {c}
      BY <1>0, <1>3, <2>3 DEF Shown
    <3>2. Contract!Hide(c)
      BY <1>0, <2>1, <3>1 DEF Contract!Hide, Requested, Shown
    <3> QED
      BY <3>2 DEF Contract!Next
  <2> QED
    BY <2>2, <2>3
<1> QED
  BY <1>1, <1>2, <1>3 DEF CommandChange

\* What a step of the gateway is to the contract: an opening, a start, or nothing.
LEMMA GatewayKeepsContract ==
  ASSUME GateInv, OpeningsSound, EdgeNext \/ EdgeRestarts, UNCHANGED backend
  PROVE  [Contract!Next]_Contract!contract
<1>0. /\ EdgeTypeOK /\ RecordsHonest /\ UNCHANGED command
      /\ UNCHANGED <<Requested, Shown>>
  BY DEF GateInv, MessagesSound, backend, commandRows, Requested, Shown
<1>1. ASSUME UNCHANGED <<opened, served>>
      PROVE  UNCHANGED Contract!contract
  BY <1>0, <1>1 DEF Contract!contract
<1>2. ASSUME NEW c \in Commands, HandleCommand(c) \/ publishReceived(c) \/ finishCommand(c)
                                  \/ ExpireAtEdge(c) \/ prune(c)
      PROVE  UNCHANGED Contract!contract
  BY <1>1, <1>2 DEF HandleCommand, newCommand, duplicateCommand, expiredCommand, publishReceived,
                    finishCommand, ExpireAtEdge, prune, edge
<1>3. ASSUME NEW c \in Commands, openBarrier(c)
      PROVE  Contract!Next
  <2>1. opened[c] = 0 /\ c \in Requested
    BY <1>0, <1>3 DEF openBarrier, OpeningsSound, RecordsHonest
  <2>2. opened' = [opened EXCEPT ![c] = 1] /\ served' = served \cup {c}
    <3>1. opened' = [opened EXCEPT ![c] = opened[c] + 1] /\ opened[c] + 1 = 1
      BY <1>3, <2>1 DEF openBarrier
    <3> QED
      BY <1>3, <3>1 DEF openBarrier
  <2>3. Contract!Open(c)
    BY <1>0, <2>1, <2>2 DEF Contract!Open, Requested, Shown
  <2> QED
    BY <2>3 DEF Contract!Next
<1>4. CASE EdgeRestarts
  <2>1. Contract!GatewayStarts
    BY <1>0, <1>4 DEF EdgeRestarts, Contract!GatewayStarts, Requested, Shown
  <2> QED
    BY <2>1 DEF Contract!Next
<1> QED
  BY <1>2, <1>3, <1>4 DEF EdgeNext, HandlerGoesOn

\* Backend, outbox, broker and gateway together implement the contract of the gate:
\* every step of theirs is one of its steps, or none.
THEOREM ContractKept ==
  ASSUME ~ TtlOutlivesDedupe
  PROVE  Spec => KeepsContract
<1>1. Init => Contract!Init
  BY DEF Init, CommandsInit, EdgeInit, Contract!Init
<1>2. GateInv /\ OpeningsSound /\ [Next]_vars => [Contract!Next]_Contract!contract
  <2> SUFFICES ASSUME GateInv, OpeningsSound, [Next]_vars
               PROVE  [Contract!Next]_Contract!contract
    OBVIOUS
  <2>1. CASE UNCHANGED vars
    BY <2>1 DEF vars, backend, commandRows, edge, Contract!contract
  <2>2. CASE CommandsNext /\ UNCHANGED edge
    BY <2>2, BackendShape, ChangeKeepsContract
  <2>3. ASSUME NEW w \in Workers, WorkerDies(w), UNCHANGED edge
        PROVE  [Contract!Next]_Contract!contract
    BY <2>3, BackendShape, ChangeKeepsContract
  <2>4. CASE (EdgeNext \/ EdgeRestarts) /\ UNCHANGED backend
    BY <2>4, GatewayKeepsContract
  <2> QED
    BY <2>1, <2>2, <2>3, <2>4 DEF Next, NextNoRestart
<1>3. GateInv /\ OpeningsSound /\ [Next]_vars => GateInv' /\ OpeningsSound'
  BY GateStep
<1> QED
  BY <1>1, <1>2, <1>3, GateInit, PTL DEF Spec, KeepsContract, Contract!Spec
-----------------------------------------------------------------------------
\* Answers handled one after the other: none is in hand whose command has a final
\* status.
AcksCurrent == \A a \in acking : command[a.command] \notin FinalStatuses

OneLiveInv == GateInv /\ AcksCurrent /\ OneLiveCommandPerGate

\* A command is live after a step only if it was, or if it is new and its gate had
\* no live one; an answer does not bring a final one back.
LEMMA LiveStep ==
  ASSUME OneLiveInv, [NextAcksAtOnce]_vars
  PROVE  OneLiveInv'
<1>0. /\ GateInv /\ AcksCurrent /\ OneLiveCommandPerGate /\ OutboxSound /\ CommandsTypeOK
      /\ command \in [Commands -> CommandStatus] /\ acking \subseteq Answer
  BY DEF OneLiveInv, GateInv, BackendSound, CommandsTypeOK, CommandStatus
<1>1. GateInv'
  BY <1>0, GateStep DEF NextAcksAtOnce, Next
<1> USE DEF CommandStatus, LiveStatuses, FinalStatuses
<1>2. ASSUME UNCHANGED <<command, acking>>, expired \subseteq expired'
      PROVE  OneLiveInv'
  BY <1>0, <1>1, <1>2 DEF OneLiveInv, AcksCurrent, OneLiveCommandPerGate, Live
<1>3. ASSUME \A c \in Commands : Live(c)' => Live(c)
      PROVE  OneLiveCommandPerGate'
  BY <1>0, <1>3 DEF OneLiveCommandPerGate
<1>4. CASE acking' = {}
  <2>1. AcksCurrent'
    BY <1>4 DEF AcksCurrent
  <2>2. ASSUME NEW c \in Commands, createOpenCommand(c)
        PROVE  OneLiveCommandPerGate'
    <3>1. /\ command' = [command EXCEPT ![c] = "PENDING"] /\ UNCHANGED expired
          /\ \A other \in Commands : GateOf[other] = GateOf[c] => ~ Live(other)
      BY <2>2 DEF createOpenCommand
    <3>2. \A d \in Commands \ {c} : Live(d)' <=> Live(d)
      BY <1>0, <3>1 DEF Live
    <3> QED
      BY <1>0, <3>1, <3>2 DEF OneLiveCommandPerGate
  <2>3. ASSUME NEW c \in Commands, NEW w \in Workers, HandlerStep(w, c)
        PROVE  OneLiveCommandPerGate'
    <3>1. HandlerMove(w, c)
      BY <1>0, <2>3, HandlerShape
    <3>2. PICK status \in CommandStatus :
            /\ command' = [command EXCEPT ![c] = status]
            /\ status \in LiveStatuses /\ c \notin expired => Live(c)
      BY <3>1 DEF HandlerMove
    <3>3. UNCHANGED expired
      BY <3>1 DEF HandlerMove
    <3> QED
      BY <1>0, <1>3, <3>2, <3>3 DEF Live
  <2>4. ASSUME NEW a \in Answer, writeAck(a)
        PROVE  OneLiveCommandPerGate'
    <3>1. /\ a.command \in Commands /\ a \in acking /\ UNCHANGED expired
          /\ command' = [command EXCEPT ![a.command] = AckedStatus[a.status]]
      BY <2>4 DEF Answer, writeAck, SetCommand
    <3>2. command[a.command] \in LiveStatuses
      <4>1. command[a.command] # "NONE"
        BY <1>0, <3>1 DEF GateInv, MessagesSound, TopicsHonest, Requested
      <4> QED
        BY <1>0, <3>1, <4>1 DEF AcksCurrent
    <3> QED
      BY <1>0, <1>3, <3>1, <3>2 DEF Live
  <2>5. ASSUME UNCHANGED command, expired \subseteq expired'
        PROVE  OneLiveCommandPerGate'
    BY <1>3, <2>5 DEF Live
  <2>6. OneLiveCommandPerGate'
    <3>1. CASE CommandsNext
      <4>1. ASSUME NEW c \in Commands, Expire(c) \/ BackoffEnds(c)
            PROVE  OneLiveCommandPerGate'
        BY <2>5, <4>1 DEF Expire, BackoffEnds, commandRows
      <4>2. ASSUME NEW w \in Workers, WorkerStep(w)
            PROVE  OneLiveCommandPerGate'
        BY <2>5, <4>2 DEF WorkerStep, commandRows
      <4>3. ASSUME NEW a \in Answer, readAck(a)
            PROVE  OneLiveCommandPerGate'
        BY <2>5, <4>3 DEF readAck, commandRows
      <4> QED
        BY <2>2, <2>3, <2>4, <3>1, <4>1, <4>2, <4>3 DEF CommandsNext
    <3>2. CASE UNCHANGED backend \/ UNCHANGED vars
      BY <2>5, <3>2 DEF vars, backend, commandRows
    <3> QED
      BY <3>1, <3>2 DEF NextAcksAtOnce, NextNoRestart
  <2> QED
    BY <1>1, <2>1, <2>6 DEF OneLiveInv
<1>5. CASE acking = {} /\ acking' # {}
  <2>1. PICK a \in Answer : readAck(a)
    <3>1. ~ UNCHANGED acking
      BY <1>5
    <3>2. CommandsNext
      BY <3>1 DEF NextAcksAtOnce, NextNoRestart, vars, backend
    <3>3. ASSUME NEW c \in Commands, NEW w \in Workers, HandlerStep(w, c)
          PROVE  FALSE
      BY <1>0, <3>1, <3>3, HandlerShape DEF HandlerMove
    <3>4. ~ \E c \in Commands : createOpenCommand(c) \/ Expire(c) \/ BackoffEnds(c)
      BY <3>1 DEF createOpenCommand, Expire, BackoffEnds
    <3>5. ~ \E w \in Workers : WorkerStep(w)
      BY <3>1 DEF WorkerStep
    <3>6. ~ \E a \in Answer : writeAck(a)
      BY <1>5 DEF writeAck
    <3> QED
      BY <3>2, <3>3, <3>4, <3>5, <3>6 DEF CommandsNext
  <2>2. /\ UNCHANGED <<command, expired>>
        /\ acking' = IF command[a.command] \in FinalStatuses THEN {} ELSE {a}
    BY <1>5, <2>1 DEF readAck, commandRows
  <2>3. AcksCurrent'
    BY <2>2 DEF AcksCurrent
  <2>4. OneLiveCommandPerGate'
    BY <1>3, <2>2 DEF Live
  <2> QED
    BY <1>1, <2>3, <2>4 DEF OneLiveInv
<1>6. CASE UNCHANGED vars
  BY <1>2, <1>6 DEF vars, backend, commandRows
<1> QED
  BY <1>4, <1>5, <1>6 DEF NextAcksAtOnce

\* With nobody restarting and answers handled one after the other, a gate never has
\* two live commands (createOpenCommand's test under the advisory lock).
THEOREM OneLiveCommand == SpecAcksAtOnce => []OneLiveCommandPerGate
<1>1. Init => OneLiveInv
  BY GateInit DEF Init, CommandsInit, OneLiveInv, AcksCurrent, OneLiveCommandPerGate, Live, LiveStatuses
<1>2. OneLiveInv /\ [NextAcksAtOnce]_vars => OneLiveInv'
  BY LiveStep
<1>3. OneLiveInv => OneLiveCommandPerGate
  BY DEF OneLiveInv
<1> QED
  BY <1>1, <1>2, <1>3, PTL DEF SpecAcksAtOnce
-----------------------------------------------------------------------------
(* The registry of tags and gates.                                         *)

\* A row that can open no gate any more.
Spent(id) == credentialRow[id].status \in {"REVOKED", "deleted"}

\* A detection that has read its credential.
ReadCredential == [at : {"credential", "vehicle"}, barred : SUBSET CredentialIds, id : CredentialIds,
                   status : {"ACTIVE", "REVOKED"}, car : Cars]

\* The rows, and what the requests and detections know of them.
RegistryTypes ==
  /\ credentialRow \in [CredentialIds -> CredentialRow \cup [status : {"none", "deleted"}]]
  /\ DOMAIN registryRequest = RegistryRequests /\ DOMAIN detection = Detections
  /\ \A r \in RegistryRequests :
       /\ registryRequest[r].at = "create" => registryRequest[r].tag \in Tags /\ registryRequest[r].car \in Cars
       /\ registryRequest[r].at \in {"found", "revoke"} => registryRequest[r].id \in CredentialIds
  /\ \A d \in Detections :
       /\ detection[d].at \in {"gate", "lot"} => detection[d].barred \subseteq CredentialIds
       /\ detection[d].at \in {"credential", "vehicle"} => detection[d] \in ReadCredential
  /\ \A id \in outdated : id \in CredentialIds /\ Stored(id)
  /\ cars \subseteq Cars

\* What bars a credential from a detection still bars it, or is noticed on the way.
StillBarred ==
  \A d \in Detections : \A id \in CredentialIds :
    /\ detection[d].at \in {"gate", "lot"} /\ id \in detection[d].barred =>
         \/ Spent(id) \/ id \in outdated
         \/ detection[d].at = "gate" /\ openLots = {}
    /\ detection[d].at \in {"credential", "vehicle"} /\ detection[d].id = id =>
         /\ Stored(id) \/ Spent(id)
         /\ Stored(id) => credentialRow[id].car = detection[d].car
         /\ id \in detection[d].barred =>
              detection[d].status # "ACTIVE" \/ id \in outdated \/ detection[d].car \notin cars

RegistryInv == RegistryTypes /\ TagsLeadToOneCar /\ StillBarred

\* A row of the table stays what it is but for its status; a row that is spent stays so.
RowsKept ==
  \A id \in CredentialIds :
    /\ Spent(id) => Spent(id)'
    /\ Stored(id) => Stored(id)' \/ Spent(id)'
    /\ Stored(id)' => /\ Stored(id) /\ credentialRow'[id].car = credentialRow[id].car
                      /\ credentialRow'[id].tag = credentialRow[id].tag
    /\ credentialRow'[id] # credentialRow[id] => Spent(id)'

\* What happens to the rows keeps the detections' knowledge of them.
LEMMA RowsKeepBarred ==
  ASSUME RegistryInv, RowsKept, outdated \subseteq outdated' \cup {id \in CredentialIds : Spent(id)'},
         \A id \in outdated \ outdated' : credentialRow[id].car \notin cars',
         UNCHANGED <<openLots, detection>>, cars' \subseteq cars
  PROVE  StillBarred'
<1> SUFFICES ASSUME NEW d \in Detections, NEW id \in CredentialIds
             PROVE  /\ detection[d].at \in {"gate", "lot"} /\ id \in detection[d].barred =>
                         \/ Spent(id)' \/ id \in outdated'
                         \/ detection[d].at = "gate" /\ openLots = {}
                    /\ detection[d].at \in {"credential", "vehicle"} /\ detection[d].id = id =>
                         /\ Stored(id)' \/ Spent(id)'
                         /\ Stored(id)' => credentialRow'[id].car = detection[d].car
                         /\ id \in detection[d].barred =>
                              detection[d].status # "ACTIVE" \/ id \in outdated' \/ detection[d].car \notin cars'
  BY DEF StillBarred, Stored, Spent
<1> USE DEF RegistryInv, StillBarred
<1>1. (Spent(id) => Spent(id)') /\ (Stored(id) => Stored(id)' \/ Spent(id)')
  BY DEF RowsKept
<1>2. Stored(id)' => Stored(id) /\ credentialRow'[id].car = credentialRow[id].car
  BY DEF RowsKept
<1>3. id \in outdated => Stored(id)
  BY DEF RegistryTypes
<1> QED
  BY <1>1, <1>2, <1>3

\* The rows of a deleted vehicle go; nothing else does.
LEMMA VehicleRemoved ==
  ASSUME RegistryInv, NEW car \in Cars, removeVehicle(car)
  PROVE  RegistryInv'
<1> USE DEF RegistryInv
<1>1. /\ cars' = cars \ {car} /\ credentialRow' = cascade(car)
      /\ outdated' = {id \in outdated : credentialRow[id].car # car}
      /\ UNCHANGED <<gate, openLots, registryRequest, detection>>
  BY DEF removeVehicle
<1>2. \A id \in CredentialIds :
        credentialRow'[id] = IF Stored(id) /\ credentialRow[id].car = car
                             THEN [status |-> "deleted"] ELSE credentialRow[id]
  BY <1>1 DEF cascade
<1>3. RowsKept
  BY <1>2 DEF RowsKept, Stored, Spent
<1>4. \A id \in CredentialIds : Stored(id)' <=> Stored(id) /\ credentialRow[id].car # car
  BY <1>2 DEF Stored
<1>5. RegistryTypes'
  <2>1. credentialRow' \in [CredentialIds -> CredentialRow \cup [status : {"none", "deleted"}]]
    BY <1>1 DEF cascade, RegistryTypes
  <2>2. \A id \in outdated' : id \in CredentialIds /\ Stored(id)'
    BY <1>1, <1>4 DEF RegistryTypes
  <2> QED
    BY <1>1, <2>1, <2>2 DEF RegistryTypes
<1>6. TagsLeadToOneCar'
  BY <1>1, <1>2, <1>4 DEF TagsLeadToOneCar, WithTag
<1>7. \A id \in outdated \ outdated' : credentialRow[id].car \notin cars' /\ Spent(id)'
  BY <1>1, <1>2 DEF RegistryTypes, Spent
<1>8. StillBarred'
  BY <1>1, <1>3, <1>7, RowsKeepBarred DEF RegistryTypes
<1> QED
  BY <1>5, <1>6, <1>8

\* A tag is enrolled: no other row has it.
LEMMA TagEnrolled ==
  ASSUME RegistryInv, NEW r \in RegistryRequests, createCredential(r)
  PROVE  RegistryInv'
<1> USE DEF RegistryInv
<1> DEFINE request == registryRequest[r]
<1>1. /\ request.at = "create" /\ request.tag \in Tags /\ request.car \in Cars
      /\ registryRequest' = [registryRequest EXCEPT ![r] = IdleRequest]
      /\ UNCHANGED <<cars, outdated, openLots, detection, gate>>
  BY DEF createCredential, EndRequest, RegistryTypes
<1>2. DOMAIN registryRequest' = RegistryRequests
      /\ \A q \in RegistryRequests : registryRequest'[q].at = "idle" \/ registryRequest'[q] = registryRequest[q]
  BY <1>1 DEF RegistryTypes, IdleRequest
<1>3. CASE UNCHANGED credentialRow
  BY <1>1, <1>2, <1>3 DEF RegistryTypes, TagsLeadToOneCar, StillBarred, Stored, Spent, WithTag
<1>4. CASE credentialRow' # credentialRow
  <2> DEFINE row == [status |-> "ACTIVE", tag |-> request.tag, car |-> request.car]
  <2>1. PICK id \in CredentialIds :
          /\ credentialRow[id] = NoRow /\ credentialRow' = [credentialRow EXCEPT ![id] = row]
          /\ request.car \in cars /\ WithTag(request.tag) = {}
    BY <1>4 DEF createCredential, hashTaken
  <2>2. row \in CredentialRow /\ row.status = "ACTIVE" /\ row.tag = request.tag /\ row.car = request.car
    BY <1>1 DEF CredentialRow
  <2> HIDE DEF row
  <2>3. credentialRow' \in [CredentialIds -> CredentialRow \cup [status : {"none", "deleted"}]]
        /\ credentialRow'[id] = row
        /\ \A other \in CredentialIds \ {id} : credentialRow'[other] = credentialRow[other]
    BY <2>1, <2>2 DEF RegistryTypes
  <2>4. \A other \in CredentialIds : /\ Stored(other)' <=> Stored(other) \/ other = id
                                     /\ Spent(other)' <=> Spent(other)
    BY <2>1, <2>2, <2>3 DEF Stored, Spent, NoRow
  <2>5. ~ Stored(id)
    BY <2>1 DEF Stored, NoRow
  <2>6. RegistryTypes'
    BY <1>1, <1>2, <2>3, <2>4 DEF RegistryTypes
  <2>7. TagsLeadToOneCar'
    BY <1>1, <2>1, <2>2, <2>3, <2>4, <2>5 DEF TagsLeadToOneCar, WithTag
  <2>8. ~ Spent(id)
    BY <2>1 DEF Spent, NoRow
  <2>9. StillBarred'
    BY <1>1, <2>3, <2>4, <2>5, <2>8 DEF StillBarred
  <2> QED
    BY <2>6, <2>7, <2>9
<1> QED
  BY <1>3, <1>4

\* The other requests of administrators, and time.
LEMMA RegistryAdministered ==
  ASSUME RegistryInv,
         \/ \E r \in RegistryRequests :
              \/ \E tag \in Tags, car \in Cars : create(r, tag, car)
              \/ revokeFound(r) \/ storeRevoked(r) \/ insertGate(r) \/ writeGate(r)
              \/ \E car \in Cars, id \in CredentialIds : revokeForVehicle(r, car, id)
              \/ \E id \in CredentialIds : revoke(r, id)
              \/ \E lot \in GateLots, isActive \in BOOLEAN : createGate(r, lot, isActive)
              \/ \E lots \in SmallSets(GateLots), isActive \in SmallSets(BOOLEAN) : updateGate(r, lots, isActive)
              \/ removeGate(r)
         \/ \E lot \in GateLots : removeLot(lot)
         \/ \E id \in CredentialIds : PassValidUntil(id)
         \/ UNCHANGED registryVars
  PROVE  RegistryInv'
<1> USE DEF RegistryInv
<1>1. ASSUME NEW r \in RegistryRequests, NEW asked, BeginRequest(r, asked),
             \/ asked.at = "create" /\ asked.tag \in Tags /\ asked.car \in Cars
             \/ asked.at \in {"found", "revoke"} /\ asked.id \in CredentialIds
             \/ asked.at \in {"createGate", "updateGate"}
      PROVE  RegistryInv'
  <2>1. RegistryTypes'
    BY <1>1 DEF BeginRequest, RegistryTypes, Stored
  <2> QED
    BY <1>1, <2>1 DEF BeginRequest, TagsLeadToOneCar, StillBarred, Stored, Spent, WithTag
<1>2. ASSUME NEW r \in RegistryRequests, revokeFound(r)
      PROVE  RegistryInv'
  <2>1. /\ DOMAIN registryRequest' = RegistryRequests
        /\ \A q \in RegistryRequests :
             \/ registryRequest'[q].at = "idle"
             \/ registryRequest'[q].at = "revoke" /\ registryRequest'[q].id \in CredentialIds
             \/ registryRequest'[q] = registryRequest[q]
    BY <1>2 DEF revokeFound, RegistryTypes, IdleRequest
  <2>2. RegistryTypes'
    BY <1>2, <2>1 DEF revokeFound, RegistryTypes, Stored
  <2> QED
    BY <1>2, <2>2 DEF revokeFound, TagsLeadToOneCar, StillBarred, Stored, Spent, WithTag
<1>3. ASSUME NEW r \in RegistryRequests, NEW at, EndRequest(r, at)
      PROVE  /\ DOMAIN registryRequest' = RegistryRequests
             /\ \A q \in RegistryRequests : registryRequest'[q].at = "idle" \/ registryRequest'[q] = registryRequest[q]
  BY <1>3 DEF EndRequest, RegistryTypes, IdleRequest
<1>4. ASSUME NEW r \in RegistryRequests, insertGate(r) \/ writeGate(r)
      PROVE  RegistryInv'
  <2>1. UNCHANGED <<cars, credentialRow, outdated, openLots, detection>>
    BY <1>4 DEF insertGate, writeGate, EndRequest
  <2>2. /\ DOMAIN registryRequest' = RegistryRequests
        /\ \A q \in RegistryRequests : registryRequest'[q].at = "idle" \/ registryRequest'[q] = registryRequest[q]
    BY <1>3, <1>4 DEF insertGate, writeGate
  <2>3. RegistryTypes'
    BY <2>1, <2>2 DEF RegistryTypes, Stored
  <2> QED
    BY <2>1, <2>3 DEF TagsLeadToOneCar, StillBarred, Stored, Spent, WithTag
<1>5. ASSUME NEW r \in RegistryRequests, storeRevoked(r)
      PROVE  RegistryInv'
  <2> DEFINE id == registryRequest[r].id
  <2>1. /\ id \in CredentialIds
        /\ credentialRow' = [credentialRow EXCEPT ![id].status = IF Stored(id) THEN "REVOKED" ELSE @]
        /\ UNCHANGED <<cars, outdated, openLots, detection, gate>>
    BY <1>5 DEF storeRevoked, EndRequest, RegistryTypes
  <2>2. /\ DOMAIN registryRequest' = RegistryRequests
        /\ \A q \in RegistryRequests : registryRequest'[q].at = "idle" \/ registryRequest'[q] = registryRequest[q]
    BY <1>3, <1>5 DEF storeRevoked
  <2> HIDE DEF id
  <2>3. /\ credentialRow[id] \in CredentialRow \/ credentialRow[id] \in [status : {"none", "deleted"}]
        /\ Stored(id) <=> credentialRow[id] \in CredentialRow
    BY <2>1 DEF RegistryTypes, CredentialRow, Stored
  <2>4. CASE Stored(id)
    <3> DEFINE row == [credentialRow[id] EXCEPT !.status = "REVOKED"]
    <3>1. /\ row \in CredentialRow /\ row.status = "REVOKED"
          /\ row.tag = credentialRow[id].tag /\ row.car = credentialRow[id].car
      BY <2>3, <2>4 DEF CredentialRow
    <3>2. credentialRow' = [credentialRow EXCEPT ![id] = row]
      BY <2>1, <2>4
    <3> HIDE DEF row
    <3>3. /\ credentialRow' \in [CredentialIds -> CredentialRow \cup [status : {"none", "deleted"}]]
          /\ credentialRow'[id] = row
          /\ \A other \in CredentialIds \ {id} : credentialRow'[other] = credentialRow[other]
      BY <2>1, <3>1, <3>2 DEF RegistryTypes
    <3>4. RowsKept /\ \A other \in CredentialIds : Stored(other)' <=> Stored(other)
      BY <2>1, <2>4, <3>1, <3>3 DEF RowsKept, Stored, Spent
    <3>5. RegistryTypes'
      BY <2>1, <2>2, <3>3, <3>4 DEF RegistryTypes
    <3>6. TagsLeadToOneCar'
      BY <2>1, <3>1, <3>3, <3>4 DEF TagsLeadToOneCar, WithTag
    <3>7. StillBarred'
      BY <2>1, <3>4, RowsKeepBarred
    <3> QED
      BY <3>5, <3>6, <3>7
  <2>5. CASE ~ Stored(id)
    <3>1. \A other \in CredentialIds : credentialRow'[other] = credentialRow[other]
      BY <2>1, <2>3, <2>5 DEF RegistryTypes
    <3>2. credentialRow' = credentialRow
      BY <2>1, <3>1 DEF RegistryTypes
    <3>3. RegistryTypes'
      BY <2>1, <2>2, <3>2 DEF RegistryTypes, Stored
    <3> QED
      BY <2>1, <3>2, <3>3 DEF TagsLeadToOneCar, StillBarred, Stored, Spent, WithTag
  <2> QED
    BY <2>4, <2>5
<1>6. ASSUME NEW lot \in GateLots, removeLot(lot)
      PROVE  RegistryInv'
  <2>1. RegistryTypes' /\ TagsLeadToOneCar'
    BY <1>6 DEF removeLot, RegistryTypes, TagsLeadToOneCar, Stored, WithTag
  <2>2. openLots = {} => openLots' = {}
    BY <1>6 DEF removeLot
  <2> QED
    BY <1>6, <2>1, <2>2 DEF removeLot, StillBarred, Stored, Spent
<1>7. ASSUME NEW id \in CredentialIds, PassValidUntil(id)
      PROVE  RegistryInv'
  BY <1>7 DEF PassValidUntil, RegistryTypes, TagsLeadToOneCar, StillBarred, Stored, Spent, WithTag
<1>8. CASE UNCHANGED registryVars
  BY <1>8 DEF registryVars, RegistryTypes, TagsLeadToOneCar, StillBarred, Stored, Spent, WithTag
<1>9. ASSUME NEW r \in RegistryRequests,
             \/ \E tag \in Tags, car \in Cars : create(r, tag, car)
             \/ \E car \in Cars, id \in CredentialIds : revokeForVehicle(r, car, id)
             \/ \E id \in CredentialIds : revoke(r, id)
             \/ \E lot \in GateLots, isActive \in BOOLEAN : createGate(r, lot, isActive)
             \/ \E lots \in SmallSets(GateLots), isActive \in SmallSets(BOOLEAN) : updateGate(r, lots, isActive)
             \/ removeGate(r)
      PROVE  RegistryInv'
  <2>1. CASE \E tag \in Tags, car \in Cars : create(r, tag, car)
    BY <1>1, <2>1 DEF create
  <2>2. CASE \E id \in CredentialIds : revoke(r, id) \/ \E car \in Cars : revokeForVehicle(r, car, id)
    BY <1>1, <2>2 DEF revoke, revokeForVehicle
  <2>3. CASE \E lot \in GateLots, isActive \in BOOLEAN : createGate(r, lot, isActive)
    BY <1>1, <2>3 DEF createGate
  <2>4. ASSUME NEW lots, NEW isActive, updateGate(r, lots, isActive)
        PROVE  RegistryInv'
    BY <1>1, <2>4 DEF updateGate
  <2> QED
    BY <1>9, <2>1, <2>2, <2>3, <2>4 DEF removeGate
<1> QED
  BY <1>2, <1>4, <1>5, <1>6, <1>7, <1>8, <1>9

\* A detection reads on.
LEMMA DetectionReads ==
  ASSUME RegistryInv, NEW d \in Detections,
         \/ \E tag \in Tags : processDetection(d, tag)
         \/ readLot(d) \/ findCredential(d) \/ findVehicle(d) \/ grant(d) \/ deny(d)
  PROVE  RegistryInv'
<1> USE DEF RegistryInv
<1>1. /\ UNCHANGED <<cars, credentialRow, outdated, gate, openLots, registryRequest>>
      /\ DOMAIN detection' = Detections
      /\ \A e \in Detections \ {d} : detection'[e] = detection[e]
  BY DEF processDetection, readLot, findCredential, findVehicle, grant, deny, Proceed, RegistryTypes
<1> DEFINE new == detection'[d]
<1>2. /\ new.at \in {"gate", "lot"} => new.barred \subseteq CredentialIds
      /\ new.at \in {"credential", "vehicle"} => new \in ReadCredential
  <2>1. new = NoDetection \/ new.at \in {"gate", "lot"} => new.at \notin {"credential", "vehicle"}
    BY DEF NoDetection
  <2>2. CASE new = NoDetection
    BY <2>2 DEF NoDetection
  <2>3. ASSUME NEW tag \in Tags, processDetection(d, tag)
        PROVE  new.at = "gate" /\ new.barred \subseteq CredentialIds
    BY <2>3 DEF processDetection, Proceed, RegistryTypes
  <2>4. CASE readLot(d)
    BY <2>4 DEF readLot, Proceed, RegistryTypes, NoDetection
  <2>5. CASE findCredential(d) /\ new # NoDetection
    <3>1. PICK id \in WithTag(detection[d].tag) :
            /\ detection[d].at = "lot"
            /\ new = [at |-> "credential", barred |-> detection[d].barred, id |-> id,
                      status |-> credentialRow[id].status, car |-> credentialRow[id].car]
      BY <2>5 DEF findCredential, Proceed, RegistryTypes
    <3>2. credentialRow[id] \in CredentialRow /\ id \in CredentialIds
      BY DEF WithTag, Stored, RegistryTypes
    <3> QED
      BY <3>1, <3>2 DEF CredentialRow, ReadCredential, RegistryTypes
  <2>6. CASE findVehicle(d) /\ new # NoDetection
    <3>1. detection[d] \in ReadCredential /\ new = [detection[d] EXCEPT !.at = "vehicle"]
      BY <2>6 DEF findVehicle, Proceed, RegistryTypes
    <3> QED
      BY <3>1 DEF ReadCredential
  <2>7. grant(d) \/ deny(d) => new = NoDetection
    BY DEF grant, deny, Proceed, RegistryTypes
  <2> QED
    BY <2>1, <2>2, <2>3, <2>4, <2>5, <2>6, <2>7
<1>3. RegistryTypes' /\ TagsLeadToOneCar'
  BY <1>1, <1>2 DEF RegistryTypes, TagsLeadToOneCar, Stored, WithTag
<1>4. ASSUME NEW id \in CredentialIds
      PROVE  /\ new.at \in {"gate", "lot"} /\ id \in new.barred =>
                  Spent(id) \/ id \in outdated \/ (new.at = "gate" /\ openLots = {})
             /\ new.at \in {"credential", "vehicle"} /\ new.id = id =>
                  /\ Stored(id) \/ Spent(id)
                  /\ Stored(id) => credentialRow[id].car = new.car
                  /\ id \in new.barred =>
                       new.status # "ACTIVE" \/ id \in outdated \/ new.car \notin cars
  <2>1. CASE new = NoDetection
    BY <2>1 DEF NoDetection
  <2>2. ASSUME NEW tag \in Tags, processDetection(d, tag)
        PROVE  /\ new.at = "gate"
               /\ id \in new.barred => Spent(id) \/ id \in outdated \/ openLots = {}
    <3>1. new = [at |-> "gate", tag |-> tag, lot |-> gate.lot,
                 barred |-> {i \in CredentialIds :
                               credentialRow[i] # NoRow
                                 /\ (credentialRow[i].status # "ACTIVE" \/ i \in outdated \/ openLots = {})}]
      BY <2>2 DEF processDetection, Proceed, RegistryTypes
    <3>2. credentialRow[id] # NoRow /\ credentialRow[id].status # "ACTIVE" => Spent(id)
      BY DEF RegistryTypes, CredentialRow, NoRow, Spent
    <3> QED
      BY <3>1, <3>2
  <2>3. CASE readLot(d)
    <3>1. \/ new = NoDetection
          \/ /\ new.at = "lot" /\ new.barred = detection[d].barred
             /\ detection[d].at = "gate" /\ openLots # {}
      BY <2>3 DEF readLot, Proceed, RegistryTypes
    <3> QED
      BY <2>1, <3>1 DEF StillBarred
  <2>4. CASE findCredential(d)
    <3>1. \/ new = NoDetection
          \/ /\ detection[d].at = "lot"
             /\ new.at = "credential" /\ new.barred = detection[d].barred
             /\ Stored(new.id) /\ new.status = credentialRow[new.id].status /\ new.car = credentialRow[new.id].car
      BY <2>4 DEF findCredential, Proceed, RegistryTypes, WithTag
    <3> QED
      BY <2>1, <3>1 DEF StillBarred, Stored, Spent
  <2>5. CASE findVehicle(d)
    <3>1. \/ new = NoDetection
          \/ /\ detection[d].at = "credential" /\ new = [detection[d] EXCEPT !.at = "vehicle"]
      BY <2>5 DEF findVehicle, Proceed, RegistryTypes
    <3>2. \/ new = NoDetection
          \/ /\ detection[d].at = "credential" /\ new.id = detection[d].id /\ new.car = detection[d].car
             /\ new.barred = detection[d].barred /\ new.status = detection[d].status
             /\ new.at \notin {"gate", "lot"}
      <4>1. detection[d].at = "credential" => detection[d] \in ReadCredential
        BY DEF RegistryTypes
      <4> QED
        BY <3>1, <4>1 DEF ReadCredential
    <3> QED
      BY <2>1, <3>2 DEF StillBarred
  <2>6. grant(d) \/ deny(d) => new = NoDetection
    BY DEF grant, deny, Proceed, RegistryTypes
  <2> QED
    BY <2>1, <2>2, <2>3, <2>4, <2>5, <2>6
<1>5. StillBarred'
  <2> SUFFICES ASSUME NEW e \in Detections, NEW id \in CredentialIds
               PROVE  /\ detection'[e].at \in {"gate", "lot"} /\ id \in detection'[e].barred =>
                           \/ Spent(id)' \/ id \in outdated'
                           \/ detection'[e].at = "gate" /\ openLots' = {}
                      /\ detection'[e].at \in {"credential", "vehicle"} /\ detection'[e].id = id =>
                           /\ Stored(id)' \/ Spent(id)'
                           /\ Stored(id)' => credentialRow'[id].car = detection'[e].car
                           /\ id \in detection'[e].barred =>
                                \/ detection'[e].status # "ACTIVE" \/ id \in outdated'
                                \/ detection'[e].car \notin cars'
    BY DEF StillBarred
  <2>1. (Spent(id)' <=> Spent(id)) /\ (Stored(id)' <=> Stored(id))
    BY <1>1 DEF Spent, Stored
  <2>2. CASE e = d
    BY <1>1, <1>4, <2>1, <2>2
  <2>3. CASE e # d
    BY <1>1, <2>1, <2>3 DEF StillBarred
  <2> QED
    BY <2>2, <2>3
<1> QED
  BY <1>3, <1>5

\* However creations, revocations, deletions of vehicles and detections overlap, for any
\* number of them: a tag leads to one row at most and that row to a vehicle that exists,
\* and no gate opens for a credential that was revoked, had run out or was deleted when
\* the detection came in (VehicleAccessCredentialsService, resolveVehicleContext, evaluate).
THEOREM RegistryStaysSound == RegistrySpec => RegistrySound
<1>1. RegistryInit => RegistryInv
  BY DEF RegistryInit, RegistryInv, RegistryTypes, TagsLeadToOneCar, StillBarred, Stored, NoRow,
         IdleRequest, NoDetection
<1>2. RegistryInv /\ [RegistryNext]_registryVars => RegistryInv'
  BY VehicleRemoved, TagEnrolled, RegistryAdministered, DetectionReads DEF RegistryNext
<1>3. RegistryInv /\ RegistryInv' /\ [RegistryNext]_registryVars => [TagsLeadToOneCar' /\ BarredStaysOut]_registryVars
  <2> SUFFICES ASSUME RegistryInv, RegistryInv', NEW d \in Detections, grant(d), detection[d].id \in detection[d].barred
               PROVE  FALSE
    BY DEF BarredStaysOut, RegistryInv
  <2>1. detection[d].id \in CredentialIds
    BY DEF RegistryInv, RegistryTypes, ReadCredential, grant
  <2> QED
    BY <2>1 DEF grant, mayOpen, RegistryInv, StillBarred
<1> QED
  BY <1>1, <1>2, <1>3, PTL DEF RegistrySpec, RegistrySound
=============================================================================
