---------------------------- MODULE OutboxWorker ----------------------------
(***************************************************************************)
(* The transactional outbox: rows of outbox_events and the workers that    *)
(* poll them, one in each backend process.  What a handler does is left to *)
(* the module that instantiates this one; here it ends well or throws.     *)
(***************************************************************************)
EXTENDS Naturals, Sequences, SequencesExt

CONSTANTS
  Events,       \* rows of outbox_events
  Workers,      \* backend processes with the worker enabled
  BatchSize,    \* OUTBOX_WORKER_BATCH_SIZE
  MaxAttempts   \* maxAttempts of a row (5 by default)

ASSUME OutboxAssumption ==
  /\ BatchSize \in Nat \ {0}
  /\ MaxAttempts \in Nat \ {0}

VARIABLES
  event,      \* status of each row, "NONE" before it is inserted
  attempts,   \* the row's attempts column
  due,        \* PENDING rows whose nextRunAt has passed, oldest nextRunAt first
  found,      \* per worker: rows read and not yet claimed, as they were read
  claimed     \* per worker: rows claimed and not yet finished, the head in the handler

outbox == <<event, attempts, due, found, claimed>>

EventStatus == {"NONE", "PENDING", "PROCESSING", "PROCESSED", "FAILED"}

\* A row as findMany returned it: its attempts may be old when they are used.
Row == [id : Events, attempts : 0 .. MaxAttempts - 1]

\* A row waits for a worker only while it has an attempt left, at one place of
\* the queue, and is given up only when it has none.
OutboxTypeOK ==
  /\ event \in [Events -> EventStatus]
  /\ attempts \in [Events -> 0 .. MaxAttempts]
  /\ due \in Seq(Events)
  /\ found \in [Workers -> Seq(Row)]
  /\ claimed \in [Workers -> Seq(Row)]
  /\ \A e \in Events : event[e] = "FAILED" => attempts[e] = MaxAttempts
  /\ \A e \in Events : event[e] \in {"NONE", "PENDING"} => attempts[e] < MaxAttempts
  /\ \A i \in DOMAIN due : event[due[i]] = "PENDING"
  /\ \A i, j \in DOMAIN due : due[i] = due[j] => i = j

Init ==
  /\ event = [e \in Events |-> "NONE"]
  /\ attempts = [e \in Events |-> 0]
  /\ due = <<>>
  /\ found = [w \in Workers |-> <<>>]
  /\ claimed = [w \in Workers |-> <<>>]

\* The row is inserted PENDING, in the transaction of the caller.
publishEvent(e) ==
  /\ event[e] = "NONE"
  /\ event' = [event EXCEPT ![e] = "PENDING"]
  /\ due' = Append(due, e)
  /\ UNCHANGED <<attempts, found, claimed>>

\* The backoff of a row that failed ends: its nextRunAt has passed.
BackoffEnds(e) ==
  /\ event[e] = "PENDING"
  /\ ~ Contains(due, e)
  /\ due' = Append(due, e)
  /\ UNCHANGED <<event, attempts, found, claimed>>

Idle(w) == found[w] = <<>> /\ claimed[w] = <<>>

FirstDue == SubSeq(due, 1, IF Len(due) < BatchSize THEN Len(due) ELSE BatchSize)

\* A tick that finds the worker free reads the batch it will try to claim.
tick(w) ==
  /\ Idle(w)
  /\ due # <<>>
  /\ found' = [found EXCEPT ![w] =
                 [i \in DOMAIN FirstDue |-> [id |-> FirstDue[i], attempts |-> attempts[FirstDue[i]]]]]
  /\ UNCHANGED <<event, attempts, due, claimed>>

\* Fault: the row is claimed whatever its status is by now.
claimUnconditionally(w) ==
  /\ found[w] # <<>>
  /\ LET e == Head(found[w]).id IN
       /\ event' = [event EXCEPT ![e] = "PROCESSING"]
       /\ due' = RemoveFirst(due, e)
       /\ claimed' = [claimed EXCEPT ![w] = Append(@, Head(found[w]))]
  /\ found' = [found EXCEPT ![w] = Tail(@)]
  /\ UNCHANGED attempts

\* Each row of the batch is claimed by an update that needs it to be PENDING;
\* one that another worker has claimed meanwhile is skipped.  The whole batch
\* is claimed before the first event is handled.
claimNext(w) ==
  /\ found[w] # <<>>
  /\ LET e == Head(found[w]).id IN
       \/ /\ event[e] = "PENDING"
          /\ event' = [event EXCEPT ![e] = "PROCESSING"]
          /\ due' = RemoveFirst(due, e)
          /\ claimed' = [claimed EXCEPT ![w] = Append(@, Head(found[w]))]
       \/ /\ event[e] # "PENDING"
          /\ UNCHANGED <<event, due, claimed>>
  /\ found' = [found EXCEPT ![w] = Tail(@)]
  /\ UNCHANGED attempts

\* Worker w is in the handler of event e.
Handling(w, e) == found[w] = <<>> /\ claimed[w] # <<>> /\ Head(claimed[w]).id = e

\* The handler returned: the row is PROCESSED.
handlerReturned(w) ==
  \E e \in Events :
    /\ Handling(w, e)
    /\ event' = [event EXCEPT ![e] = "PROCESSED"]
    /\ claimed' = [claimed EXCEPT ![w] = Tail(@)]
    /\ UNCHANGED <<attempts, due, found>>

\* Fault: the attempt is not counted.
handlerThrewUncounted(w) ==
  \E e \in Events :
    /\ Handling(w, e)
    /\ event' = [event EXCEPT ![e] = "PENDING"]
    /\ claimed' = [claimed EXCEPT ![w] = Tail(@)]
    /\ UNCHANGED <<attempts, due, found>>

\* The handler threw, or the update to PROCESSED did: one more attempt than the
\* row had when it was read.  FAILED at the last one, else PENDING after a backoff.
handlerThrew(w) ==
  \E e \in Events :
    /\ Handling(w, e)
    /\ LET tries == Head(claimed[w]).attempts + 1 IN
         /\ attempts' = [attempts EXCEPT ![e] = tries]
         /\ event' = [event EXCEPT ![e] = IF tries >= MaxAttempts THEN "FAILED" ELSE "PENDING"]
    /\ claimed' = [claimed EXCEPT ![w] = Tail(@)]
    /\ UNCHANGED <<due, found>>

\* The process dies, or a database error ends the tick: the rows it had claimed
\* stay PROCESSING and nothing looks at lockedAt.
workerDies(w) ==
  /\ ~ Idle(w)
  /\ found' = [found EXCEPT ![w] = <<>>]
  /\ claimed' = [claimed EXCEPT ![w] = <<>>]
  /\ UNCHANGED <<event, attempts, due>>

WorkerStep(w) == tick(w) \/ claimNext(w) \/ handlerReturned(w) \/ handlerThrew(w)

Next ==
  \/ \E e \in Events : publishEvent(e) \/ BackoffEnds(e)
  \/ \E w \in Workers : WorkerStep(w) \/ workerDies(w)

\* The interval timer fires forever, every await of the tick settles, every
\* backoff ends, and processes do not die forever.
Fairness ==
  /\ <>[][\A w \in Workers : ~ workerDies(w)]_outbox
  /\ \A w \in Workers : WF_outbox(WorkerStep(w))
  /\ \A e \in Events : WF_outbox(BackoffEnds(e))

Spec == Init /\ [][Next]_outbox /\ Fairness
-----------------------------------------------------------------------------
Claims(w) == {claimed[w][i].id : i \in DOMAIN claimed[w]}

\* The claim of a row is exclusive: a row in a worker's hands is PROCESSING and
\* in no other worker's, once only (claimPendingEvents).
ClaimsExclusive ==
  /\ \A w \in Workers : \A i \in DOMAIN claimed[w] :
       /\ event[claimed[w][i].id] = "PROCESSING"
       /\ \A j \in DOMAIN claimed[w] : claimed[w][i].id = claimed[w][j].id => i = j
  /\ \A w1, w2 \in Workers : w1 # w2 => Claims(w1) \cap Claims(w2) = {}

\* A row that was PROCESSED or given up is never handled again, although a
\* worker may still have it in a batch it read before (processClaimedEvent).
FinishedStaysFinished ==
  \A e \in Events : event[e] \in {"PROCESSED", "FAILED"} => event'[e] = event[e]

\* An event is in the hands of one worker at a time, and of none once it is
\* done with (claimPendingEvents, processClaimedEvent).
HandledByOne == [][ClaimsExclusive' /\ FinishedStaysFinished]_outbox

\* A row claimed by a process that has died.
Abandoned(e) == event[e] = "PROCESSING" /\ \A w \in Workers : e \notin Claims(w)

\* Every published event is handled to the end, given up, or in the hands of a
\* worker that died; it is never left to wait by the others (tick).
EventsFinish ==
  \A e \in Events :
    event[e] = "PENDING" ~> event[e] \in {"PROCESSED", "FAILED"} \/ Abandoned(e)
=============================================================================
