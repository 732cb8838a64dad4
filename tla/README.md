# Smart parking: specification, model checking and proofs

TLA+ modules for the smart parking system in this repository, the TLC runs that check them on
small instances, and the theorems that TLAPS proves for every instance. Paths below are relative
to the repository; `backend/src/` is abbreviated to `b/`, `frontend/src/` to `f/`.

## 1. The system

A multi-tenant parking service. A NestJS backend (`backend/`, Prisma on PostgreSQL) keeps
slots, bookings, parking events (visits), gates, devices and gate commands; a Spring service
(`payment-service/`) keeps payments; an edge gateway at each gate (`iot-edge/`) reports
detections and opens the barrier; a React frontend (`frontend/`) calls both services; and a set
of scripts (`scripts/agents/`) plans and runs the tasks of coding agents on the repository.

```
 frontend ──HTTP──▶ backend ──HTTP──▶ payment-service ◀──webhook── payment provider
                     │  ▲
                outbox│  │ acks, detections, heartbeats
                     ▼  │
                   MQTT broker ◀──▶ edge gateway ──HTTP──▶ barrier relay
```

The backend's parts share one database; PostgreSQL runs their transactions at READ COMMITTED
(Prisma sets no other level), so what a statement reads may change before the next one. Several
backend instances may run and any may die. The outbox worker publishes gate commands over MQTT
(at least once, possibly late); payments are requested over HTTP with a time limit.

| Component | State it keeps | What makes it correct | Module |
|---|---|---|---|
| Slots, bookings, parking events, vehicles | their rows | a RESERVED slot has a booking and an OCCUPIED one a visit that can release it; one visit per slot; overlapping requests do no harm but the one listed | `ParkingTables`, `ParkingLedger`, `ParkingCore`, `ParkingOverlaps` |
| Detection, decision, orchestration (`b/iot/services/`) | detections, access attempts | a detection is answered once, its answer says what was done, its visit is its own | `GateDecision`, `GateAccess` |
| Outbox (`b/events/`) | events PENDING … FAILED | one worker at a time handles an event; none is left waiting | `OutboxWorker` |
| Gate commands, MQTT, edge gateway | commands, topics, commands seen | a command opens the barrier once; EXECUTED means opened; commands settle | `GateCommands`, `GateTopics`, `EdgeGateway`, `GateOpening`, `GateContract` |
| Gates and vehicle credentials | their rows | a tag leads to one car; a barred one stays out | `GateRegistry` |
| Devices | status, credential | a disabled device is not online; an old credential stays invalid | `Devices` |
| Payments (`payment-service/`) | INITIATED, SUCCESS, FAILED | paid means captured; captured settles; a final status is final | `PaymentRecords` |
| Usage limits, conversations, accounts | counted rows, messages, accounts and reset links | limits hold up to the requests in flight; resolved is resolved; a link works once | `UsageLimits`, `Conversations`, `Accounts` |
| Guard's search, slot map, dashboards, finder | none, they read | what is offered succeeds; views agree with the ledger and each other | `SecurityGate`, `Dashboards` |
| Frontend pages | query cache, session, forms | who changes something sees it; pages are served; nobody sees another user's name; a guard is told the truth | `ApiAccess`, `Pages`, `QueryCache`, `BrowserSession`, `GatePage`, `ActivityFeed`, `PageForms`, `Checkout` |
| Agent scripts | run ledger, plans, working trees | approval is earned; every orchestration ends; parallel tasks do not write the same files; uncommitted work is not lost | `AgentRuns`, `RunPlanner`, `Worktrees` |

The hard behaviours, each at its line, are the `hazards` of `PROJECT.json`; the state and the
lines behind each definition are in its `map`.

## 2. Modules

### The parking core

`ParkingTables` has the rows, the row changes that transactions commit, and the invariants.
`slot`, `bookingStatus`, `bookingSlot`, `eventStatus`, `registered` are the columns of those
names (`backend/prisma/schema.prisma`). `ParkingEvent.bookingId` is unique, so an event is keyed
by its booking. A check-in time is abstracted to the number of the visit it opens: `visit[b]`
counts the visits opened on a booking (each publishes PARKING_CHECKED_IN), `closed[b]` those
closed (PARKING_CHECKED_OUT), and `billed[b]` is the visit whose check-in time the stored fee was
computed from. The initial states are those of the demo seed (`backend/prisma/demo-seed.ts`): slots
that are AVAILABLE, some after a finished visit whose booking is COMPLETED, the only way a booking
gets that status; RESERVED with a CONFIRMED booking; OCCUPIED with an open visit; in MAINTENANCE.
Some rows of the seed are for show and no handler can make them: RESERVED slots after the first
six have no booking (333), and the test data add second bookings and second ACTIVE events to slots
in use (737-800, 811-884). They break `NoOrphanReservation` and `OneSessionPerSlot` from the start
and are left out.
Slot and booking ids are never reused ("GONE"), as auto-incremented keys are not. PENDING and
EXPIRED bookings and CANCELLED events are in the schema but no code writes them.

`ParkingLedger` has the handlers as they read in the source, each atomic. `ParkingCore` has the
same handlers statement by statement, interleaved. A session runs one request at a time. A read is
a step that remembers what it saw (`tx`). The writes of a transaction are one step with its commit,
which is sound at READ COMMITTED: they are not seen before the commit, a row written stays locked
until then, and a conditional update is evaluated on the committed row when it gets the lock, so
every write can be moved to the commit. A read that only repeats the condition of the update
after it (`validateSlotReserved` before `occupySlot`) is merged with that update. A failed guard,
an exception, a lost connection, a time-out and a deadlock that PostgreSQL breaks all end in
`Rollback`. Foreign keys are guards of inserts; deletes cascade.

`ParkingOverlaps` compares the two. The code serialises nothing, so `ParkingCore` does not implement
`ParkingLedger`; the question is how far it strays from it. The history variable `overtaken` holds
the sessions with an open transaction of which a row has been changed by somebody else since it
began to read: the slot it is about, a booking on that slot, the event of one, and for the deletion
of a vehicle a booking for it. It restricts nothing: `OverlapSpec` has every behaviour of `Spec`.
`OnlyOvertakenDeviate` says that every change of the rows is one step of `ParkingLedger`, or the
commit of an overtaken session, and then one of seven deviations, each written down with what had
gone stale and what is written nevertheless. All seven occur.

### From a detection to the barrier

`GateAccess` extends `ParkingLedger`: several processes take messages (which may come again)
through the duplicate window, the record, the decision (`GateDecision`, the rules in their
order), the booking for an assigned slot, check-in or check-out, the payment and the request to
open; a process may die between any two of them; staff use the same rows meanwhile.
Switches, credentials, the payment's outcome and whether a command can be created
are read nondeterministically here, since the modules below say how they change. Messages of
unknown or unauthenticated devices are refused before anything is written, and left out.
An error of the orchestration is caught and recorded as an attempt, with one exception: the
creation of the command is returned without `await` (`iot-parking-orchestration.service.ts:92`), so
its rejection passes the `catch` (`openCommandRejected`). The history variable `cutShort` says of a
detection left without an attempt whether its process died or its command was rejected. That the
database carries out a commit and its answer is lost is not modelled in this module.

`GateOpening` composes `GateCommands` (creating a command, publishing it from the outbox,
expiry, answers read and written in two steps), `OutboxWorker` (as an `INSTANCE`, its rows
refined by the commands' events), `GateTopics` (the broker: sets of messages, delivered any
number of times, or lost when `Lossy`) and `EdgeGateway` (commands seen in memory, the relay,
failures, restarts). `GateContract` is the abstract promise to whoever asks the gate to open;
`KeepsContract` is the refinement.

`GateRegistry` has enrolling, revoking, expiring and deleting credentials and every operation on
gates, each as its check and a later write, and the reads of a detection (gate, lot, credential,
vehicle) one after the other. An inactive gate or lot ends a detection early.

### Services

`PaymentRecords` models the Razorpay provider: handlers save whole rows without a version;
webhooks are lost, repeated, out of order. `UsageLimits` counts parking lots; users, bookings and
manual gate openings go through the same kind of count, and a sign-up with a new organization
is not limited. `Conversations`, `Accounts` and `Devices` have each operation as a read and a
later write.

### Views and pages

`SecurityGate` and `Dashboards` extend `ParkingLedger` with what the guard's search, the slot
map, the operators' and users' cards, the finder and the list of slots to book compute from it.
They model one lot of one organization, and one vehicle per user for the search by phone.
All visits fall on one day. What the views sort by is kept as a relation: `later` (in
`SecurityGate`) is the order of the bookings' times, `newer` (in `Dashboards`) the order in which
bookings were made.

`ApiAccess` says which role each call of `f/api` is answered for, and what it reads and writes;
`Pages` what every page asks, offers and refreshes, and where its links and buttons lead.
`QueryCache` takes one change and one query of one user through React Query (external, from how the
pages use it). `BrowserSession` is one tab: token in shared storage, `/auth/me`, a cached list,
401s. `GatePage` is the guard's page against the services, `ActivityFeed` the paged feed,
`PageForms` every form and confirmation as a row of how its buttons and handlers behave, `Checkout`
the provider's window over the payments page.

### Agent scripts

`AgentRuns`: the files of a run, the orchestrator killed between any two writes, moves by
hand while it is idle or awaits a provider. `RunPlanner`: from changed files to agents,
dependencies and parallel groups, with the permissions of the tasks; the loop over the tasks left
is a function of the round, with as many rounds as there are tasks. `Worktrees`: working
trees, integration and removal as commands that look first and act later.

### Composition for TLC

`MCGates`, `MCDelivery`, `MCServices` and `MCLedgerAndPages` put parts that share
no state into one run. Their variable `scene` says which part a behaviour is about, the others
stay in an initial state: the reachable states are the union of those of the parts, so nothing is
hidden and nothing is multiplied. The other MC modules only give constants their values.

## 3. Runs

| Run | Question | Bounds |
|---|---|---|
| `core_concurrent` | does every interleaving leave reservations and occupancies with their owners? | 1 slot, 3 bookings of 1 vehicle with that slot assigned, 2 sessions, 2 visits per booking; administrators write AVAILABLE and MAINTENANCE |
| `core_deletion` | what survives when, besides, vehicles are deleted and administrators write any status? | 1 slot, 2 bookings of 2 deletable vehicles, 2 sessions, 3 visits |
| `core_overlaps` | what can overlapping requests do that requests one after the other cannot? | 2 slots assigned to one vehicle, 2 bookings, 2 vehicles (one deletable), 2 sessions, 2 visits; administrators make and delete slots |
| `ledger` | what do the handlers guarantee one at a time, and do the views on the ledger say so? In scenes of their own: what do the pages show? | 2 slots, 3 bookings, 2 deletable vehicles, 3 visits; administrators write OCCUPIED. Pages: every page, role, change and query; 2 users; 2 cars; 3 events, page size 1, times up to 2; 2 rows, 3 contents, 2 requests; 2 payments, Pay Now 3 times |
| `access` | what does a detection do to the ledger while others and staff use it? | 1 slot, booking, vehicle, gate; 2 messages of the same tag; 2 processes; 2 visits |
| `gate` | do command, outbox, broker and gateway keep the contract of the gate with every fault? Do barred tags stay out? | 1 command, 1 worker, 2 attempts, losses, repetition, restarts. Registry: 1 tag, 2 cars, 2 lots, 2 administrators (one may work on the gate), 1 detection, 2 credentials |
| `gate_live` | do commands settle, one at a time per gate? | 2 commands of one gate, 1 worker, 1 attempt, nothing lost, nobody restarting |
| `delivery` | are events and webhooks delivered to the end, once? | 2 workers that die, 2 events, 2 attempts; 2 payments, 2 handlers |
| `services` | what can overlapping requests, kills and moves by hand break? | 3 agent tasks with dependencies, 2 attempts; changes of up to 3 of a set of files that meets every rule; 2 working trees, 2 branches; 3 requests for lots above a limit of 1; 5 people, 2 conversations; 3 organizations (one whose administrators add users), 2 emails (one that signs up), 2 links; 3 credentials |
| `double_booking_api`, `payment_overwritten`, `cross_user_cache` | statements of the documentation the code does not keep; TLC shows how | – |

Why these bounds. Transactions interact only through the slot they share and, for one booking,
through its event, so two sessions on one slot show every pairwise race, and three bookings let a
third party use the slot between two steps of another. Two visits give a return visit, three one
more. Two slots are needed only where independence is the point. Read-then-write services are
checked with one request more than the pair that races wherever a limit is counted. One
command is enough for the contract, which is about each command apart; two are needed for one
live command per gate. A second attempt gives every retry. `ActivityFeed` at page size 1 makes
every boundary between rows a boundary between pages; with times up to 2 a row returns once and
may share its time with another. Every bound on behaviour is a constant with the comment
"bound". Ids run out, so behaviours may end, and the configurations set `CHECK_DEADLOCK FALSE`.
Sessions and messages that are interchangeable are symmetry sets in runs without liveness only.

The other runs of `ParkingCore` use `OverlapSpec` too, which is `Spec` with the history variable. In
`core_overlaps` administrators write no status: one that may set a slot AVAILABLE by hand makes a
cancellation that comes too late (`CancelsAgain`) look like the change of that status. Each of the
seven deviations is reached within its bounds.

`OverrideStatuses` limits what administrators write. `updateStatus` accepts any status; each
invariant is checked with the statuses that leave it meaningful (a slot marked RESERVED by hand
has no booking, so `NoOrphanReservation` speaks of a system where nobody does).

`GateClerks` limits which administrator may work on the gate: a second one adds no race that the
detection's own reads do not meet.

### Fairness

* Outbox and gate: weak fairness of a worker's steps (an interval timer fires forever, every
  await settles), of the end of a back-off, and in `gate_live` of the gateway's handler and of
  answers being read and written. `delivery` adds `<>[]` no more deaths: a process that
  dies forever finishes nothing. `gate_live` assumes nothing lost and answers handled at once,
  which the code does not guarantee; the unrestricted faults are those of `gate`.
* Payments: weak fairness of a handler's save, `<>[]` no rollback, and strong fairness of the
  captured webhook, which the provider repeats until it is answered.
* Agents: `RunFairness`, weak fairness of the orchestrator's next step: a process nobody kills goes
  on, and a provider answers or times out.

### Properties that join several promises

A run's property is sometimes a conjunction of named parts, each with its own comment:
`HandledByOne`, `PublishedOpensOnce`, `AnsweredOnce`, `AnswerTellsWhatWasDone`, `RowsTellTheTruth`,
`RegistrySound`, `GateViewSound`, `ViewsAgree`, `CacheSound`, `FormsSound`, `CheckoutSound`,
`AccountsSound`, `ConversationsSound`, `DevicesSound`, `RunsSound`, `PlansSound`, `TreesSound`. Each
part that could fail on its own has a mutant where one run is enough to say so. The type invariants
of the gate, access, payment, service and page modules hold as well and are not listed.

### What the violation runs show

* `double_booking_api`: `create` reserves a slot after a count that may be stale. The booking for an
  assigned slot (`ensureAssignmentBooking`) is made whatever the slot's status, another way to
  two bookings.
* `payment_overwritten`: a failure that read INITIATED overwrites a SUCCESS committed since.
* `cross_user_cache`: signing out clears only the answers under `auth`.

Further statements are written down in the modules and do not hold: `CancelledNeverAdmitted`
(check-in re-checks the slot's status, not the booking's), `DuplicateCheckInBlocked` (a return
check-in to an OCCUPIED slot without a session writes nothing that would fail if it changed
since), `CheckOutCompletesBooking` (check-out leaves the booking CONFIRMED, by design of the
return visit), `ActiveSessionOccupiesSlot` and the other session invariants under concurrency,
`RevenueKept` (a return check-in clears the fee of the visit before it).

## 4. Proofs

The theorems speak of all instances: any number of slots, bookings, sessions, workers, commands,
requests, payments and so on. They rest on the named `ASSUME`s of the modules only (constants have
their types, a sentinel such as `None` is no row, a set whose members are counted is finite) and
on the hypothesis in the last column where there is one.

### The parking core (`ParkingTablesProofs`, `ParkingCoreProofs`, `ParkingLedgerProofs`)

| Theorem | States | Hypothesis |
|---|---|---|
| `TypeCorrect` | `ParkingCore`: `[]TypeOK` | – |
| `Balanced` | `ParkingCore`: `[]VisitsBalance` | – |
| `ReservationsOwned` | `ParkingCore`: `[]NoOrphanReservation` | nobody writes RESERVED by hand; no vehicle is deleted |
| `OccupanciesOwned` | `ParkingCore`: `[]NoPhantomOccupancy` | nobody writes OCCUPIED by hand; no vehicle is deleted |
| `OvertakenDeviate` | `OverlapSpec => OnlyOvertakenDeviate` | – |
| `LedgerTypeCorrect` | `ParkingLedger`: `[]TablesTypeOK` | – |
| `LedgerReservationsOwned` | `ParkingLedger`: `[]NoOrphanReservation` | nobody writes RESERVED by hand |
| `LedgerOneSession`, `LedgerSessionSlot`, `LedgerSessionConfirmed` | `ParkingLedger`: `[]OneSessionPerSlot`, `[]ActiveSessionOccupiesSlot`, `[]ActiveSessionConfirmed` | by hand, at most OCCUPIED is written |

`RowChange` (in `ParkingTablesProofs`) is everything a commit may do to the rows, without the
guards that a stale read decides. `StepShape` shows that every step of `ParkingCore` is a
`RowChange`, the deletion of a vehicle, or leaves the rows alone; it needs `TransactionOK`, what a
transaction knows at each step, which is why that is part of `TypeOK`. Each invariant is then
preserved by `RowChange` because of the conditional update inside it, which is what makes it hold
for every interleaving: releasing a slot is conditional on RESERVED or OCCUPIED and happens with
the change of the booking or event that owned it. The assumption on vehicles is needed: a booking
made between the count and the delete of its vehicle is deleted with it, and its slot stays
RESERVED.

In `ParkingLedger`, `Parked` is the conjunction of `OneSessionPerSlot` and
`ActiveSessionOccupiesSlot`. Neither is inductive alone: a check-in keeps one session per slot
because another session would have the slot OCCUPIED, and a check-out may free the slot because
there is no other session. `ActiveSessionConfirmed` follows with it: cancelling needs a RESERVED
slot.

`OvertakenDeviate` rests on `OverlapInv`, which says two things of open transactions. `Remembers`,
of all of them: how far what was read may have changed since, given that a booking keeps its slot,
that one deleted stays deleted, and the like (`Moves`, which every step obeys by `StepMoves`).
`StillHolds`, of those not overtaken: what was read is still true. It is kept because a step that
touches none of the rows a transaction reads leaves its reading true (`UntouchedHolds`), and a step
that touches one makes it overtaken. A session's step is then a read, after which `StillHolds` holds
if it did before (`Reads`), or a commit (`Writes`): a step of `ParkingLedger`, or a deviation by a
transaction whose reading is no longer true. The lemmas `BookingStep` to `RemovingVehicleStep`
go through the statements. What administrators do is atomic and the ledger's own. There is no
hypothesis: it holds with every status written by hand and every vehicle deletable.

### From a detection to the barrier (`OutboxProofs`, `GateOpeningProofs`, `GateAccessProofs`)

| Theorem | States | Hypothesis |
|---|---|---|
| `OutboxTypeCorrect`, `EventHandledByOne` | `OutboxWorker`: `[]OutboxTypeOK`, `HandledByOne` | – |
| `GateTypeCorrect`, `ExecutedOpened` | `GateOpening`: `[]TypeOK`, `[]ExecutedWasOpened` | – |
| `PublishedOpens` | `[]PublishedOpensOnce` | `~ TtlOutlivesDedupe` |
| `ContractKept` | `KeepsContract`, the refinement of `GateContract` | `~ TtlOutlivesDedupe` |
| `OneLiveCommand` | `SpecAcksAtOnce => []OneLiveCommandPerGate` | – |
| `RegistryStaysSound` | `GateRegistry`: `RegistrySound` | – |
| `AccessTypeCorrect`, `DetectionAnsweredOnce`, `VisitsNotShared`, `AnswersTell`, `EchoStays` | `GateAccess`: `[]TypeOK`, `[]AnsweredOnce`, `[]EffectsDistinct`, `[]AnswerTellsWhatWasDone`, `EchoDoesNotCheckOut` | – |
| `GatesKeepLedger` | `GateSpec => Spec` of `ParkingLedger` | – |

* Outbox. `OutboxInv` is the types with `ClaimsExclusive`: an event is in the hands of a worker at
  one place at most, and is PROCESSING there. Claiming is a conditional update, which is what keeps
  claims apart; a row released for being stale while its worker still has it is the case that
  makes the places part of the invariant.
* Gate. `GateInv` joins what command and event say of each other (`BackendSound`), what the gateway
  remembers and what it did (`EdgeTypeOK`), and that every message of the broker was once true
  (`MessagesSound`). Then EXECUTED means opened, whatever is lost or repeated. That the barrier
  opens once needs `OpeningsSound` and the hypothesis that a command does not outlive the memory
  of the gateway. That is a condition on the configuration: `COMMAND_DEDUPE_TTL_MS` is by default
  far above `commandTtlSeconds`, but the latter has no upper bound (`b/iot/dto/create-gate.dto.ts`
  asks for an integer of at least 1). `SameOutbox`
  ties the `INSTANCE` of the outbox to the commands' rows, so that `OutboxProofs` is used and not
  repeated. Each step then is one of `GateContract` or leaves its variables alone.
* One live command: `AcksCurrent` says that no answer in hand is about a command that has become
  final. It is preserved only where answers are handled one after the other.
* Registry. `TagsLeadToOneCar` needs that a row keeps its tag and that spent credentials stay so;
  `StillBarred` says of each place of a detection what is left of what barred the tag when the
  detection came in.
* Detections. `AccessInv`: a message is in one hand (`InOneHand`), is answered by it (`OneAnswer`)
  or cut short, a job at each place has done what comes before it and no more (`ServedSoFar`), and
  claims are about visits of the past (`EffectsPast`). `EchoStays` needs what a job saw of the
  duplicate window, for the session is read before the window is. `GatesKeepLedger` carries the
  ledger's theorems over to the gates.

### Services and agent scripts (`ServicesProofs`)

| Theorem | States |
|---|---|
| `PaymentTypeCorrect`, `PaymentRowsTrue`, `PaymentFinal` | `PaymentRecords`: `[]PaymentTypeOK`, `[]RowsTellTheTruth`, `FinalUnlessOverlapped` |
| `LimitsHold` | `UsageLimits`: `[]ExcessBounded` |
| `DevicesStaySound` | `Devices`: `[]DevicesSound` |
| `ConversationsStaySound`, `ResolvedStaysResolved` | `Conversations`: `[]ConversationsSound`, `ResolvedForGood` |
| `AccountsStaySound` | `Accounts`: `[]AccountsSound` |
| `RunsStaySound` | `AgentRuns`: `[]RunsSound` |
| `TreesStaySound` | `Worktrees`: `TreesSound` |
| `PlansStaySound` | `RunPlanner`: `[]PlansSound` |

None has a hypothesis. The requests are finitely many where the bound counts them. In each, the
invariant says of a request between its read and its write what its read has established and what
others may have undone since (`HandlersFounded`, `UpdatesExist`, `Quiet`, `RequestsMay`,
`ResetsHold`, `CommandKnown`). The bounds are the cases a unit test cannot show: `ExcessInv`
bounds the active lots *together with* the requests that have passed the check, and
`LateMessagesBounded` the late messages together with those on their way; each step moves a member
from one side to the other. `RunInv` adds to the promises about a run what the files on disk say
between any two writes, since the orchestrator may be killed there.

`PlansStaySound` holds for any set of changed files whose paths are sequences of segments
(`FilesAssumption`), over the manifest's agents. The planner computes by iteration, so the proof
is an induction over numbers. It is made from `LeastNumber`, that a set of numbers has a least one
(the strict subset order of finite sets is well-founded), by way of `EveryNumber`, for a set that is
closed under successors. `Placed` says what the first n tasks leave in their groups: each ready
task once, and no two of a group with scopes that overlap. `After` says that n rounds have placed
every task that is done after all that it waits for; `SomethingReady` that tasks never wait for
each other in a circle, so each round does at least one and the code's fallback for circles is
never taken. `WritesStayApart` turns scopes that do not overlap into files that two tasks of a
group may not both write. `ServiceOwned` goes through the services for the owner of production
code.

### Views and pages (`ViewProofs`)

| Theorem | States | Hypothesis |
|---|---|---|
| `SearchSound` | `SecurityGate`: `[]GateViewSound` | by hand, at most OCCUPIED is written |
| `ViewsSound` | `Dashboards`: `[]ViewsAgree` | the same; finitely many slots and bookings |
| `TabShowsOwner` | `BrowserSession`: `[]MeIsOwner` | – |
| `GuardIsToldTruth` | `GatePage`: `[]GuardToldTruth` | – |
| `FormsStaySound` | `PageForms`: `[]FormsSound` | – |
| `PayNowSound` | `Checkout`: `[]CheckoutSound` | – |
| `CacheStaysSound` | `QueryCache`: `[]CacheSound` | – |
| `FeedStaysSound` | `ActivityFeed`: `[]ActivityFeedSound` | – |

`SearchSound` and `ViewsSound` are drawn from the ledger's theorems, for the views only read. They
add `TimesOrdered` (the last event of a vehicle is well defined) and `NewestWaits` (the newest
booking of a RESERVED slot is the one that waits). Counts are compared without counting: as
cardinalities of disjoint unions, and, where a sum over vehicles is compared with a count of
bookings, as a set of pairs counted in two ways.

The pages' invariants say what is still on its way: requests of a user who has left (`SessionInv`),
the action a guard waits for and the car he looks at (`GatePageInv`), each content of a form, sent
once (`FormInv`), and the payments that compete for the buttons while the provider's script loads
(`CheckoutInv`). `FormsTable` proves for every row of the table of forms the few facts the
invariant uses, so a new form needs only its row.

`CacheStaysSound` is of tables and of behaviours. The tables of routes, calls and links are
relations, so that a lemma says of each role, table or page all it is related to (`ReachablePages`,
`ReadersOf`, `WritersOf`, `PagesAsk`, `PagesOffer`); `PagesAreServed`, `OwnWritesRefreshed`,
`EveryLinkLeads` and `EveryPageLinked` follow, exceptions included. `CacheInv` is then what the
cache must remember between a change and what is shown: once a change that refreshes the query was
answered, what is kept is from after it, or is marked as old and being fetched again, and no fetch
that began before it is left.

`FeedStaysSound` has `FeedInv`: the pages shown, and those a refetch has collected so far, are in
order and end at their cursor; no page shows a row at a later time than it has now; and each row not
written meanwhile is on a page or still beyond the last cursor. A page is the first rows of those
beyond the cursor, in an order that is total because ids break ties (`AfterIsOrder`), so a row has
its place by the number of rows above it (`RankTaken`). A row that is written moves up or is
gone, which is why none can come again on a later page (`RowChanged`).

### Only model-checked

Every invariant and action property of the passing runs is stated by a theorem above. What is left
to TLC are `EventsFinish`, `CapturedSettles`, `CommandsSettle` and `OrchestrationEnds`: liveness
under fairness, and ENABLED, are out of the prover's reach.

## 5. What holds only with an exception

The properties name the exceptions the code makes. A reader of the code may want to know them.

Slots, bookings, visits (the deviations of `ParkingOverlaps`, all by overtaken requests)
* A slot is booked although it has an active booking, or is AVAILABLE and stays so.
* A booking is cancelled a second time, and the reservation of the next one released with it.
* A cancelled booking is admitted on the reservation of another; a return check-in is written
  although the booking was cancelled, the visit opened by another request, or the slot is no
  longer as it was read.
* A check-out bills the visit it had read, although that one was closed and another opened.
* A vehicle is deleted with a booking made since the count, and its slot stays RESERVED.

Gate and detections
* The barrier opens once per command *and start of the gateway*: the commands seen are in memory,
  and are forgotten by age, whatever the time to live of the command.
* An answer handled late may take EXECUTED back; a gate has one live command at a time only while
  answers are handled one after the other.
* A dying worker leaves its event PROCESSING and a dying process its detection unanswered; no code
  takes either up again.
* When the creation of the command is rejected (a transaction that timed out, a gate deleted
  meanwhile), the visit is opened or closed and paid, the gate stays shut, and no attempt is
  written, although the process lives on.
* A visit opened at the gate is not always followed by an open gate (a live command refuses the
  new one after the check-in was committed). An EXIT decision delayed past a check-out and a return
  check-in closes the later visit, since both have one row.
* A credential revoked while its detection is under way may still open the gate.

Payments
* A first failed attempt told by webhook makes the payment FAILED; a later capture is then ignored.
* In the browser: payments overlap while the script loads, the end of either frees the buttons of
  both, and a script that failed to load is not loaded again before the tab is, although the
  message says "Please try again". That an order is captured once is the provider's promise.

Services
* Limits are exceeded by the number of requests in flight less one; a message in flight lands in a
  resolved conversation; `lastMessageAt` may go back; a heartbeat in flight sets a disabled device
  ONLINE; a reset link works for every request that holds it.

Views
* A vehicle parked under two bookings counts as two visits under way; once one ends, the search by
  plate no longer offers the check-out of the other. The slot map's status filter uses the stored
  status. "Upcoming bookings" include those whose car is parked or has left, for bookings stay
  CONFIRMED; check-ins today counts events, not visits.

Pages
* `NotRefreshed` lists the pairs of change and query no handler refreshes, `Refusals` the
  calls a page makes that its user is refused or no controller serves (the device panel's
  addresses). The USER's route to the slot map is unreachable, other than
  `.grok/reports/phase-4-visual-slot-map-acceptance.md:31` says. `DeadLinks`: "View Plans" leads to
  an address without a page, and the finder's "Book" leads staff to a page closed to them. A
  SUPER_ADMIN, who is in no organization, has no entry for the branding page that is open to them. A
  first fetch overtaken by an invalidation stays stale.
* Another tab's sign-in goes unnoticed; a late 401 signs out the next user of the tab.
* A guard who closes a waiting confirmation with Escape and searches again may see a success over
  another car.
* The lot form stays open after its success; the floor form can be sent twice; where closing is
  not locked, a late answer closes the next dialog. Settings save all fields, the last writer
  wins.

Agent scripts
* The loop invokes a task that left READY since it was listed; the refused update ends the
  process. A task left RUNNING by a kill is never listed again. A run killed between its writes may
  have `qualityVerdict` APPROVE without the event of it.
* Write patterns that begin with `**` overlap with nothing, so an `.env.example`, a Dockerfile or a
  README may be written by two tasks of one parallel group
  (`docs/agents/ORCHESTRATION.md:58`: "Never parallelize overlapping write scopes"). Some routed
  tasks may not write the files they were routed for, and are BLOCKED before they start. Nobody may
  write production code whose name marks it as secret. Production documents beside files no agent
  knows are investigated, although they have writers of two kinds.
* Integration merges into whatever branch is checked out after a switch; removal with `--force`
  loses what was written after its check; a kill between merge and commit leaves a merge.

## 6. Plan

Done: the parking core; gate commands, outbox, broker and gateway with a contract they refine;
detections; payments; the read-then-write services; views, pages, agent scripts; the proofs of
the gate's refinement, of what overlapping requests may do beyond the ledger, and of every safety
property of the runs.

Left: moving a device to another gate; weekly volumes of the dashboards.

## 7. Not modelled

* Times, prices, names and other data that only decide whether a request is refused before it
  changes anything: slot and vehicle types, times of a booking, the fee formula, row-level scopes.
  The models admit at least the requests the code admits.
* `b/iot/services/gate-monitoring.service.ts` and the outbox monitor: they only read and count.
  The MQTT message validator: a malformed message is dropped.
* Signing and checking of tokens; branding; the pages before signing in, other than the link from
  the parking finder to the booking form.
* `backend/prisma/demo-seed.ts` beyond the state it leaves. It runs without a transaction; killed
  after its marker lot, later runs only refresh timestamps unless `DEMO_RESEED=1`.
* Floors apart from the slots they delete. Slot assignments are a constant: the service only reads
  them.
* Layout, wording, filters, charts and formatting of pages.
* `scripts/agents/agent-run-post-merge.mjs` (rewrites the text of reports), the agents'
  memory, skills, prompts and command permissions; `scripts/iot-fullstack-integration.mjs` and the
  other test scripts; deployment files and documents.
