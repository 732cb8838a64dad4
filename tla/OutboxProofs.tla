---------------------------- MODULE OutboxProofs ----------------------------
(***************************************************************************)
(* What holds of the outbox for any rows, workers, batch size and number   *)
(* of attempts.                                                            *)
(***************************************************************************)
EXTENDS OutboxWorker, SequenceTheorems, FiniteSetTheorems, TLAPS

\* Taking a row out of a queue that has it at one place at most leaves the other
\* rows in it, each at one place, and not that row (claimPendingEvents).
LEMMA RemoveFirstOnce ==
  ASSUME NEW S, NEW q \in Seq(S), NEW e,
         \A i, j \in DOMAIN q : q[i] = q[j] => i = j
  PROVE  /\ RemoveFirst(q, e) \in Seq(S)
         /\ \A i \in DOMAIN RemoveFirst(q, e) :
              /\ RemoveFirst(q, e)[i] # e
              /\ \E j \in DOMAIN q : q[j] = RemoveFirst(q, e)[i]
         /\ \A i, j \in DOMAIN RemoveFirst(q, e) :
              RemoveFirst(q, e)[i] = RemoveFirst(q, e)[j] => i = j
<1>0. DOMAIN q = 1 .. Len(q) /\ Len(q) \in Nat
  BY LenProperties
<1>1. CASE ~ \E i \in 1 .. Len(q) : q[i] = e
  BY <1>0, <1>1 DEF RemoveFirst
<1>2. CASE \E i \in 1 .. Len(q) : q[i] = e
  <2>1. PICK k \in 1 .. Len(q) : q[k] = e
    BY <1>2
  <2>2. {i \in 1 .. Len(q) : q[i] = e} = {k}
    BY <1>0, <2>1
  <2>3. SelectInSeq(q, LAMBDA v : v = e) = k
    BY <2>2, <2>1 DEF SelectInSeq, Min
  <2> DEFINE left == SubSeq(q, 1, k - 1)
             right == SubSeq(q, k + 1, Len(q))
  <2>4. RemoveFirst(q, e) = left \o right
    BY <1>2, <2>3 DEF RemoveFirst, RemoveAt
  <2>5. /\ left \in Seq(S) /\ Len(left) = k - 1
        /\ \A i \in 1 .. k - 1 : left[i] = q[i]
    <3>1. \A i \in 1 .. k - 1 : q[i] \in S
      BY <1>0, ElementOfSeq
    <3>2. /\ left \in Seq(S)
          /\ Len(left) = IF 1 <= k - 1 THEN (k - 1) - 1 + 1 ELSE 0
          /\ \A i \in 1 .. (k - 1) - 1 + 1 : left[i] = q[1 + i - 1]
      BY <1>0, <3>1, k - 1 \in Int, SubSeqProperties
    <3>3. k - 1 \in Nat /\ (k - 1) - 1 + 1 = k - 1 /\ \A i \in Int : 1 + i - 1 = i
      BY <1>0
    <3> HIDE DEF left
    <3> QED
      BY <3>2, <3>3
  <2>6. /\ right \in Seq(S) /\ Len(right) = Len(q) - k
        /\ \A i \in 1 .. Len(q) - k : right[i] = q[k + i]
    <3>1. \A i \in k + 1 .. Len(q) : q[i] \in S
      BY <1>0, ElementOfSeq
    <3>2. /\ right \in Seq(S)
          /\ Len(right) = IF k + 1 <= Len(q) THEN Len(q) - (k + 1) + 1 ELSE 0
          /\ \A i \in 1 .. Len(q) - (k + 1) + 1 : right[i] = q[(k + 1) + i - 1]
      BY <1>0, <3>1, k + 1 \in Int, Len(q) \in Int, SubSeqProperties
    <3>3. /\ Len(q) - k \in Nat /\ Len(q) - (k + 1) + 1 = Len(q) - k
          /\ \A i \in Int : (k + 1) + i - 1 = k + i
      BY <1>0
    <3>4. Len(right) = Len(q) - k
      <4> HIDE DEF right
      <4>1. CASE k < Len(q)
        <5>1. k + 1 <= Len(q)
          BY <1>0, <4>1
        <5> QED
          BY <3>2, <3>3, <5>1
      <4>2. CASE k = Len(q)
        <5>1. ~ (k + 1 <= Len(q)) /\ Len(q) - k = 0
          BY <1>0, <4>2
        <5> QED
          BY <3>2, <5>1
      <4>3. k < Len(q) \/ k = Len(q)
        <5>1. \A a, b \in Int : a <= b => a < b \/ a = b
          OBVIOUS
        <5>2. k \in Int /\ Len(q) \in Int /\ k <= Len(q)
          BY <1>0
        <5> QED
          BY <5>1, <5>2
      <4> QED
        BY <4>1, <4>2, <4>3
    <3>5. ASSUME NEW i \in 1 .. Len(q) - k
          PROVE  right[i] = q[k + i]
      <4>1. right[i] = q[(k + 1) + i - 1]
        BY <3>2, <3>3
      <4>2. (k + 1) + i - 1 = k + i
        BY <3>3
      <4> HIDE DEF right
      <4> QED
        BY <4>1, <4>2
    <3> QED
      BY <3>2, <3>4, <3>5
  <2> HIDE DEF left, right
  <2>7. /\ left \o right \in Seq(S)
        /\ Len(left \o right) = Len(q) - 1
        /\ DOMAIN (left \o right) = 1 .. Len(q) - 1
        /\ \A i \in 1 .. Len(q) - 1 : (left \o right)[i] = IF i < k THEN q[i] ELSE q[i + 1]
    <3>1. /\ left \o right \in Seq(S)
          /\ Len(left \o right) = (k - 1) + (Len(q) - k)
          /\ \A i \in 1 .. (k - 1) + (Len(q) - k) :
               (left \o right)[i] = IF i <= k - 1 THEN left[i] ELSE right[i - (k - 1)]
      <4>1. left \in Seq(S) /\ right \in Seq(S)
        BY <2>5, <2>6
      <4>2. /\ left \o right \in Seq(S)
            /\ Len(left \o right) = Len(left) + Len(right)
            /\ \A i \in 1 .. Len(left) + Len(right) :
                 (left \o right)[i] = IF i <= Len(left) THEN left[i] ELSE right[i - Len(left)]
        BY <4>1, ConcatProperties
      <4> QED
        BY <2>5, <2>6, <4>2
    <3>2. DOMAIN (left \o right) = 1 .. Len(left \o right)
      BY <3>1, LenProperties
    <3>3. (k - 1) + (Len(q) - k) = Len(q) - 1
      BY <1>0
    <3>4. ASSUME NEW i \in 1 .. Len(q) - 1
          PROVE  (left \o right)[i] = IF i < k THEN q[i] ELSE q[i + 1]
      <4>1. (left \o right)[i] = IF i <= k - 1 THEN left[i] ELSE right[i - (k - 1)]
        BY <3>1, <3>3
      <4>2. CASE i < k
        <5>1. i <= k - 1 /\ i \in 1 .. k - 1
          BY <1>0, <4>2
        <5> QED
          BY <2>5, <4>1, <4>2, <5>1
      <4>3. CASE ~ i < k
        <5>1. ~ i <= k - 1 /\ i - (k - 1) \in 1 .. Len(q) - k /\ k + (i - (k - 1)) = i + 1
          BY <1>0, <4>3
        <5>2. right[i - (k - 1)] = q[k + (i - (k - 1))]
          BY <2>6, <5>1
        <5> QED
          BY <4>1, <4>3, <5>1, <5>2
      <4> QED
        BY <4>2, <4>3
    <3> QED
      BY <3>1, <3>2, <3>3, <3>4
  <2> DEFINE kept == left \o right
  <2>8. \A i \in DOMAIN kept : kept[i] # e /\ \E j \in DOMAIN q : q[j] = kept[i]
    <3> SUFFICES ASSUME NEW i \in 1 .. Len(q) - 1
                 PROVE  kept[i] # e /\ \E j \in 1 .. Len(q) : q[j] = kept[i]
      BY <1>0, <2>7
    <3>1. CASE i < k
      <4>1. i \in 1 .. Len(q) /\ i # k
        BY <1>0, <3>1
      <4>2. kept[i] = q[i]
        BY <2>7, <3>1
      <4> HIDE DEF kept
      <4> QED
        BY <1>0, <2>1, <4>1, <4>2
    <3>2. CASE ~ i < k
      <4>1. i + 1 \in 1 .. Len(q) /\ i + 1 # k
        BY <1>0, <3>2
      <4>2. kept[i] = q[i + 1]
        BY <2>7, <3>2
      <4> HIDE DEF kept
      <4> QED
        BY <1>0, <2>1, <4>1, <4>2
    <3> QED
      BY <3>1, <3>2
  <2>9. \A i, j \in DOMAIN kept : kept[i] = kept[j] => i = j
    <3> SUFFICES ASSUME NEW i \in 1 .. Len(q) - 1, NEW j \in 1 .. Len(q) - 1, kept[i] = kept[j]
                 PROVE  i = j
      BY <2>7
    <3> DEFINE at(n) == IF n < k THEN n ELSE n + 1
    <3>1. /\ at(i) \in 1 .. Len(q) /\ at(j) \in 1 .. Len(q)
          /\ at(i) = at(j) => i = j
      BY <1>0
    <3>2. kept[i] = q[at(i)] /\ kept[j] = q[at(j)]
      BY <2>7
    <3> HIDE DEF at, kept
    <3> QED
      BY <1>0, <3>1, <3>2
  <2> QED
    BY <2>4, <2>7, <2>8, <2>9
<1> QED
  BY <1>1, <1>2

\* What every step of the workers keeps: the types, and that the rows in the
\* hands of workers are PROCESSING and each in one place.
OutboxInv == OutboxTypeOK /\ ClaimsExclusive

\* The claims of all the workers, place by place.
Apart(holds) ==
  \A w1, w2 \in Workers : \A i \in DOMAIN holds[w1], j \in DOMAIN holds[w2] :
    holds[w1][i].id = holds[w2][j].id => w1 = w2 /\ i = j

AllProcessing(status, holds) ==
  \A w \in Workers : \A i \in DOMAIN holds[w] : status[holds[w][i].id] = "PROCESSING"

\* ClaimsExclusive in that form, before and after a step.
LEMMA ClaimsApart ==
  /\ ClaimsExclusive <=> Apart(claimed) /\ AllProcessing(event, claimed)
  /\ ClaimsExclusive' <=> Apart(claimed') /\ AllProcessing(event', claimed')
<1> DEFINE Of(holds, w) == {holds[w][i].id : i \in DOMAIN holds[w]}
           Exclusive(status, holds) ==
             /\ \A w \in Workers : \A i \in DOMAIN holds[w] :
                  /\ status[holds[w][i].id] = "PROCESSING"
                  /\ \A j \in DOMAIN holds[w] : holds[w][i].id = holds[w][j].id => i = j
             /\ \A w1, w2 \in Workers : w1 # w2 => Of(holds, w1) \cap Of(holds, w2) = {}
<1>1. ASSUME NEW status, NEW holds
      PROVE  Exclusive(status, holds) <=> Apart(holds) /\ AllProcessing(status, holds)
  <2>1. ASSUME Exclusive(status, holds) PROVE Apart(holds)
    <3> SUFFICES ASSUME NEW w1 \in Workers, NEW w2 \in Workers,
                        NEW i \in DOMAIN holds[w1], NEW j \in DOMAIN holds[w2],
                        holds[w1][i].id = holds[w2][j].id
                 PROVE  w1 = w2 /\ i = j
      BY DEF Apart
    <3>1. holds[w1][i].id \in Of(holds, w1) \cap Of(holds, w2)
      OBVIOUS
    <3> QED
      BY <2>1, <3>1
  <2>2. ASSUME Apart(holds), NEW w1 \in Workers, NEW w2 \in Workers, w1 # w2
        PROVE  Of(holds, w1) \cap Of(holds, w2) = {}
    <3> SUFFICES ASSUME NEW e \in Of(holds, w1), e \in Of(holds, w2)
                 PROVE  FALSE
      OBVIOUS
    <3>1. PICK i \in DOMAIN holds[w1] : e = holds[w1][i].id
      OBVIOUS
    <3>2. PICK j \in DOMAIN holds[w2] : e = holds[w2][j].id
      OBVIOUS
    <3> QED
      BY <2>2, <3>1, <3>2 DEF Apart
  <2> HIDE DEF Of
  <2> QED
    BY <2>1, <2>2 DEF Apart, AllProcessing
<1>2. ClaimsExclusive <=> Exclusive(event, claimed)
  BY DEF ClaimsExclusive, Claims
<1>3. ClaimsExclusive' <=> Exclusive(event', claimed')
  BY DEF ClaimsExclusive, Claims
<1> HIDE DEF Exclusive
<1> QED
  BY <1>1, <1>2, <1>3

\* In the initial state there is no row and no claim.
LEMMA OutboxInit == Init => OutboxInv
<1> SUFFICES ASSUME Init PROVE OutboxInv
  OBVIOUS
<1>1. claimed = [w \in Workers |-> <<>>] /\ DOMAIN <<>> = {}
  BY DEF Init
<1>2. ClaimsExclusive
  BY <1>1 DEF ClaimsExclusive, Claims
<1>3. OutboxTypeOK
  BY OutboxAssumption, EmptySeq DEF Init, OutboxTypeOK, EventStatus
<1> QED
  BY <1>2, <1>3 DEF OutboxInv

\* A row that is put in the queue while it is PENDING and not in it: the queue
\* keeps its shape (publishEvent, and the end of a backoff).
LEMMA Queued ==
  ASSUME due \in Seq(Events), \A i, j \in DOMAIN due : due[i] = due[j] => i = j,
         \A i \in DOMAIN due : event'[due[i]] = "PENDING",
         NEW e \in Events, event'[e] = "PENDING", \A i \in DOMAIN due : due[i] # e,
         due' = Append(due, e)
  PROVE  /\ due' \in Seq(Events)
         /\ \A i \in DOMAIN due' : event'[due'[i]] = "PENDING"
         /\ \A i, j \in DOMAIN due' : due'[i] = due'[j] => i = j
<1>1. /\ DOMAIN due = 1 .. Len(due) /\ Len(due) \in Nat
      /\ due' \in Seq(Events) /\ Len(due') = Len(due) + 1
      /\ DOMAIN due' = 1 .. Len(due) + 1
      /\ \A i \in 1 .. Len(due) : due'[i] = due[i]
      /\ due'[Len(due) + 1] = e
  BY AppendProperties, LenProperties
<1>2. \A i \in DOMAIN due' : i \in DOMAIN due \/ i = Len(due) + 1
  BY <1>1
<1> QED
  BY <1>1, <1>2

\* What is inserted is a new row, PENDING and due (publishEvent).
LEMMA publishEventInv ==
  ASSUME OutboxInv, NEW e \in Events, publishEvent(e)
  PROVE  OutboxInv'
<1>0. /\ OutboxTypeOK /\ ClaimsExclusive /\ event[e] = "NONE"
      /\ event' = [event EXCEPT ![e] = "PENDING"]
      /\ due' = Append(due, e)
      /\ attempts' = attempts /\ found' = found /\ claimed' = claimed
  BY DEF OutboxInv, publishEvent
<1>1. ClaimsExclusive'
  <2>1. AllProcessing(event', claimed)
    BY <1>0, ClaimsApart DEF AllProcessing, OutboxTypeOK, Row
  <2> QED
    BY <1>0, <2>1, ClaimsApart
<1>2. /\ due' \in Seq(Events)
      /\ \A i \in DOMAIN due' : event'[due'[i]] = "PENDING"
      /\ \A i, j \in DOMAIN due' : due'[i] = due'[j] => i = j
  <2>1. event'[e] = "PENDING" /\ \A i \in DOMAIN due : due[i] # e /\ event'[due[i]] = "PENDING"
    BY <1>0, LenProperties, ElementOfSeq DEF OutboxTypeOK
  <2> QED
    BY <1>0, <2>1, Queued DEF OutboxTypeOK
<1>3. OutboxTypeOK'
  BY <1>0, <1>2 DEF OutboxTypeOK, EventStatus
<1> QED
  BY <1>1, <1>3 DEF OutboxInv

\* The backoff of a row that is not due ends.
LEMMA BackoffEndsInv ==
  ASSUME OutboxInv, NEW e \in Events, BackoffEnds(e)
  PROVE  OutboxInv'
<1>0. /\ OutboxTypeOK /\ ClaimsExclusive /\ event[e] = "PENDING" /\ ~ Contains(due, e)
      /\ due' = Append(due, e)
      /\ event' = event /\ attempts' = attempts /\ found' = found /\ claimed' = claimed
  BY DEF OutboxInv, BackoffEnds
<1>1. ClaimsExclusive'
  BY <1>0, ClaimsApart
<1>2. /\ due' \in Seq(Events)
      /\ \A i \in DOMAIN due' : event'[due'[i]] = "PENDING"
      /\ \A i, j \in DOMAIN due' : due'[i] = due'[j] => i = j
  <2>1. \A i \in DOMAIN due : due[i] # e
    BY <1>0, LenProperties DEF Contains, OutboxTypeOK
  <2> QED
    BY <1>0, <2>1, Queued DEF OutboxTypeOK
<1>3. OutboxTypeOK'
  BY <1>0, <1>2 DEF OutboxTypeOK
<1> QED
  BY <1>1, <1>3 DEF OutboxInv

\* The batch that is read is of rows that have an attempt left (tick).
LEMMA tickInv ==
  ASSUME OutboxInv, NEW w \in Workers, tick(w)
  PROVE  OutboxInv'
<1>0. /\ OutboxTypeOK /\ ClaimsExclusive
      /\ event' = event /\ attempts' = attempts /\ due' = due /\ claimed' = claimed
  BY DEF OutboxInv, tick
<1>1. ClaimsExclusive'
  BY <1>0, ClaimsApart
<1> DEFINE n == IF Len(due) < BatchSize THEN Len(due) ELSE BatchSize
           batch == [i \in DOMAIN FirstDue |-> [id |-> FirstDue[i], attempts |-> attempts[FirstDue[i]]]]
<1>2. n \in Nat /\ n <= Len(due) /\ Len(due) \in Nat /\ DOMAIN due = 1 .. Len(due)
  BY <1>0, OutboxAssumption, LenProperties DEF OutboxTypeOK
<1>3. DOMAIN FirstDue = 1 .. n /\ \A i \in 1 .. n : FirstDue[i] = due[i]
  <2>1. FirstDue = SubSeq(due, 1, n)
    BY DEF FirstDue
  <2> HIDE DEF n
  <2>2. \A i \in 1 .. n : due[i] \in Events
    BY <1>0, <1>2, ElementOfSeq DEF OutboxTypeOK
  <2>3. /\ FirstDue \in Seq(Events)
        /\ Len(FirstDue) = IF 1 <= n THEN n - 1 + 1 ELSE 0
        /\ \A i \in 1 .. n - 1 + 1 : FirstDue[i] = due[1 + i - 1]
    BY <1>2, <2>1, <2>2, 1 \in Int, n \in Int, SubSeqProperties
  <2>4. n - 1 + 1 = n /\ Len(FirstDue) = n /\ \A i \in Int : 1 + i - 1 = i
    BY <1>2, <2>3
  <2> QED
    BY <1>2, <2>3, <2>4, LenProperties
<1>4. batch \in Seq(Row)
  <2> HIDE DEF n
  <2>1. ASSUME NEW i \in 1 .. n
        PROVE  [id |-> FirstDue[i], attempts |-> attempts[FirstDue[i]]] \in Row
    <3>1. i \in 1 .. Len(due) /\ due \in Seq(Events)
      BY <1>0, <1>2 DEF OutboxTypeOK
    <3>2. due[i] \in Events /\ event[due[i]] = "PENDING"
      BY <1>0, <1>2, <3>1, ElementOfSeq DEF OutboxTypeOK
    <3>3. attempts[due[i]] \in 0 .. MaxAttempts - 1
      BY <1>0, <3>2, OutboxAssumption DEF OutboxTypeOK
    <3> QED
      BY <1>3, <3>2, <3>3 DEF Row
  <2>2. batch \in [1 .. n -> Row]
    BY <1>3, <2>1
  <2> QED
    BY <1>2, <2>2, SeqDef
<1>5. found' = [found EXCEPT ![w] = batch]
  BY DEF tick
<1>6. found' \in [Workers -> Seq(Row)]
  <2> HIDE DEF batch
  <2> QED
    BY <1>0, <1>4, <1>5 DEF OutboxTypeOK
<1>7. OutboxTypeOK'
  BY <1>0, <1>6 DEF OutboxTypeOK
<1> QED
  BY <1>1, <1>7 DEF OutboxInv

\* What workers hold are rows of events.
LEMMA RowsOfEvents ==
  ASSUME NEW holds \in [Workers -> Seq(Row)], NEW w \in Workers, NEW i \in DOMAIN holds[w]
  PROVE  holds[w][i] \in Row /\ holds[w][i].id \in Events
<1>1. holds[w] \in Seq(Row)
  OBVIOUS
<1>2. holds[w][i] \in Row
  BY <1>1, LenProperties, ElementOfSeq
<1> QED
  BY <1>2 DEF Row

\* The rows a worker holds once the head of them is taken off: those it held
\* from the second on.
LEMMA HeadOff ==
  ASSUME OutboxInv, NEW w \in Workers, NEW e \in Events, Handling(w, e),
         claimed' = [claimed EXCEPT ![w] = Tail(@)]
  PROVE  /\ claimed' \in [Workers -> Seq(Row)]
         /\ Apart(claimed')
         /\ event[e] = "PROCESSING"
         /\ Head(claimed[w]) \in Row
         /\ \A v \in Workers : \A i \in DOMAIN claimed'[v] :
              claimed'[v][i].id # e /\ event[claimed'[v][i].id] = "PROCESSING"
<1>0. /\ claimed \in [Workers -> Seq(Row)] /\ Apart(claimed) /\ AllProcessing(event, claimed)
      /\ claimed[w] \in Seq(Row) /\ claimed[w] # <<>> /\ Head(claimed[w]).id = e
  BY ClaimsApart DEF OutboxInv, OutboxTypeOK, Handling
<1> DEFINE rest == Tail(claimed[w])
<1>1. /\ Len(claimed[w]) \in Nat /\ DOMAIN claimed[w] = 1 .. Len(claimed[w])
      /\ 1 \in DOMAIN claimed[w] /\ claimed[w][1].id = e
      /\ rest \in Seq(Row) /\ Head(claimed[w]) \in Row
  BY <1>0, LenProperties, EmptySeq, HeadTailProperties
<1>2. /\ DOMAIN rest = 1 .. Len(claimed[w]) - 1
      /\ \A i \in 1 .. Len(claimed[w]) - 1 : rest[i] = claimed[w][i + 1]
  BY <1>0, <1>1, LenProperties, HeadTailProperties
<1>3. \A i \in DOMAIN rest : i + 1 \in DOMAIN claimed[w] /\ i + 1 # 1 /\ rest[i] = claimed[w][i + 1]
  BY <1>1, <1>2
<1>4. /\ claimed' \in [Workers -> Seq(Row)] /\ claimed'[w] = rest
      /\ \A v \in Workers \ {w} : claimed'[v] = claimed[v]
  BY <1>0, <1>1
<1> HIDE DEF rest
<1>5. ASSUME NEW v \in Workers, NEW i \in DOMAIN claimed'[v]
      PROVE  \E j \in DOMAIN claimed[v] :
               /\ claimed'[v][i] = claimed[v][j]
               /\ j = IF v = w THEN i + 1 ELSE i
               /\ v = w => j # 1
  BY <1>3, <1>4
<1>6. Apart(claimed')
  <2> SUFFICES ASSUME NEW w1 \in Workers, NEW w2 \in Workers,
                      NEW i \in DOMAIN claimed'[w1], NEW j \in DOMAIN claimed'[w2],
                      claimed'[w1][i].id = claimed'[w2][j].id
               PROVE  w1 = w2 /\ i = j
    BY DEF Apart
  <2>1. PICK k \in DOMAIN claimed[w1] :
          claimed'[w1][i] = claimed[w1][k] /\ k = IF w1 = w THEN i + 1 ELSE i
    BY <1>5
  <2>2. PICK l \in DOMAIN claimed[w2] :
          claimed'[w2][j] = claimed[w2][l] /\ l = IF w2 = w THEN j + 1 ELSE j
    BY <1>5
  <2>3. w1 = w2 /\ k = l
    BY <1>0, <2>1, <2>2 DEF Apart
  <2>4. CASE w1 = w
    <3>1. i + 1 = j + 1 /\ i \in DOMAIN rest /\ j \in DOMAIN rest
      BY <1>4, <2>1, <2>2, <2>3, <2>4
    <3> QED
      BY <1>1, <1>2, <2>3, <3>1
  <2>5. CASE w1 # w
    BY <2>1, <2>2, <2>3, <2>5
  <2> QED
    BY <2>4, <2>5
<1>7. ASSUME NEW v \in Workers, NEW i \in DOMAIN claimed'[v]
      PROVE  claimed'[v][i].id # e /\ event[claimed'[v][i].id] = "PROCESSING"
  <2>1. PICK k \in DOMAIN claimed[v] : claimed'[v][i] = claimed[v][k] /\ (v = w => k # 1)
    BY <1>5
  <2> QED
    BY <1>0, <1>1, <2>1 DEF Apart, AllProcessing
<1> QED
  BY <1>0, <1>1, <1>4, <1>6, <1>7 DEF AllProcessing

\* The row a worker is done with was PROCESSING, so it is not due, and goes on to
\* a status of its own (processClaimedEvent).
LEMMA handlerEndsInv ==
  ASSUME OutboxInv, NEW w \in Workers, NEW e \in Events, Handling(w, e),
         NEW status \in EventStatus, NEW tries \in 0 .. MaxAttempts,
         event' = [event EXCEPT ![e] = status],
         attempts' = [attempts EXCEPT ![e] = tries],
         status = "FAILED" => tries = MaxAttempts,
         status \in {"NONE", "PENDING"} => tries < MaxAttempts,
         claimed' = [claimed EXCEPT ![w] = Tail(@)],
         UNCHANGED <<due, found>>
  PROVE  OutboxInv'
<1>0. OutboxTypeOK /\ due' = due /\ found' = found
  BY DEF OutboxInv
<1>1. /\ claimed' \in [Workers -> Seq(Row)] /\ Apart(claimed') /\ event[e] = "PROCESSING"
      /\ \A v \in Workers : \A i \in DOMAIN claimed'[v] :
           claimed'[v][i].id # e /\ event[claimed'[v][i].id] = "PROCESSING"
  BY HeadOff
<1>2. AllProcessing(event', claimed')
  <2> SUFFICES ASSUME NEW v \in Workers, NEW i \in DOMAIN claimed'[v]
               PROVE  event'[claimed'[v][i].id] = "PROCESSING"
    BY DEF AllProcessing
  <2>1. claimed'[v][i].id \in Events
    BY <1>1, RowsOfEvents
  <2> QED
    BY <1>0, <1>1, <2>1 DEF OutboxTypeOK
<1>3. OutboxTypeOK'
  <2>1. \A i \in DOMAIN due : due[i] \in Events /\ due[i] # e /\ event'[due[i]] = "PENDING"
    BY <1>0, <1>1, LenProperties, ElementOfSeq DEF OutboxTypeOK
  <2>2. /\ event' \in [Events -> EventStatus] /\ attempts' \in [Events -> 0 .. MaxAttempts]
        /\ event'[e] = status /\ attempts'[e] = tries
        /\ \A d \in Events \ {e} : event'[d] = event[d] /\ attempts'[d] = attempts[d]
    BY <1>0 DEF OutboxTypeOK
  <2> QED
    BY <1>0, <1>1, <2>1, <2>2 DEF OutboxTypeOK
<1> QED
  BY <1>1, <1>2, <1>3, ClaimsApart DEF OutboxInv

\* A row is claimed only while it is PENDING, so nobody holds it (claimPendingEvents).
LEMMA claimNextInv ==
  ASSUME OutboxInv, NEW w \in Workers, claimNext(w)
  PROVE  OutboxInv'
<1>0. /\ OutboxTypeOK /\ ClaimsExclusive /\ found[w] \in Seq(Row) /\ found[w] # <<>>
      /\ attempts' = attempts /\ found' = [found EXCEPT ![w] = Tail(@)]
  BY DEF OutboxInv, OutboxTypeOK, claimNext
<1> DEFINE row == Head(found[w])
           e == row.id
<1>1. row \in Row /\ e \in Events /\ found' \in [Workers -> Seq(Row)]
  <2>1. row \in Row /\ Tail(found[w]) \in Seq(Row)
    BY <1>0, HeadTailProperties
  <2>2. e \in Events
    BY <2>1 DEF Row
  <2>3. found \in [Workers -> Seq(Row)]
    BY <1>0 DEF OutboxTypeOK
  <2> QED
    BY <1>0, <2>1, <2>2, <2>3
<1> HIDE DEF row
<1>2. CASE event[e] # "PENDING" /\ UNCHANGED <<event, due, claimed>>
  BY <1>0, <1>1, <1>2, ClaimsApart DEF OutboxInv, OutboxTypeOK
<1>3. CASE /\ event[e] = "PENDING"
           /\ event' = [event EXCEPT ![e] = "PROCESSING"]
           /\ due' = RemoveFirst(due, e)
           /\ claimed' = [claimed EXCEPT ![w] = Append(@, row)]
  <2>1. /\ due' \in Seq(Events)
        /\ \A i \in DOMAIN due' : due'[i] # e /\ \E j \in DOMAIN due : due[j] = due'[i]
        /\ \A i, j \in DOMAIN due' : due'[i] = due'[j] => i = j
    <3>1. due \in Seq(Events) /\ \A i, j \in DOMAIN due : due[i] = due[j] => i = j
      BY <1>0 DEF OutboxTypeOK
    <3>2. /\ RemoveFirst(due, e) \in Seq(Events)
          /\ \A i \in DOMAIN RemoveFirst(due, e) :
               /\ RemoveFirst(due, e)[i] # e
               /\ \E j \in DOMAIN due : due[j] = RemoveFirst(due, e)[i]
          /\ \A i, j \in DOMAIN RemoveFirst(due, e) :
               RemoveFirst(due, e)[i] = RemoveFirst(due, e)[j] => i = j
      BY <3>1, RemoveFirstOnce
    <3> QED
      BY <1>3, <3>2
  <2>2. \A i \in DOMAIN due' : event'[due'[i]] = "PENDING"
    BY <1>0, <1>1, <1>3, <2>1, LenProperties, ElementOfSeq DEF OutboxTypeOK
  <2>3. /\ claimed \in [Workers -> Seq(Row)] /\ claimed[w] \in Seq(Row)
        /\ Apart(claimed) /\ AllProcessing(event, claimed)
    BY <1>0, ClaimsApart DEF OutboxTypeOK
  <2>4. /\ DOMAIN claimed[w] = 1 .. Len(claimed[w]) /\ Len(claimed[w]) \in Nat
        /\ claimed' \in [Workers -> Seq(Row)]
        /\ DOMAIN claimed'[w] = 1 .. Len(claimed[w]) + 1
        /\ \A i \in 1 .. Len(claimed[w]) : claimed'[w][i] = claimed[w][i]
        /\ claimed'[w][Len(claimed[w]) + 1] = row
        /\ \A v \in Workers \ {w} : claimed'[v] = claimed[v]
    <3>1. /\ Append(claimed[w], row) \in Seq(Row)
          /\ Len(Append(claimed[w], row)) = Len(claimed[w]) + 1
          /\ \A i \in 1 .. Len(claimed[w]) : Append(claimed[w], row)[i] = claimed[w][i]
          /\ Append(claimed[w], row)[Len(claimed[w]) + 1] = row
      BY <1>1, <2>3, AppendProperties
    <3>2. /\ claimed' \in [Workers -> Seq(Row)] /\ claimed'[w] = Append(claimed[w], row)
          /\ \A v \in Workers \ {w} : claimed'[v] = claimed[v]
      BY <1>3, <2>3, <3>1
    <3> QED
      BY <2>3, <3>1, <3>2, LenProperties
  <2>5. ASSUME NEW v \in Workers, NEW i \in DOMAIN claimed'[v]
        PROVE  \/ i \in DOMAIN claimed[v] /\ claimed'[v][i] = claimed[v][i]
               \/ v = w /\ i = Len(claimed[w]) + 1 /\ claimed'[v][i] = row
    <3>1. CASE v # w
      BY <2>4, <3>1
    <3>2. CASE v = w
      <4>1. i \in 1 .. Len(claimed[w]) \/ i = Len(claimed[w]) + 1
        BY <2>4, <3>2
      <4> QED
        BY <2>4, <3>2, <4>1
    <3> QED
      BY <3>1, <3>2
  <2>6. \A v \in Workers : \A i \in DOMAIN claimed[v] :
          claimed[v][i].id \in Events /\ claimed[v][i].id # e
    <3>1. \A v \in Workers : \A i \in DOMAIN claimed[v] : claimed[v][i].id \in Events
      BY <2>3, RowsOfEvents
    <3> QED
      BY <1>3, <2>3, <3>1 DEF AllProcessing
  <2>7. Apart(claimed')
    <3> SUFFICES ASSUME NEW w1 \in Workers, NEW w2 \in Workers,
                        NEW i \in DOMAIN claimed'[w1], NEW j \in DOMAIN claimed'[w2],
                        claimed'[w1][i].id = claimed'[w2][j].id
                 PROVE  w1 = w2 /\ i = j
      BY DEF Apart
    <3>1. CASE i \in DOMAIN claimed[w1] /\ claimed'[w1][i] = claimed[w1][i]
      BY <2>3, <2>5, <2>6, <3>1 DEF Apart
    <3>2. CASE w1 = w /\ i = Len(claimed[w]) + 1 /\ claimed'[w1][i] = row
      BY <2>5, <2>6, <3>2
    <3> QED
      BY <2>5, <3>1, <3>2
  <2>8. AllProcessing(event', claimed')
    <3>1. \A v \in Workers : \A i \in DOMAIN claimed[v] : event'[claimed[v][i].id] = "PROCESSING"
      BY <1>0, <1>3, <2>3, <2>6 DEF OutboxTypeOK, AllProcessing
    <3>2. event'[e] = "PROCESSING"
      BY <1>0, <1>1, <1>3 DEF OutboxTypeOK
    <3> QED
      BY <2>5, <3>1, <3>2 DEF AllProcessing
  <2>9. OutboxTypeOK'
    BY <1>0, <1>1, <1>3, <2>1, <2>2, <2>4 DEF OutboxTypeOK, EventStatus
  <2> QED
    BY <2>7, <2>8, <2>9, ClaimsApart DEF OutboxInv
<1> QED
  BY <1>2, <1>3 DEF claimNext, row

\* The row in a handler is PROCESSING (claimPendingEvents).
LEMMA HandledProcessing ==
  ASSUME OutboxInv, NEW w \in Workers, NEW e, Handling(w, e)
  PROVE  e \in Events /\ event[e] = "PROCESSING"
<1>1. /\ AllProcessing(event, claimed) /\ claimed \in [Workers -> Seq(Row)]
      /\ claimed[w] \in Seq(Row) /\ claimed[w] # <<>> /\ Head(claimed[w]).id = e
  BY ClaimsApart DEF OutboxInv, OutboxTypeOK, Handling
<1>2. 1 \in DOMAIN claimed[w] /\ claimed[w][1].id = e
  BY <1>1, EmptySeq, LenProperties
<1> QED
  BY <1>1, <1>2, RowsOfEvents DEF AllProcessing

\* The handler returned: PROCESSED, its attempts as they were.
LEMMA handlerReturnedInv ==
  ASSUME OutboxInv, NEW w \in Workers, handlerReturned(w)
  PROVE  OutboxInv'
<1>1. PICK e \in Events :
        /\ Handling(w, e) /\ event' = [event EXCEPT ![e] = "PROCESSED"]
        /\ claimed' = [claimed EXCEPT ![w] = Tail(@)]
        /\ UNCHANGED <<attempts, due, found>>
  BY DEF handlerReturned
<1>2. /\ attempts[e] \in 0 .. MaxAttempts
      /\ attempts' = [attempts EXCEPT ![e] = attempts[e]]
  BY <1>1 DEF OutboxInv, OutboxTypeOK
<1>3. "PROCESSED" \in EventStatus
  BY DEF EventStatus
<1> QED
  BY <1>1, <1>2, <1>3, handlerEndsInv

\* The handler threw: the attempts that were read had one left.
LEMMA handlerThrewInv ==
  ASSUME OutboxInv, NEW w \in Workers, handlerThrew(w)
  PROVE  OutboxInv'
<1> DEFINE tries == Head(claimed[w]).attempts + 1
           status == IF tries >= MaxAttempts THEN "FAILED" ELSE "PENDING"
<1>1. PICK e \in Events :
        /\ Handling(w, e)
        /\ event' = [event EXCEPT ![e] = status]
        /\ attempts' = [attempts EXCEPT ![e] = tries]
        /\ claimed' = [claimed EXCEPT ![w] = Tail(@)]
        /\ UNCHANGED <<due, found>>
  BY DEF handlerThrew
<1>2. Head(claimed[w]) \in Row
  BY <1>1, HeadOff
<1>3. tries \in 1 .. MaxAttempts
  BY <1>2, OutboxAssumption DEF Row
<1> HIDE DEF tries
<1>4. status \in EventStatus /\ (status = "FAILED" => tries = MaxAttempts)
      /\ (status \in {"NONE", "PENDING"} => tries < MaxAttempts)
      /\ tries \in 0 .. MaxAttempts
  BY <1>3, OutboxAssumption DEF EventStatus
<1> HIDE DEF status
<1> QED
  BY <1>1, <1>4, handlerEndsInv

\* A worker dies: it holds nothing, the rows stay PROCESSING.
LEMMA workerDiesInv ==
  ASSUME OutboxInv, NEW w \in Workers, workerDies(w)
  PROVE  OutboxInv'
<1>0. /\ OutboxTypeOK /\ Apart(claimed) /\ AllProcessing(event, claimed)
      /\ claimed \in [Workers -> Seq(Row)]
      /\ found' = [found EXCEPT ![w] = <<>>] /\ claimed' = [claimed EXCEPT ![w] = <<>>]
      /\ event' = event /\ attempts' = attempts /\ due' = due
  BY ClaimsApart DEF OutboxInv, OutboxTypeOK, workerDies
<1>1. \A v \in Workers : \A i \in DOMAIN claimed'[v] :
        i \in DOMAIN claimed[v] /\ claimed'[v][i] = claimed[v][i]
  <2>1. claimed'[w] = <<>> /\ \A v \in Workers \ {w} : claimed'[v] = claimed[v]
    BY <1>0
  <2>2. DOMAIN <<>> = {}
    OBVIOUS
  <2> QED
    BY <2>1, <2>2
<1>2. Apart(claimed') /\ AllProcessing(event', claimed')
  BY <1>0, <1>1 DEF Apart, AllProcessing
<1>3. OutboxTypeOK'
  BY <1>0, EmptySeq DEF OutboxTypeOK
<1> QED
  BY <1>2, <1>3, ClaimsApart DEF OutboxInv

\* The invariant is inductive: one lemma per operation of the outbox.
LEMMA OutboxStep == OutboxInv /\ [Next]_outbox => OutboxInv'
<1> SUFFICES ASSUME OutboxInv, [Next]_outbox
             PROVE  OutboxInv'
  OBVIOUS
<1>1. ASSUME NEW e \in Events, publishEvent(e) \/ BackoffEnds(e)
      PROVE  OutboxInv'
  BY <1>1, publishEventInv, BackoffEndsInv
<1>2. ASSUME NEW w \in Workers, WorkerStep(w)
      PROVE  OutboxInv'
  BY <1>2, tickInv, claimNextInv, handlerReturnedInv, handlerThrewInv DEF WorkerStep
<1>3. ASSUME NEW w \in Workers, workerDies(w)
      PROVE  OutboxInv'
  BY <1>3, workerDiesInv
<1>4. CASE UNCHANGED outbox
  BY <1>4, ClaimsApart DEF OutboxInv, OutboxTypeOK, outbox
<1> QED
  BY <1>1, <1>2, <1>3, <1>4 DEF Next

\* A finished row is no longer PENDING, so it cannot be claimed, and nobody holds
\* it: only a row that is PENDING or in a worker's hands changes its status.
LEMMA FinishedKept == OutboxInv /\ [Next]_outbox => FinishedStaysFinished
<1> SUFFICES ASSUME OutboxInv, [Next]_outbox,
                    NEW d \in Events, event[d] \in {"PROCESSED", "FAILED"}
             PROVE  event'[d] = event[d]
  BY DEF FinishedStaysFinished
<1>0. event \in [Events -> EventStatus]
  BY DEF OutboxInv, OutboxTypeOK
<1>1. ASSUME NEW e \in Events, publishEvent(e) \/ BackoffEnds(e)
      PROVE  event'[d] = event[d]
  BY <1>0, <1>1 DEF publishEvent, BackoffEnds
<1>2. ASSUME NEW w \in Workers, NEW e \in Events, Handling(w, e)
      PROVE  e # d
  BY <1>2, HandledProcessing
<1>3. ASSUME NEW w \in Workers, WorkerStep(w)
      PROVE  event'[d] = event[d]
  <2>1. CASE tick(w)
    BY <2>1 DEF tick
  <2>2. CASE claimNext(w)
    BY <1>0, <2>2 DEF claimNext
  <2>3. CASE handlerReturned(w)
    BY <1>0, <1>2, <2>3 DEF handlerReturned
  <2>4. CASE handlerThrew(w)
    BY <1>0, <1>2, <2>4 DEF handlerThrew
  <2> QED
    BY <1>3, <2>1, <2>2, <2>3, <2>4 DEF WorkerStep
<1>4. ASSUME NEW w \in Workers, workerDies(w)
      PROVE  event'[d] = event[d]
  BY <1>4 DEF workerDies
<1> QED
  BY <1>1, <1>3, <1>4 DEF Next, outbox

\* Every state of the outbox satisfies the invariant.
LEMMA OutboxInvAlways == Spec => []OutboxInv
BY OutboxInit, OutboxStep, PTL DEF Spec

\* The rows keep their types: one that waits has an attempt left and is at one
\* place of the queue, one given up has none (outbox_events).
THEOREM OutboxTypeCorrect == Spec => []OutboxTypeOK
<1>1. OutboxInv => OutboxTypeOK
  BY DEF OutboxInv
<1> QED
  BY <1>1, OutboxInvAlways, PTL

\* However many workers poll, die and read old batches, an event is in the hands
\* of one of them at a time and of none once it is done with (claimPendingEvents).
THEOREM EventHandledByOne == Spec => HandledByOne
<1>1. OutboxInv /\ OutboxInv' /\ [Next]_outbox => ClaimsExclusive' /\ FinishedStaysFinished
  BY FinishedKept DEF OutboxInv
<1> QED
  BY <1>1, OutboxInvAlways, PTL DEF Spec, HandledByOne
=============================================================================
