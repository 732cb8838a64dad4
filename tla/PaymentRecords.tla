---------------------------- MODULE PaymentRecords ----------------------------
(***************************************************************************)
(* The payment service: the payments table, the handlers that change it,   *)
(* the payment provider's orders, and the webhooks it sends until they are *)
(* answered.  A handler is a transaction that reads a row and, unless the  *)
(* policy forbids the change, saves the whole row as it read it, changed;  *)
(* the table has no version column.                                        *)
(***************************************************************************)
EXTENDS Naturals, FiniteSets

CONSTANTS
  Payments,    \* payment ids
  Handlers     \* requests handled at the same time

VARIABLES
  row,       \* the payments table
  orders,    \* orders created at the provider
  captured,  \* orders whose money was captured
  webhooks,  \* webhooks to be delivered, in any order
  handler    \* per handler: the change it is about to save, or NoChange

paymentVars == <<row, orders, captured, webhooks, handler>>

PaymentStatus == {"NONE", "INITIATED", "SUCCESS", "FAILED", "REFUNDED"}
Kinds == {"captured", "failed"}
Webhook == [payment : Payments, kind : Kinds]

\* reference: whether providerReference names a mock result or the provider's payment.
PaymentRow == [status : PaymentStatus, order : BOOLEAN, gatewayStatus : {"none", "created"} \cup Kinds,
        reference : {"none", "mock", "gateway"}, failureReason : BOOLEAN]

NoPayment == [status |-> "NONE", order |-> FALSE, gatewayStatus |-> "none",
          reference |-> "none", failureReason |-> FALSE]
Changes == {"markSuccess", "markFailure", "verify", "webhookCaptured", "webhookFailed"}
NoChange == [change |-> "none"]
Change == [change : Changes, payment : Payments, seen : PaymentRow]

PaymentTypeOK ==
  /\ row \in [Payments -> PaymentRow]
  /\ orders \subseteq Payments
  /\ captured \subseteq orders
  /\ webhooks \subseteq Webhook
  /\ handler \in [Handlers -> Change \cup {NoChange}]
  /\ \A p \in Payments : row[p].status = "FAILED" <=> row[p].failureReason

PaymentInit ==
  /\ row = [p \in Payments |-> NoPayment]
  /\ orders = {}
  /\ captured = {}
  /\ webhooks = {}
  /\ handler = [h \in Handlers |-> NoChange]

\* Fault: the first save is committed by itself.
createInitiatedPaymentUntied(p) ==
  /\ row[p].status = "NONE"
  /\ \/ /\ orders' = orders \cup {p}
        /\ row' = [row EXCEPT ![p] = [NoPayment EXCEPT !.status = "INITIATED", !.order = TRUE,
                                                    !.gatewayStatus = "created"]]
     \/ /\ row' = [row EXCEPT ![p] = [NoPayment EXCEPT !.status = "INITIATED"]]
        /\ UNCHANGED orders
  /\ UNCHANGED <<captured, webhooks, handler>>

\* The row and the order: if the provider or the commit fails, no row is left,
\* although the provider may have the order.
createInitiatedPayment(p) ==
  /\ row[p].status = "NONE" /\ p \notin orders
  /\ orders' = orders \cup {p}
  /\ \/ row' = [row EXCEPT ![p] = [NoPayment EXCEPT !.status = "INITIATED", !.order = TRUE,
                                                 !.gatewayStatus = "created"]]
     \/ UNCHANGED row
  /\ UNCHANGED <<captured, webhooks, handler>>

\* The customer pays the order, or an attempt to pay it fails; the provider tells.
Capture(p) ==
  /\ p \in orders \ captured
  /\ row[p].order
  /\ captured' = captured \cup {p}
  /\ webhooks' = webhooks \cup {[payment |-> p, kind |-> "captured"]}
  /\ UNCHANGED <<row, orders, handler>>

AttemptFails(p) ==
  /\ p \in orders \ captured
  /\ row[p].order
  /\ webhooks' = webhooks \cup {[payment |-> p, kind |-> "failed"]}
  /\ UNCHANGED <<row, orders, captured, handler>>

-----------------------------------------------------------------------------
(* PaymentStatusPolicy, on the row that was read.                          *)

isSuccessIdempotent(r) == r.status = "SUCCESS"
isFailureIdempotent(r) == r.status = "FAILED"
CanMarkSuccess(r) == r.status = "INITIATED"

\* Fault: SUCCESS does not forbid the change.
CanMarkFailureOfSuccess(r) == r.status \in {"INITIATED", "SUCCESS"}

CanMarkFailure(r) == r.status = "INITIATED"

\* Handler h reads the row, and will save a change to it.
Read(h, p, change) ==
  /\ handler[h] = NoChange
  /\ handler' = [handler EXCEPT ![h] = [change |-> change, payment |-> p, seen |-> row[p]]]

markSuccess(h, p) ==
  /\ CanMarkSuccess(row[p])
  /\ Read(h, p, "markSuccess")
  /\ UNCHANGED <<row, orders, captured, webhooks>>

markFailure(h, p) ==
  /\ CanMarkFailure(row[p])
  /\ Read(h, p, "markFailure")
  /\ UNCHANGED <<row, orders, captured, webhooks>>

\* Fault: the signature is not verified.
verifyUnsigned(h, p) ==
  /\ row[p].order
  /\ CanMarkSuccess(row[p])
  /\ Read(h, p, "verify")
  /\ UNCHANGED <<row, orders, captured, webhooks>>

\* The signature the customer brings is made by the provider for a captured order.
verify(h, p) ==
  /\ row[p].order
  /\ CanMarkSuccess(row[p])
  /\ p \in captured
  /\ Read(h, p, "verify")
  /\ UNCHANGED <<row, orders, captured, webhooks>>

\* What an answered webhook leaves: the answer may be lost, and it comes again.
Answered(w) == webhooks' \in {webhooks, webhooks \ {w}}

\* "processed" for a repetition, "ignored" for a change the policy forbids.
webhookWithoutEffect(w) ==
  /\ w \in webhooks
  /\ LET r == row[w.payment] IN
       IF w.kind = "captured" THEN isSuccessIdempotent(r) \/ ~ CanMarkSuccess(r)
                              ELSE isFailureIdempotent(r) \/ ~ CanMarkFailure(r)
  /\ Answered(w)
  /\ UNCHANGED <<row, orders, captured, handler>>

\* Fault: a captured payment waits for the customer's verification.
applyWebhookCapturedVerified(h, w) ==
  /\ w \in webhooks /\ w.kind = "captured"
  /\ CanMarkSuccess(row[w.payment]) /\ row[w.payment].gatewayStatus = "captured"
  /\ Read(h, w.payment, "webhookCaptured")
  /\ UNCHANGED <<row, orders, captured, webhooks>>

applyWebhookCaptured(h, w) ==
  /\ w \in webhooks /\ w.kind = "captured"
  /\ CanMarkSuccess(row[w.payment])
  /\ Read(h, w.payment, "webhookCaptured")
  /\ UNCHANGED <<row, orders, captured, webhooks>>

applyWebhookFailed(h, w) ==
  /\ w \in webhooks /\ w.kind = "failed"
  /\ CanMarkFailure(row[w.payment])
  /\ Read(h, w.payment, "webhookFailed")
  /\ UNCHANGED <<row, orders, captured, webhooks>>

\* The columns a change sets in the row that was read.
Changed(change, r) ==
  CASE change = "markSuccess" ->
         [r EXCEPT !.status = "SUCCESS", !.reference = "mock", !.failureReason = FALSE]
    [] change = "markFailure" ->
         [r EXCEPT !.status = "FAILED", !.failureReason = TRUE]
    [] change \in {"verify", "webhookCaptured"} ->
         [r EXCEPT !.status = "SUCCESS", !.gatewayStatus = "captured",
                   !.reference = "gateway", !.failureReason = FALSE]
    [] change = "webhookFailed" ->
         [r EXCEPT !.status = "FAILED", !.gatewayStatus = "failed",
                   !.reference = "gateway", !.failureReason = TRUE]

\* The whole row is written, whatever it holds by now.
save(h) ==
  /\ handler[h] # NoChange
  /\ LET j == handler[h] IN
       /\ row' = [row EXCEPT ![j.payment] = Changed(j.change, j.seen)]
       /\ CASE j.change = "webhookCaptured" -> Answered([payment |-> j.payment, kind |-> "captured"])
            [] j.change = "webhookFailed" -> Answered([payment |-> j.payment, kind |-> "failed"])
            [] OTHER -> UNCHANGED webhooks
  /\ handler' = [handler EXCEPT ![h] = NoChange]
  /\ UNCHANGED <<orders, captured>>

\* The transaction is rolled back; the provider sends a webhook again.
Rollback(h) ==
  /\ handler[h] # NoChange
  /\ handler' = [handler EXCEPT ![h] = NoChange]
  /\ UNCHANGED <<row, orders, captured, webhooks>>

PaymentNext ==
  \/ \E p \in Payments :
       \/ createInitiatedPayment(p) \/ Capture(p) \/ AttemptFails(p)
       \/ \E h \in Handlers : markSuccess(h, p) \/ markFailure(h, p) \/ verify(h, p)
  \/ \E w \in Webhook :
       \/ webhookWithoutEffect(w)
       \/ \E h \in Handlers : applyWebhookCaptured(h, w) \/ applyWebhookFailed(h, w)
  \/ \E h \in Handlers : save(h) \/ Rollback(h)

\* The provider sends a webhook until it is answered; handlers run to their end,
\* and are not rolled back forever.
PaymentFairness ==
  /\ <>[][\A h \in Handlers : ~ Rollback(h)]_paymentVars
  /\ \A h \in Handlers : WF_paymentVars(save(h))
  /\ \A w \in Webhook : SF_paymentVars(\E h \in Handlers : applyWebhookCaptured(h, w))

PaymentSpec == PaymentInit /\ [][PaymentNext]_paymentVars /\ PaymentFairness
-----------------------------------------------------------------------------
\* A payment shown as paid through the provider was captured, whatever webhooks come
\* late, twice or out of order (verify, applyWebhookCaptured).
SuccessWasCaptured ==
  \A p \in Payments :
    row[p].status = "SUCCESS" /\ row[p].reference = "gateway" => p \in captured

\* A row has its order from the first moment anybody sees it: without one it could
\* never be paid (createInitiatedPayment, @Transactional).
PayableFromTheStart ==
  \A p \in Payments : row[p].status # "NONE" => row[p].order /\ p \in orders

\* What a row says of its payment is true of the provider: neither can be paid for
\* without the other.
RowsTellTheTruth == SuccessWasCaptured /\ PayableFromTheStart

\* A final status is only overwritten by a handler that read the row before it
\* became final; one that reads it later leaves it alone (PaymentStatusPolicy).
FinalUnlessOverlapped ==
  [][\A p \in Payments :
       row[p].status \in {"SUCCESS", "FAILED"} /\ row'[p] # row[p] =>
         \E h \in Handlers :
           /\ handler[h] # NoChange /\ handler'[h] = NoChange
           /\ handler[h].payment = p /\ handler[h].seen.status = "INITIATED"]_paymentVars

\* A captured payment does not stay INITIATED, even if the customer never comes
\* back to verify it (handleRazorpayWebhook).
CapturedSettles ==
  \A p \in Payments : p \in captured ~> row[p].status \in {"SUCCESS", "FAILED"}

\* README of the payment service, payment rules: "`SUCCESS` payment cannot be marked
\* `FAILED`".
SuccessStays ==
  [][\A p \in Payments : row[p].status = "SUCCESS" => row'[p].status = "SUCCESS"]_paymentVars
=============================================================================
