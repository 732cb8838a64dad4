------------------------------- MODULE Checkout -------------------------------
(***************************************************************************)
(* Paying on the payments page of the web frontend: the health check of the *)
(* payment service, the provider's script, its checkout window over the    *)
(* page, and the verification of what the customer brings back.  Pay Now   *)
(* can be pressed for another payment while the script loads, the page can *)
(* be left and opened again, and the tab reloaded.                         *)
(***************************************************************************)
EXTENDS Naturals, FiniteSets

CONSTANTS
    Receipts,   \* payments with an order at the provider, all INITIATED at first
    MaxPays     \* bound: how often Pay Now is pressed

ASSUME CheckoutAssumption == MaxPays \in Nat

VARIABLES
    settled,    \* the payment service: the status of each payment
    paid,       \* the provider: orders whose money was captured
    declined,   \* the provider: orders with an attempt that failed
    listed,     \* the cached list: the status each payment is shown with
    pays,       \* handlePayNow under way: [nr, payment, at, mounted, overlapped]
    payClicks,  \* how often Pay Now was pressed
    payingPaymentId, isCheckingPaymentHealth,
    verifying,  \* the last verification the page started, 0 for none
    script,     \* the provider's script in this tab
    thanked,    \* history: payments the customer was told are completed
    unlisted    \* history: of those, the ones the list was not fetched again for

checkoutVars == <<settled, paid, declined, listed, pays, payClicks, payingPaymentId,
                  isCheckingPaymentHealth, verifying, script, thanked, unlisted>>

NoReceipt == "none"

CheckoutInit ==
    /\ settled = [p \in Receipts |-> "INITIATED"]
    /\ paid = {} /\ declined = {}
    /\ listed = settled
    /\ pays = {} /\ payClicks = 0
    /\ payingPaymentId = NoReceipt
    /\ isCheckingPaymentHealth = FALSE
    /\ verifying = 0
    /\ script = "absent"
    /\ thanked = {} /\ unlisted = {}

canShowPayNow(p) == listed[p] = "INITIATED"

\* isPending of the mutation: the one started last.
verifyIsPending == \E f \in pays : f.nr = verifying

\* The provider's window is in front of the page.
windowOpen == \E f \in pays : f.at = "window"

\* Fault: the button of the payment that is being paid can be pressed again.
payNowEnabledAlways(p) == ~ (verifyIsPending \/ isCheckingPaymentHealth)

payNowEnabled(p) == ~ (payingPaymentId = p \/ verifyIsPending \/ isCheckingPaymentHealth)

PayNowOffered(p) == canShowPayNow(p) /\ payNowEnabled(p) /\ ~ windowOpen

\* The state hooks of a page that was left keep what they say to themselves.
setPayingPaymentId(f, id) == payingPaymentId' = IF f.mounted THEN id ELSE payingPaymentId

Ends(f) == pays' = pays \ {f}
Continues(f, at) == pays' = (pays \ {f}) \union {[f EXCEPT !.at = at]}

(***************************************************************************)
(* handlePayNow and openRazorpayCheckout.                                  *)
(***************************************************************************)
handlePayNow(p) ==
    /\ PayNowOffered(p) /\ payClicks < MaxPays
    /\ payClicks' = payClicks + 1
    /\ LET rivals == {f \in pays : f.mounted /\ f.payment # p}
       IN pays' = (pays \ rivals)
                    \union {[f EXCEPT !.overlapped = TRUE] : f \in rivals}
                    \union {[nr |-> payClicks + 1, payment |-> p, at |-> "health",
                             mounted |-> TRUE, overlapped |-> rivals # {}]}
    /\ payingPaymentId' = p
    /\ isCheckingPaymentHealth' = TRUE
    /\ UNCHANGED <<settled, paid, declined, listed, verifying, script, thanked, unlisted>>

\* Fault: the payment stays the one that is being paid.
stopsPayingNot(f) == UNCHANGED payingPaymentId

\* setPayingPaymentId(null), whichever payment it names by now.
stopsPaying(f) == setPayingPaymentId(f, NoReceipt)

\* Healthy: the script is asked for, unless this tab has it or failed to get it;
\* the promise that failed is kept.
HealthChecked(f) ==
    /\ f.at = "health"
    /\ isCheckingPaymentHealth' = (isCheckingPaymentHealth /\ ~ f.mounted)
    /\ \/ Ends(f) /\ stopsPaying(f) /\ UNCHANGED script
       \/ script = "failed" /\ Ends(f) /\ stopsPaying(f) /\ UNCHANGED script
       \/ script = "loaded" /\ Continues(f, "window") /\ UNCHANGED <<payingPaymentId, script>>
       \/ /\ script \in {"absent", "loading"}
          /\ Continues(f, "script") /\ script' = "loading" /\ UNCHANGED payingPaymentId
    /\ UNCHANGED <<settled, paid, declined, listed, payClicks, verifying, thanked, unlisted>>

\* loadRazorpayScript: every payment that waits for the script goes on, or none does.
ScriptArrives ==
    /\ script = "loading"
    /\ script' = "loaded"
    /\ pays' = {IF f.at = "script" THEN [f EXCEPT !.at = "window"] ELSE f : f \in pays}
    /\ UNCHANGED <<settled, paid, declined, listed, payClicks, payingPaymentId,
                   isCheckingPaymentHealth, verifying, thanked, unlisted>>

ScriptFails ==
    /\ script = "loading"
    /\ script' = "failed"
    /\ pays' = {f \in pays : f.at # "script"}
    /\ payingPaymentId' = IF \E f \in pays : f.at = "script" /\ f.mounted THEN NoReceipt ELSE payingPaymentId
    /\ UNCHANGED <<settled, paid, declined, listed, payClicks, isCheckingPaymentHealth,
                   verifying, thanked, unlisted>>

(***************************************************************************)
(* The provider: an order is captured once.                                *)
(***************************************************************************)
CustomerPays(f) ==
    /\ f.at = "window" /\ f.payment \notin paid
    /\ paid' = paid \union {f.payment}
    /\ Continues(f, "sent")
    /\ verifying' = IF f.mounted THEN f.nr ELSE verifying
    /\ UNCHANGED <<settled, declined, listed, payClicks, payingPaymentId,
                   isCheckingPaymentHealth, script, thanked, unlisted>>

AttemptDeclined(f) ==
    /\ f.at = "window" /\ f.payment \notin paid \union declined
    /\ declined' = declined \union {f.payment}
    /\ UNCHANGED <<settled, paid, listed, pays, payClicks, payingPaymentId,
                   isCheckingPaymentHealth, verifying, script, thanked, unlisted>>

ondismiss(f) ==
    /\ f.at = "window"
    /\ Ends(f) /\ stopsPaying(f)
    /\ UNCHANGED <<settled, paid, declined, listed, payClicks, isCheckingPaymentHealth,
                   verifying, script, thanked, unlisted>>

\* A webhook settles a payment that is INITIATED; it may come at any time.
WebhookSettles(p) ==
    /\ settled[p] = "INITIATED"
    /\ \/ p \in paid /\ settled' = [settled EXCEPT ![p] = "SUCCESS"]
       \/ p \in declined /\ settled' = [settled EXCEPT ![p] = "FAILED"]
    /\ UNCHANGED <<paid, declined, listed, pays, payClicks, payingPaymentId,
                   isCheckingPaymentHealth, verifying, script, thanked, unlisted>>

(***************************************************************************)
(* The verification.                                                       *)
(***************************************************************************)

\* The service settles it, unless it is FAILED; the answer may be lost.
ServeVerification(f) ==
    /\ f.at = "sent"
    /\ settled' = IF settled[f.payment] = "INITIATED"
                  THEN [settled EXCEPT ![f.payment] = "SUCCESS"] ELSE settled
    /\ \/ settled[f.payment] # "FAILED" /\ Continues(f, "verified")
       \/ Continues(f, "refused")
    /\ UNCHANGED <<paid, declined, listed, payClicks, payingPaymentId,
                   isCheckingPaymentHealth, verifying, script, thanked, unlisted>>

\* Fault: the lists are not fetched again.
fetchListAgainNot == UNCHANGED listed

\* invalidatePayments, awaited: the list is fetched again.
fetchListAgain == listed' = settled

verificationSucceeds(f) ==
    /\ f.at = "verified"
    /\ \/ fetchListAgain /\ UNCHANGED unlisted
       \/ UNCHANGED listed /\ unlisted' = unlisted \union {f.payment}
    /\ thanked' = IF f.mounted THEN thanked \union {f.payment} ELSE thanked
    /\ Ends(f) /\ stopsPaying(f)
    /\ UNCHANGED <<settled, paid, declined, payClicks, isCheckingPaymentHealth, verifying, script>>

verificationFails(f) ==
    /\ f.at = "refused"
    /\ Ends(f) /\ stopsPaying(f)
    /\ UNCHANGED <<settled, paid, declined, listed, payClicks, isCheckingPaymentHealth,
                   verifying, script, thanked, unlisted>>

(***************************************************************************)
(* The list is fetched again by itself; the page is left and opened again; *)
(* the tab is reloaded.                                                    *)
(***************************************************************************)
ListFetched ==
    /\ listed # settled
    /\ listed' = settled
    /\ UNCHANGED <<settled, paid, declined, pays, payClicks, payingPaymentId,
                   isCheckingPaymentHealth, verifying, script, thanked, unlisted>>

\* What was under way goes on without the page.
LeavePayments ==
    /\ pays # {} /\ ~ windowOpen
    /\ pays' = {[f EXCEPT !.mounted = FALSE] : f \in pays}
    /\ payingPaymentId' = NoReceipt /\ isCheckingPaymentHealth' = FALSE /\ verifying' = 0
    /\ UNCHANGED <<settled, paid, declined, listed, payClicks, script, thanked, unlisted>>

ReloadPayments ==
    /\ pays # {} \/ script = "failed"
    /\ pays' = {} /\ script' = "absent" /\ listed' = settled
    /\ payingPaymentId' = NoReceipt /\ isCheckingPaymentHealth' = FALSE /\ verifying' = 0
    /\ UNCHANGED <<settled, paid, declined, payClicks, thanked, unlisted>>

CheckoutNext ==
    \/ \E p \in Receipts : handlePayNow(p) \/ WebhookSettles(p)
    \/ \E f \in pays :
          \/ HealthChecked(f) \/ CustomerPays(f) \/ AttemptDeclined(f) \/ ondismiss(f)
          \/ ServeVerification(f) \/ verificationSucceeds(f) \/ verificationFails(f)
    \/ ScriptArrives \/ ScriptFails \/ ListFetched \/ LeavePayments \/ ReloadPayments

CheckoutSpec == CheckoutInit /\ [][CheckoutNext]_checkoutVars

(***************************************************************************)
(* Properties.                                                             *)
(***************************************************************************)
CheckoutTypeOK ==
    /\ settled \in [Receipts -> {"INITIATED", "SUCCESS", "FAILED"}]
    /\ listed \in [Receipts -> {"INITIATED", "SUCCESS", "FAILED"}]
    /\ payingPaymentId \in Receipts \union {NoReceipt}
    /\ thanked \subseteq paid

\* A button is disabled only while its payment is under way: whatever fails, it can
\* be pressed again (the branches of handlePayNow and of the mutation).
NeverStuck ==
    /\ payingPaymentId # NoReceipt => \E f \in pays : f.mounted /\ f.payment = payingPaymentId
    /\ isCheckingPaymentHealth => \E f \in pays : f.mounted /\ f.at = "health"

\* A payment is under way once on a page, unless another one was started meanwhile.
PaidOnceAtATime ==
    \A f, g \in pays :
        f.mounted /\ g.mounted /\ f.payment = g.payment /\ f.nr < g.nr => f.overlapped

\* What the customer was told is completed is not offered again, and neither is what
\* was verified while its list is fetched, if no other payment was under way.
CompletedNotOffered ==
    /\ \A p \in thanked : listed[p] = "INITIATED" => p \in unlisted
    /\ \A f \in pays : f.at = "verified" /\ f.mounted /\ PayNowOffered(f.payment) => f.overlapped

\* The three promises of Pay Now (PaymentsPage, openRazorpayCheckout).
CheckoutSound == NeverStuck /\ PaidOnceAtATime /\ CompletedNotOffered
=============================================================================
