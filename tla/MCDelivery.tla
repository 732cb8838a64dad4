------------------------------ MODULE MCDelivery ------------------------------
(***************************************************************************)
(* What is delivered until it is answered, in one run: outbox events to     *)
(* their handlers, webhooks to the payment service.  They share no state;   *)
(* scene says which of them a behaviour is about.                           *)
(***************************************************************************)
EXTENDS OutboxWorker, PaymentRecords

VARIABLE scene

MCInit == scene \in {"outbox", "payments"} /\ Init /\ PaymentInit

MCNext ==
  /\ \/ scene = "outbox" /\ Next /\ UNCHANGED paymentVars
     \/ scene = "payments" /\ PaymentNext /\ UNCHANGED outbox
  /\ UNCHANGED scene

MCSpec ==
  /\ MCInit
  /\ [][MCNext]_<<scene, outbox, paymentVars>>
  /\ Fairness
  /\ PaymentFairness
===============================================================================
