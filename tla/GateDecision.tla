----------------------------- MODULE GateDecision -----------------------------
(***************************************************************************)
(* GateAccessDecisionService: what is answered to a detection, from what   *)
(* was read about its gate, its vehicle, and the vehicle's bookings.       *)
(***************************************************************************)
EXTENDS Naturals, Sequences

\* What administrators switch on or off: "device" is the one that reports.
Switches == {"organization", "lot", "gate", "autoOpen", "device"}
Directions == {"ENTRY", "EXIT", "BIDIRECTIONAL"}
Flows == {"ENTRY", "EXIT", "NONE"}

\* ctx.on: the switches that are on.  ctx.session: where the vehicle's session is,
\* "here" in the gate's lot.  ctx.booking: "inWindow", "outside" or "none".
resolveFlow(ctx) ==
  CASE ctx.direction = "ENTRY" -> IF ctx.session = "here" THEN "NONE" ELSE "ENTRY"
    [] ctx.direction = "EXIT"  -> IF ctx.session = "here" THEN "EXIT" ELSE "NONE"
    [] OTHER                   -> IF ctx.session = "here" THEN "EXIT" ELSE "ENTRY"

Denied(cond, reason) == [when |-> cond, decision |-> "DENIED", reason |-> reason]
Review(cond, reason) == [when |-> cond, decision |-> "REVIEW_REQUIRED", reason |-> reason]

\* The refusals, in the order they are looked for.
Refusals(ctx) ==
  LET entry == resolveFlow(ctx) = "ENTRY" IN
  << Denied("organization" \notin ctx.on, "ORGANIZATION_INACTIVE"),
     Denied("lot" \notin ctx.on, "PARKING_LOT_INACTIVE"),
     Denied("gate" \notin ctx.on, "GATE_INACTIVE"),
     Denied("autoOpen" \notin ctx.on, "AUTO_OPEN_DISABLED"),
     Denied("device" \notin ctx.on, "DEVICE_DISABLED"),
     Denied(ctx.duplicate, "DUPLICATE_DETECTION"),
     Review(ctx.kind = "PLATE" /\ ~ ctx.confident, "ANPR_LOW_CONFIDENCE"),
     Denied(ctx.kind # "PLATE" /\ ctx.credential = "NONE", "CREDENTIAL_NOT_FOUND"),
     Denied(ctx.kind # "PLATE" /\ ctx.credential = "REVOKED", "CREDENTIAL_REVOKED"),
     Denied(ctx.kind # "PLATE" /\ ctx.credential = "EXPIRED", "CREDENTIAL_EXPIRED"),
     Denied(~ ctx.known, "VEHICLE_NOT_FOUND"),
     Denied(resolveFlow(ctx) = "NONE", "WRONG_GATE_DIRECTION"),
     Denied(entry /\ ctx.booking = "outside", "BOOKING_OUTSIDE_WINDOW"),
     Denied(entry /\ ctx.booking = "none" /\ ~ ctx.assigned, "NO_ACTIVE_BOOKING") >>

Grant(ctx) ==
  CASE resolveFlow(ctx) = "EXIT" -> "EXIT_ACTIVE_SESSION"
    [] resolveFlow(ctx) # "EXIT" /\ ctx.booking = "inWindow" -> "ENTRY_BOOKING_CONFIRMED"
    [] OTHER -> "ENTRY_ASSIGNMENT_AUTO_BOOKING"

\* The first refusal that applies is the answer; none is a grant.
evaluate(ctx) ==
  LET refusals == Refusals(ctx)
      hits == {i \in DOMAIN refusals : refusals[i].when}
      first == CHOOSE i \in hits : \A j \in hits : i <= j
  IN IF hits # {}
     THEN [decision |-> refusals[first].decision, reason |-> refusals[first].reason, flow |-> "NONE"]
     ELSE [decision |-> "GRANTED", reason |-> Grant(ctx), flow |-> resolveFlow(ctx)]
=============================================================================
