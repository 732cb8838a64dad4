--------------------------- MODULE MCLedgerAndPages ---------------------------
(***************************************************************************)
(* The tables with what is computed from them, and the pages of the web    *)
(* frontend, in one run: scene says which of them a behaviour is about, the *)
(* others stay put.                                                        *)
(***************************************************************************)
EXTENDS Dashboards, QueryCache, BrowserSession, GatePage, ActivityFeed, PageForms, Checkout

CONSTANTS v1, v2, b3

VARIABLE scene

\* Booking b3 is for v2, whose slots are assigned.
MCVehicleOf == [b \in Bookings |-> IF b = b3 THEN v2 ELSE v1]
MCAssignedSlots == [v \in Vehicles |-> IF v = v2 THEN Slots ELSE {}]

-----------------------------------------------------------------------------
\* The pages: every part but the one of the scene stays in one of its initial states.
FrontendScenes == {"cache", "session", "gate page", "feed", "forms", "checkout"}

frontendVars == <<cacheVars, sessionVars, gatePageVars, feedVars, formVars, checkoutVars>>

AnActor == CHOOSE a \in Actors : TRUE
AnyTarget == CHOOSE t \in Targets : TRUE

FrontendInit ==
  /\ IF scene = "cache" THEN TRUE
     ELSE actor = AnActor /\ page = getRoleHomePath(actor.role)
  /\ IF scene = "session" THEN TRUE ELSE storage = Nobody
  /\ IF scene = "gate page" THEN TRUE ELSE atGate = [c \in Cars |-> "out"]
  /\ IF scene = "feed" THEN TRUE ELSE checkInTime = [id \in EventIds |-> 0]
  /\ IF scene = "forms" THEN TRUE ELSE form = "message" /\ opened = AnyTarget
  /\ CacheInit /\ SessionInit /\ GatePageInit /\ FeedInit /\ FormInit /\ CheckoutInit

FrontendNext ==
  \/ scene = "cache" /\ CacheNext /\ UNCHANGED <<sessionVars, gatePageVars, feedVars, formVars, checkoutVars>>
  \/ scene = "session" /\ SessionNext /\ UNCHANGED <<cacheVars, gatePageVars, feedVars, formVars, checkoutVars>>
  \/ scene = "gate page" /\ GatePageNext /\ UNCHANGED <<cacheVars, sessionVars, feedVars, formVars, checkoutVars>>
  \/ scene = "feed" /\ FeedNext /\ UNCHANGED <<cacheVars, sessionVars, gatePageVars, formVars, checkoutVars>>
  \/ scene = "forms" /\ FormNext /\ UNCHANGED <<cacheVars, sessionVars, gatePageVars, feedVars, checkoutVars>>
  \/ scene = "checkout" /\ CheckoutNext
     /\ UNCHANGED <<cacheVars, sessionVars, gatePageVars, feedVars, formVars>>

-----------------------------------------------------------------------------
ledgerVars == <<rows, later, newer>>

MCInit ==
  /\ scene \in {"ledger"} \union FrontendScenes
  /\ IF scene = "ledger" THEN TRUE ELSE slot = [sl \in Slots |-> "NONE"]
  /\ ViewInit
  /\ FrontendInit

MCNext ==
  /\ \/ scene = "ledger" /\ ViewNext /\ UNCHANGED frontendVars
     \/ FrontendNext /\ UNCHANGED ledgerVars
  /\ UNCHANGED scene

MCSpec == MCInit /\ [][MCNext]_<<scene, ledgerVars, frontendVars>>
===============================================================================
