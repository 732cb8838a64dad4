------------------------------ MODULE QueryCache ------------------------------
(***************************************************************************)
(* One cached query of the web frontend and one change made by the same    *)
(* user.  The query library (React Query) is modelled from how the pages   *)
(* use it: a page that opens asks again unless it holds an answer younger  *)
(* than staleTime; an answer outlives its page; a change, once answered,   *)
(* marks the queries its handler names as stale, and those a page shows    *)
(* are asked again.                                                        *)
(*                                                                         *)
(* An answer is "before" or "after" the change was carried out by the      *)
(* service.  Init picks the user's role, the change, the query, and the    *)
(* two pages they belong to.                                               *)
(***************************************************************************)
EXTENDS Pages, SequencesExt

VARIABLES
    actor,      \* [role, writer, change, reader, query]: who, and what is watched
    page,       \* the page that is open
    data,       \* cached answer: "none", "before", "after"
    stale,      \* the entry was invalidated since its answer came
    failed,     \* the last fetch failed
    fetch,      \* "none", "asked", or the answer on its way
    change,     \* "none", "sent", "done", "answered", "lost"
    overtaken   \* the answer to the change came while an earlier answer to the
                \* query was on its way, which the library does not call back

cacheVars == <<actor, page, data, stale, failed, fetch, change, overtaken>>

Shows(role, path, query) == query \in Page(path, role).reads

\* Pages that open one after the other; the home page may show the query too.
Visited == {actor.writer, actor.reader, getRoleHomePath(actor.role)}

mounted == Shows(actor.role, page, actor.query)
Serves(role, call) == canActivate(role, call)

(***************************************************************************)
(* Does the change show in the answer to the query, and does its handler   *)
(* name the query?                                                         *)
(***************************************************************************)
Concerns(role, mutation, query) ==
    \E table \in Tables : <<mutation.call, table>> \in Writes /\ <<query.call, table>> \in Reads(role)

Refreshes(mutation, query) == \E prefix \in mutation.refreshes : IsPrefix(prefix, query.key)

\* Who may be watched: a change and a query its answer would show.
Actors ==
    LET Watch(role, writer, reader) ==
            {[role |-> role, writer |-> writer, change |-> m, reader |-> reader, query |-> q] :
                m \in {w \in Page(writer, role).writes : Serves(role, w.call)},
                q \in {r \in Page(reader, role).reads : Serves(role, r.call)}}
    IN {a \in UNION {UNION {Watch(role, writer, reader) : writer, reader \in Reachable(role)} : role \in Role} :
            Concerns(a.role, a.change, a.query)}

CacheInit ==
    /\ actor \in Actors
    /\ page \in {getRoleHomePath(actor.role), actor.reader}
    /\ data = "none"
    /\ stale = FALSE
    /\ failed = FALSE
    /\ fetch = IF mounted THEN "asked" ELSE "none"
    /\ change = "none"
    /\ overtaken = FALSE

(***************************************************************************)
(* Pages and fetches.                                                      *)
(***************************************************************************)
\* A page that shows the query asks unless it is asked already; an answer that
\* is neither stale nor old is shown as it is.
OpenPage(p) ==
    /\ p \in Visited \ {page}
    /\ page' = p
    /\ IF Shows(actor.role, p, actor.query) /\ ~mounted /\ fetch = "none"
       THEN \/ fetch' = "asked"
            \/ /\ data # "none" /\ ~stale
               /\ UNCHANGED fetch
       ELSE UNCHANGED fetch
    /\ UNCHANGED <<actor, data, stale, failed, change, overtaken>>

\* The service reads its tables.
ServeFetch ==
    /\ fetch = "asked"
    /\ fetch' = IF change \in {"none", "sent"} THEN "before" ELSE "after"
    /\ UNCHANGED <<actor, page, data, stale, failed, change, overtaken>>

\* The answer arrives, whether or not a page still shows it.
FetchSucceeds ==
    /\ fetch \in {"before", "after"}
    /\ data' = fetch
    /\ stale' = FALSE
    /\ failed' = FALSE
    /\ fetch' = "none"
    /\ UNCHANGED <<actor, page, change, overtaken>>

\* Both attempts fail; what is cached stays.
FetchFails ==
    /\ fetch # "none"
    /\ fetch' = "none"
    /\ failed' = TRUE
    /\ UNCHANGED <<actor, page, data, stale, change, overtaken>>

(***************************************************************************)
(* The change.                                                             *)
(***************************************************************************)
mutate ==
    /\ page = actor.writer
    /\ change = "none"
    /\ change' = "sent"
    /\ UNCHANGED <<actor, page, data, stale, failed, fetch, overtaken>>

ServeChange ==
    /\ change = "sent"
    /\ change' = "done"
    /\ UNCHANGED <<actor, page, data, stale, failed, fetch, overtaken>>

\* No answer: refused, or carried out and the answer lost.  onError only shows
\* a message.
onError ==
    /\ change \in {"sent", "done"}
    /\ change' = "lost"
    /\ UNCHANGED <<actor, page, data, stale, failed, fetch, overtaken>>

\* Fault: queries that no page shows are not marked.
invalidateQueriesShown ==
    IF mounted
    THEN /\ stale' = (data # "none" \/ fetch # "none")
         /\ fetch' = IF data # "none" \/ fetch = "none" THEN "asked" ELSE fetch
         /\ overtaken' = (data = "none" /\ fetch = "before")
    ELSE UNCHANGED <<stale, fetch, overtaken>>

\* A fetch that refreshes an entry on screen is started again; the first fetch
\* of an entry, and one whose page was closed, go on and count as fresh.
invalidateQueries ==
    /\ stale' = (data # "none" \/ fetch # "none")
    /\ fetch' = IF mounted /\ (data # "none" \/ fetch = "none") THEN "asked" ELSE fetch
    /\ overtaken' = ((data = "none" \/ ~mounted) /\ fetch = "before")

\* The handler runs even when its page was closed in the meantime.
onSuccess ==
    /\ change = "done"
    /\ change' = "answered"
    /\ IF Refreshes(actor.change, actor.query)
       THEN invalidateQueries
       ELSE UNCHANGED <<stale, fetch, overtaken>>
    /\ UNCHANGED <<actor, page, data, failed>>

CacheNext ==
    \/ \E p \in Visited : OpenPage(p)
    \/ ServeFetch \/ FetchSucceeds \/ FetchFails
    \/ mutate \/ ServeChange \/ onError \/ onSuccess

CacheSpec == CacheInit /\ [][CacheNext]_cacheVars

(***************************************************************************)
(* Properties.                                                             *)
(***************************************************************************)
CacheTypeOK ==
    /\ page \in Paths
    /\ data \in {"none", "before", "after"}
    /\ stale \in BOOLEAN /\ failed \in BOOLEAN /\ overtaken \in BOOLEAN
    /\ fetch \in {"none", "asked", "before", "after"}
    /\ change \in {"none", "sent", "done", "answered", "lost"}

\* Changes whose handlers leave out a query that shows them: it may be
\* staleTime old.  Dashboards after bookings, vehicles, lots and new users, and
\* the slot map after its floors and slots were edited.
NotRefreshed ==
    {"createBooking", "cancelBooking", "createVehicle", "deleteVehicle"} \X {"getOperatorMetrics"}
    \union {"createParkingLot", "updateParkingLot", "deleteParkingLot"} \X {"getOperatorMetrics", "getOnboardingStatus"}
    \union {"createUser"} \X {"getOnboardingStatus"}
    \union {"createFloor", "updateFloor", "deleteFloor", "createSlot", "createBulkSlots",
            "updateSlotStatus", "deleteSlot", "deleteSlots"} \X {"getSlotMap"}

\* Whoever made a change and got its answer does not go on looking at what was
\* true before it: an answer from before the change is marked stale, and a page
\* that shows it is asking again or has said that it could not
\* (invalidateOperationalQueries, the invalidate... helpers of the pages).  Left
\* out: the pairs NotRefreshed, and an answer already on its way when the
\* change was answered.
OwnWritesShown ==
    change = "answered" /\ data = "before" =>
        \/ overtaken
        \/ <<actor.change.call, actor.query.call>> \in NotRefreshed
        \/ stale /\ (mounted => fetch # "none" \/ failed)

\* Calls a page makes or offers although the services refuse them: the lists of
\* bookings and payments are closed to a TENANT_ADMIN, credentials to a USER,
\* and the gate panel's addresses exist for nobody.
Refusals ==
    {"TENANT_ADMIN"} \X {"getBookings", "getPayments"}
    \union {"USER"} \X {"getVehicleCredentials", "assignRfidCredential", "generateQrCredential", "revokeVehicleCredential"}
    \union Staff \X {"getGatesByParkingLot", "getGateLiveStatus", "getGateDetections", "getGateAccessAttempts", "manualOpenGate"}
    \union Managers \X {"createGate"}

\* Every page a role can open gets an answer to what it asks, and offers what
\* will be answered (RoleRoute and the enabled flags against RolesGuard and
\* @PreAuthorize), except for the calls in Refusals.
PagesServed ==
    \A c \in Page(page, actor.role).reads \union Page(page, actor.role).writes :
        Serves(actor.role, c.call) \/ <<actor.role, c.call>> \in Refusals

\* Links to a page that does not exist, and to a form that only a USER may open.
DeadLinks ==
    (Role \ {"USER"}) \X {"bookings/new"}
    \union (Managers \union {"USER"}) \X {"settings/billing"}

\* A link leads to a page its reader may open, where the form it announces is
\* offered (navItems and the buttons of the pages against RoleRoute and the roles
\* the pages look at), except for DeadLinks.
LinksLead ==
    \A role \in Role :
        \A link \in {getSafeBookingRedirect} \union UNION {AppLayout(path, role) : path \in Reachable(role)} :
            \/ <<role, link.to>> \in DeadLinks
            \/ /\ link.to \in Reachable(role)
               /\ \/ link.form = "none"
                  \/ \E w \in Page(link.to, role).writes : w.call = link.form

\* Where a role comes to after signing in, and with one click more.
Landing(role) == Reachable(role) \intersect {getRoleHomePath(role), getSafeBookingRedirect.to}
OneClick(role, pages) ==
    Reachable(role) \intersect (pages \union {link.to : link \in UNION {AppLayout(path, role) : path \in pages}})

\* Every page a role may open is two clicks away at most, with no address typed;
\* a guard has no entry for the lots and comes to them from the chart.  Left out:
\* the branding page, which a SUPER_ADMIN may open and is never led to.
PagesLinked ==
    \A role \in Role :
        Reachable(role) \ OneClick(role, OneClick(role, Landing(role)))
            \subseteq (IF role = "SUPER_ADMIN" THEN {"admin/branding"} ELSE {})

\* What a page asks is answered, where it leads is open, and what it shows is not
\* from before its user's own changes.
CacheSound == PagesServed /\ LinksLead /\ PagesLinked /\ OwnWritesShown
=============================================================================
