-------------------------------- MODULE Pages --------------------------------
(***************************************************************************)
(* What every page of the web frontend asks the services for, what it      *)
(* offers its user to change, and which cached answers a change refreshes. *)
(* A query is cached under a key; a key is a sequence of names, with one   *)
(* lot, gate, vehicle, booking and conversation for all of them.           *)
(***************************************************************************)
EXTENDS ApiAccess, Integers, Sequences

When(condition, set) == IF condition THEN set ELSE {}

Query(key, call) == [key |-> key, call |-> call]
Mutation(call, refreshes) == [call |-> call, refreshes |-> refreshes]
Mutations(calls, refreshes) == {Mutation(call, refreshes) : call \in calls}

(***************************************************************************)
(* Routes.  The branches of the router in their order, each behind a       *)
(* RoleRoute; "slot-map" is parking-lots/:id/slot-map, "lot" the pages     *)
(* parking-lots/:id, /floors and /slots, and so on.                        *)
(***************************************************************************)
appRoutes ==
    << [allowedRoles |-> {"SUPER_ADMIN"}, paths |-> {"platform/admin"}],
       [allowedRoles |-> Managers, paths |-> {"admin/dashboard", "admin/support"}],
       [allowedRoles |-> {"SECURITY"}, paths |-> {"security/dashboard", "security/messages"}],
       [allowedRoles |-> Staff, paths |-> {"security/gate"}],
       [allowedRoles |-> {"USER"}, paths |-> {"user/dashboard", "support", "bookings/new"}],
       [allowedRoles |-> {"SUPER_ADMIN", "TENANT_ADMIN"}, paths |-> {"admin/branding"}],
       [allowedRoles |-> Staff, paths |-> {"parking-lots", "lot", "slot-map", "gates"}],
       [allowedRoles |-> {"USER"}, paths |-> {"slot-map"}],
       [allowedRoles |-> Managers \union {"USER"}, paths |-> {"vehicles"}],
       [allowedRoles |-> Staff \union {"USER"}, paths |-> {"bookings", "parking-events"}],
       [allowedRoles |-> Staff \union {"USER"}, paths |-> {"payments"}] >>

Paths == UNION {appRoutes[i].paths : i \in DOMAIN appRoutes}

\* The library takes the first branch that matches; what comes later with the
\* same path is never reached.
matchRoutes(path) ==
    LET i == CHOOSE i \in DOMAIN appRoutes :
                /\ path \in appRoutes[i].paths
                /\ \A j \in 1..(i - 1) : path \notin appRoutes[j].paths
    IN appRoutes[i]

\* RoleRoute: "You do not have access to this page" for the others.
RoleRoute(role, path) == role \in matchRoutes(path).allowedRoles

getRoleHomePath(role) ==
    CASE role = "SUPER_ADMIN" -> "platform/admin"
      [] role \in Managers -> "admin/dashboard"
      [] role = "SECURITY" -> "security/dashboard"
      [] OTHER -> "user/dashboard"

\* Fault: the vehicles are offered to whoever works with them.
navItemsStaff ==
    {"platform/admin"} \X {"SUPER_ADMIN"}
    \union {"admin/dashboard", "admin/support", "parking-lots"} \X Managers
    \union {"security/dashboard", "security/messages"} \X {"SECURITY"}
    \union {"security/gate"} \X Staff
    \union {"user/dashboard", "support"} \X {"USER"}
    \union {"admin/branding"} \X {"SUPER_ADMIN", "TENANT_ADMIN"}
    \union {"vehicles", "bookings", "parking-events", "payments"} \X (Staff \union {"USER"})

\* Entries of the side bar and whom they are for.
navItems ==
    {"platform/admin"} \X {"SUPER_ADMIN"}
    \union {"admin/dashboard", "admin/support", "parking-lots"} \X Managers
    \union {"security/dashboard", "security/messages"} \X {"SECURITY"}
    \union {"security/gate"} \X Staff
    \union {"user/dashboard", "support"} \X {"USER"}
    \union {"admin/branding"} \X {"SUPER_ADMIN", "TENANT_ADMIN"}
    \union {"vehicles"} \X (Managers \union {"USER"})
    \union {"bookings", "parking-events", "payments"} \X (Staff \union {"USER"})

\* Branding also needs an organization, which a SUPER_ADMIN is not in.
visibleNavItems(role) ==
    {path \in Paths : <<path, role>> \in navItems /\ <<role, path>> # <<"SUPER_ADMIN", "admin/branding">>}

(***************************************************************************)
(* What a user may do (useUserRole).                                       *)
(***************************************************************************)
isOperationalAdmin(role) == role \in Managers
canOperateParkingEvents(role) == isOperationalAdmin(role) \/ role = "SECURITY"

\* Fault: the lists of payments are shown to their own payer too.
canViewOperationalPaymentsOfUsers(role) == role # "SUPER_ADMIN"

canViewOperationalPayments(role) == isOperationalAdmin(role) \/ role = "SECURITY"

Nothing == [reads |-> {}, writes |-> {}]
Both(p1, p2) == [reads |-> p1.reads \union p2.reads, writes |-> p1.writes \union p2.writes]

(***************************************************************************)
(* Queries and mutations shared by pages.                                  *)
(***************************************************************************)
parkingLotsQuery == Query(<<"parking-lots">>, "getParkingLots")
parkingLotQuery == Query(<<"parking-lots", "lot">>, "getParkingLot")

bookingsQuery(role) ==
    IF role = "USER" THEN Query(<<"bookings", "my">>, "getMyBookings")
    ELSE Query(<<"bookings", "all">>, "getBookings")

vehiclesQuery(role) ==
    IF role = "ADMIN" THEN Query(<<"vehicles", "all">>, "getVehicles")
    ELSE Query(<<"vehicles", "my">>, "getMyVehicles")

\* Names for the ids in a table: without parking structure, as the pages ask.
useReferenceLabels(role, includeUsers) ==
    When(role \in {"USER", "ADMIN", "SECURITY"}, {bookingsQuery(role)})
    \union When(role \in {"USER", "ADMIN"}, {vehiclesQuery(role)})
    \union When(includeUsers /\ role = "ADMIN", {Query(<<"users">>, "getUsers")})

\* Fault: the list of active events is left out.
invalidateOperationalQueriesLess(operation) ==
    {<<"parking-events", "all">>,
     <<"bookings", "all">>, <<"bookings", "my">>, <<"bookings", "booking">>,
     <<"dashboard", "operator-metrics">>, <<"dashboard", "recent-activity">>,
     <<"parking-lots", "lot">>, <<"parking-lots", "lot", "slots">>, <<"slot-map", "lot">>}
    \union When(operation = "check-out",
                {<<"parking-events", "history">>, <<"payments", "summary">>,
                 <<"payments", "all">>, <<"payments", "user">>})

invalidateOperationalQueries(operation) ==
    {<<"parking-events", "active">>, <<"parking-events", "all">>,
     <<"bookings", "all">>, <<"bookings", "my">>, <<"bookings", "booking">>,
     <<"dashboard", "operator-metrics">>, <<"dashboard", "recent-activity">>,
     <<"parking-lots", "lot">>, <<"parking-lots", "lot", "slots">>, <<"slot-map", "lot">>}
    \union When(operation = "check-out",
                {<<"parking-events", "history">>, <<"payments", "summary">>,
                 <<"payments", "all">>, <<"payments", "user">>})

checkInAndOut ==
    {Mutation("checkInParkingEvent", invalidateOperationalQueries("check-in")),
     Mutation("checkOutParkingEvent", invalidateOperationalQueries("check-out"))}

(***************************************************************************)
(* Dashboards.                                                             *)
(***************************************************************************)
OperatorDashboardShell == {Query(<<"dashboard", "operator-metrics">>, "getOperatorMetrics")}
RecentActivityTimeline == {Query(<<"dashboard", "recent-activity">>, "getRecentActivity")}
UserSummaryCard == {Query(<<"users", "summary">>, "getUserSummary")}

TenantAdminQuickActions(role) ==
    [reads |-> When(role \in Managers, {Query(<<"dashboard", "onboarding-status">>, "getOnboardingStatus")}),
     writes |-> {Mutation("createUser", {<<"users">>, <<"users", "summary">>})}]

\* The donut asks for the lots, to know one to lead to; the feed is beside it.
TenantOperatorDashboardLayout == OperatorDashboardShell \union RecentActivityTimeline \union {parkingLotsQuery}

AdminDashboardPage(role) ==
    Both(TenantAdminQuickActions(role),
         [Nothing EXCEPT !.reads = TenantOperatorDashboardLayout \union UserSummaryCard])

SecurityDashboardPage == [Nothing EXCEPT !.reads = TenantOperatorDashboardLayout]

UserDashboardPage == [Nothing EXCEPT !.reads = OperatorDashboardShell \union RecentActivityTimeline]

(***************************************************************************)
(* Bookings, parking events, payments, vehicles.                           *)
(***************************************************************************)
invalidateBookingOperationQueries ==
    {<<"bookings", "all">>, <<"bookings", "my">>, <<"bookings", "booking">>,
     <<"parking-lots", "lot">>, <<"parking-lots", "lot", "slots">>, <<"slot-map", "lot">>}

BookingsPage(role) ==
    [reads |-> {bookingsQuery(role), parkingLotsQuery}
               \union When(role \in {"USER", "ADMIN"}, {vehiclesQuery(role)})
               \union When(role = "USER", {Query(<<"parking-lots", "lot", "available-slots">>, "getAvailableSlotsForBooking")}),
     writes |-> When(role = "USER", Mutations({"createBooking", "cancelBooking"}, invalidateBookingOperationQueries))]

ParkingEventsPage(role) ==
    [reads |-> When(canOperateParkingEvents(role), {Query(<<"parking-events", "active">>, "getActiveParkingEvents")})
               \union When(role = "USER", {Query(<<"parking-events", "history">>, "getParkingEventHistory")})
               \union When(role = "ADMIN", {Query(<<"parking-events", "all">>, "getParkingEvents")}),
     writes |-> When(canOperateParkingEvents(role), checkInAndOut)]

invalidatePayments == {<<"payments">>, <<"parking-events">>, <<"bookings">>}

PaymentsPage(role) ==
    [reads |-> When(role = "ADMIN", {Query(<<"payments", "summary">>, "getPaymentSummary")})
               \union When(canViewOperationalPayments(role), {Query(<<"payments", "all">>, "getPayments")})
               \union When(role = "USER", {Query(<<"payments", "user">>, "getUserPayments")})
               \union useReferenceLabels(role, role = "ADMIN"),
     writes |-> Mutations(When(role = "ADMIN", {"mockPaymentSuccess", "mockPaymentFailure"})
                          \union When(role \in {"ADMIN", "USER"}, {"verifyRazorpayPayment"}),
                          invalidatePayments)]

VehicleCredentialsPanel ==
    [reads |-> {Query(<<"vehicles", "vehicle", "credentials">>, "getVehicleCredentials")},
     writes |-> Mutations({"assignRfidCredential", "generateQrCredential", "revokeVehicleCredential"},
                          {<<"vehicles", "vehicle", "credentials">>})]

\* Rows, and what is offered for them, only where the list is loaded: the table
\* of a TENANT_ADMIN stays empty.
VehiclesPage(role) ==
    IF role \in {"USER", "ADMIN"}
    THEN Both(VehicleCredentialsPanel,
              [reads |-> {vehiclesQuery(role)} \union useReferenceLabels(role, role = "ADMIN"),
               writes |-> Mutations({"createVehicle", "updateVehicle", "deleteVehicle"}, {<<"vehicles">>})])
    ELSE Nothing

(***************************************************************************)
(* Parking lots.                                                           *)
(***************************************************************************)
ParkingLotsPage(role) ==
    [reads |-> {parkingLotsQuery},
     writes |-> When(role \in Managers, Mutations({"createParkingLot", "updateParkingLot", "deleteParkingLot"}, {<<"parking-lots">>}))]

invalidateStructure == {<<"parking-lots", "lot", "floors">>, <<"parking-lots", "lot", "slots">>, <<"dashboard">>}

\* The overview, floors, slots and settings tabs.
ParkingLotDetailsPage(role) ==
    [reads |-> {parkingLotQuery,
                Query(<<"parking-lots", "lot", "floors">>, "getFloors"),
                Query(<<"parking-lots", "lot", "slots">>, "getSlots")},
     writes |-> When(role \in Managers,
                     {Mutation("updateParkingLot", {<<"parking-lots", "lot">>, <<"parking-lots">>})}
                     \union Mutations({"createFloor", "updateFloor", "deleteFloor", "createSlot", "createBulkSlots",
                                       "updateSlotStatus", "deleteSlot", "deleteSlots"}, invalidateStructure))]

VisualSlotMapPage == [Nothing EXCEPT !.reads = {parkingLotQuery, parkingLotsQuery, Query(<<"slot-map", "lot">>, "getSlotMap")}]

gatesQuery == Query(<<"parking-lots", "lot", "gates">>, "getGatesByParkingLot")
liveStatusQuery == Query(<<"gates", "gate", "live">>, "getGateLiveStatus")

ParkingLotGatesPage(role) ==
    [reads |-> {parkingLotQuery, gatesQuery, liveStatusQuery},
     writes |-> When(role \in Managers, Mutations({"createGate", "updateGate", "deleteGate"}, {gatesQuery.key, <<"gates">>}))]

(***************************************************************************)
(* The guard's screen and the conversations.                               *)
(***************************************************************************)
SecurityGateIotPanel ==
    [reads |-> {parkingLotsQuery, gatesQuery, liveStatusQuery,
                Query(<<"gates", "gate", "detections">>, "getGateDetections"),
                Query(<<"gates", "gate", "access-attempts">>, "getGateAccessAttempts")},
     writes |-> {Mutation("manualOpenGate", {<<"gates", "gate", "live">>, <<"gates", "gate", "access-attempts">>})}]

\* The search is a mutation too; it changes nothing.
SecurityGatePage ==
    Both(SecurityGateIotPanel, [reads |-> {}, writes |-> checkInAndOut \union {Mutation("searchSecurityGate", {})}])

useConversations == Query(<<"conversations", "list">>, "listConversations")
useConversationMessages == Query(<<"conversations", "conversation", "messages">>, "getConversationMessages")

UserSupportPage ==
    [reads |-> {useConversations, useConversationMessages, parkingLotsQuery, bookingsQuery("USER")},
     writes |-> Mutations({"startSecurityConversation", "startCustomerCareConversation", "sendConversationMessage"},
                          {<<"conversations">>})]

StaffSupportInboxPage ==
    [reads |-> {useConversations, useConversationMessages},
     writes |-> Mutations({"sendConversationMessage", "resolveConversation"}, {<<"conversations">>})]

(***************************************************************************)
(* Branding.  Saving puts the answer itself into the cache.                *)
(***************************************************************************)
BrandingSettingsPage ==
    [reads |-> {Query(<<"branding", "settings">>, "getCurrentBranding")},
     writes |-> {Mutation("updateOrganizationBranding", {<<"branding">>})}]

(***************************************************************************)
(* All pages.                                                              *)
(***************************************************************************)
Page(path, role) ==
    CASE path = "admin/dashboard" -> AdminDashboardPage(role)
      [] path = "security/dashboard" -> SecurityDashboardPage
      [] path = "user/dashboard" -> UserDashboardPage
      [] path \in {"admin/support", "security/messages"} -> StaffSupportInboxPage
      [] path = "security/gate" -> SecurityGatePage
      [] path = "support" -> UserSupportPage
      [] path \in {"bookings", "bookings/new"} -> BookingsPage(role)
      [] path = "admin/branding" -> BrandingSettingsPage
      [] path = "parking-lots" -> ParkingLotsPage(role)
      [] path = "lot" -> ParkingLotDetailsPage(role)
      [] path = "slot-map" -> VisualSlotMapPage
      [] path = "gates" -> ParkingLotGatesPage(role)
      [] path = "vehicles" -> VehiclesPage(role)
      [] path = "parking-events" -> ParkingEventsPage(role)
      [] path = "payments" -> PaymentsPage(role)
      [] OTHER -> Nothing

Reachable(role) == {path \in Paths : RoleRoute(role, path)}

(***************************************************************************)
(* Links and buttons that lead from page to page.  One with ?create=1, and *)
(* one to bookings/new, opens the form of a creation.                      *)
(***************************************************************************)
Links(paths) == [to : paths, form : {"none"}]
CreateLink(path, call) == [to |-> path, form |-> call]

TenantAdminQuickActionLinks ==
    {CreateLink("parking-lots", "createParkingLot"), CreateLink("lot", "createFloor"), CreateLink("lot", "createSlot")}

UserQuickActions == {CreateLink("vehicles", "createVehicle"), CreateLink("bookings", "createBooking")}
SecurityQuickActions == Links({"security/gate", "parking-events"})

\* Fault: the chart leads to the table that holds the lot.
handleStatusNavigateToTable == Links({"parking-lots"})

\* A click in the chart of a dashboard.
handleStatusNavigate == Links({"lot"})

LotUtilizationCompactList == Links({"parking-lots"})
viewAllHref == Links({"parking-events"})

\* Around the pages of one lot: its tabs, the map, and back to the table.
ParkingLotWorkspaceShell == Links({"lot", "slot-map", "gates", "parking-lots"})

SlotDetailDrawer == Links({"bookings", "parking-events"})

\* Over any page that offers what a plan limits.
PlanLimitUpgradeDialog(path, role) ==
    When(\E w \in Page(path, role).writes : w.call \in {"createParkingLot", "createUser", "createBooking"},
         Links({"settings/billing"}))

\* The public finder, and the sign-in it sends to, lead every role to the form.
getSafeBookingRedirect == CreateLink("bookings/new", "createBooking")

PageLinks(path) ==
    CASE path = "admin/dashboard" ->
            TenantAdminQuickActionLinks \union handleStatusNavigate \union LotUtilizationCompactList \union viewAllHref
      [] path = "security/dashboard" -> SecurityQuickActions \union handleStatusNavigate \union viewAllHref
      [] path = "user/dashboard" -> UserQuickActions \union viewAllHref
      [] path = "parking-lots" -> Links({"lot"})
      [] path \in {"lot", "gates"} -> ParkingLotWorkspaceShell
      [] path = "slot-map" -> ParkingLotWorkspaceShell \union SlotDetailDrawer
      [] OTHER -> {}

\* What a role can click on a page, the side bar included.
AppLayout(path, role) ==
    Links(visibleNavItems(role)) \union PageLinks(path) \union PlanLimitUpgradeDialog(path, role)
=============================================================================
