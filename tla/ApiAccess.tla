------------------------------ MODULE ApiAccess ------------------------------
(***************************************************************************)
(* Which role each call of the web frontend is answered for: the @Role of *)
(* the backend's controllers, checked by RolesGuard, and the @PreAuthorize *)
(* of the payment service.  A call is named by its function in             *)
(* src/frontend/src/api; a function whose URL no controller serves is in   *)
(* none of the tables, and nobody gets an answer.                          *)
(*                                                                         *)
(* The second half says which tables a call reads and which it writes; a   *)
(* call in none of the lists reads or writes nothing the pages show.       *)
(* Tables joined only for a label (a name, a plate) are left out; how many *)
(* slots and vehicles there are is told apart from what is in their rows.  *)
(***************************************************************************)
Role == {"SUPER_ADMIN", "TENANT_ADMIN", "ADMIN", "SECURITY", "USER"}
Managers == {"TENANT_ADMIN", "ADMIN"}
Staff == Managers \union {"SECURITY"}

\* Not signed in: the calls that need no token.
Anyone == Role \union {"nobody"}

\* A table of calls with the roles they are open to.
Open(calls, roles) == calls \X roles

(***************************************************************************)
(* Controllers.                                                            *)
(***************************************************************************)
AuthController ==
    Open({"login", "register", "forgotPassword", "resetPassword"}, Anyone)
    \union Open({"getCurrentUser"}, Role)

BookingsController ==
    Open({"createBooking", "getMyBookings"}, {"USER"})
    \union Open({"getBookings"}, {"ADMIN", "SECURITY"})
    \union Open({"getBooking"}, {"USER", "ADMIN", "SECURITY"})
    \union Open({"cancelBooking"}, {"USER", "ADMIN"})

ParkingEventsController ==
    Open({"checkInParkingEvent", "checkOutParkingEvent", "getActiveParkingEvents"}, Staff)
    \union Open({"getParkingEventHistory", "getParkingEvent"}, {"USER", "ADMIN", "SECURITY"})
    \union Open({"getParkingEvents"}, {"ADMIN"})

SecurityGateController == Open({"searchSecurityGate"}, Staff)

VehiclesController ==
    Open({"createVehicle", "getMyVehicles", "updateVehicle", "deleteVehicle"}, {"USER", "ADMIN"})
    \union Open({"getVehicles", "getVehicle"}, {"ADMIN"})

VehicleAccessCredentialsController ==
    Open({"getVehicleCredentials"}, Staff)
    \union Open({"assignRfidCredential", "generateQrCredential", "revokeVehicleCredential"}, Managers)

ParkingLotsController ==
    Open({"getParkingLots", "getParkingLot"}, Staff \union {"USER"})
    \union Open({"createParkingLot", "updateParkingLot", "deleteParkingLot"}, Managers)

FloorsController ==
    Open({"getFloors"}, Staff)
    \union Open({"createFloor", "updateFloor", "deleteFloor"}, Managers)

SlotsController ==
    Open({"getSlots"}, Staff)
    \union Open({"getSlotMap"}, Role)
    \union Open({"getAvailableSlotsForBooking", "getAvailableSlots"}, {"USER", "ADMIN", "SECURITY"})
    \union Open({"createSlot", "createBulkSlots", "updateSlotStatus", "deleteSlot", "deleteSlots"}, Managers)

\* The gates of a lot, a gate's live status and opening it by hand have other
\* URLs in the backend than in iotGatesApi.ts.
GatesController ==
    Open({"getGate"}, Staff)
    \union Open({"updateGate", "deleteGate"}, Managers)

ConversationsController ==
    Open({"startSecurityConversation", "startCustomerCareConversation"}, {"USER"})
    \union Open({"listConversations", "getConversationMessages", "sendConversationMessage"}, Staff \union {"USER"})
    \union Open({"resolveConversation"}, Staff)

DashboardController ==
    Open({"getAdminSummary", "getOnboardingStatus"}, Managers)
    \union Open({"getSlotStatusSummary"}, Staff)
    \union Open({"getOperatorMetrics", "getRecentActivity"}, Role)

OrganizationsController ==
    Open({"getPublicBranding"}, Anyone)
    \union Open({"getCurrentBranding"}, Role)
    \union Open({"updateOrganizationBranding"}, {"SUPER_ADMIN", "TENANT_ADMIN"})

UsersController == Open({"getUsers", "getUserSummary", "createUser"}, Managers)

PublicParkingFinderController == Open({"getPublicParkingFinderResults"}, Anyone)

PaymentController ==
    Open({"verifyRazorpayPayment", "getPayment"}, {"USER", "ADMIN", "SECURITY"})
    \union Open({"mockPaymentSuccess", "mockPaymentFailure", "getPaymentSummary"}, {"ADMIN"})
    \union Open({"getPayments"}, {"ADMIN", "SECURITY"})
    \union Open({"getUserPayments"}, {"USER", "ADMIN"})

Served ==
    AuthController \union BookingsController \union ParkingEventsController \union SecurityGateController
    \union VehiclesController \union VehicleAccessCredentialsController \union ParkingLotsController
    \union FloorsController \union SlotsController \union GatesController \union ConversationsController
    \union DashboardController \union OrganizationsController \union UsersController
    \union PublicParkingFinderController \union PaymentController

\* RolesGuard after JwtAuthGuard: one of the roles named on the handler.
canActivate(role, call) == <<call, role>> \in Served

(***************************************************************************)
(* Tables written by a call.                                               *)
(***************************************************************************)
Tables == {"bookings", "slots", "slot count", "events", "vehicles", "vehicle count", "credentials", "lots",
           "floors", "gates", "conversations", "messages", "users", "payments"}

Touch(calls, tables) == calls \X tables

Writes ==
    Touch({"createBooking", "cancelBooking"}, {"bookings", "slots"})
    \union Touch({"checkInParkingEvent", "checkOutParkingEvent"}, {"events", "bookings", "slots"})
    \union Touch({"createVehicle", "deleteVehicle"}, {"vehicles", "vehicle count"})
    \union Touch({"updateVehicle"}, {"vehicles"})
    \union Touch({"assignRfidCredential", "generateQrCredential", "revokeVehicleCredential"}, {"credentials"})
    \union Touch({"createParkingLot", "updateParkingLot", "deleteParkingLot"}, {"lots"})
    \union Touch({"createFloor", "updateFloor"}, {"floors"})
    \union Touch({"deleteFloor"}, {"floors", "slots", "slot count"})
    \union Touch({"createSlot", "createBulkSlots", "deleteSlot", "deleteSlots"}, {"slots", "slot count"})
    \union Touch({"updateSlotStatus"}, {"slots"})
    \union Touch({"updateGate", "deleteGate"}, {"gates"})
    \union Touch({"startSecurityConversation", "startCustomerCareConversation"}, {"conversations", "messages"})
    \union Touch({"sendConversationMessage"}, {"conversations", "messages"})
    \union Touch({"resolveConversation"}, {"conversations"})
    \union Touch({"createUser"}, {"users"})
    \union Touch({"mockPaymentSuccess", "mockPaymentFailure", "verifyRazorpayPayment"}, {"payments"})

(***************************************************************************)
(* Tables read by a call: the rows its answer lists or counts.             *)
(***************************************************************************)
getOperatorMetrics(role) ==
    CASE role = "USER" -> {"vehicle count", "bookings", "events"}
      [] role = "SECURITY" -> {"slots", "bookings", "events"}
      [] OTHER -> {"slots", "bookings", "events", "lots"}

Reads(role) ==
    Touch({"getMyBookings", "getBookings", "getBooking"}, {"bookings"})
    \union Touch({"getActiveParkingEvents", "getParkingEventHistory", "getParkingEvents"}, {"events"})
    \union Touch({"getMyVehicles", "getVehicles"}, {"vehicles"})
    \union Touch({"getVehicleCredentials"}, {"credentials"})
    \union Touch({"getParkingLots", "getParkingLot"}, {"lots"})
    \union Touch({"getFloors"}, {"floors"})
    \union Touch({"getSlots", "getAvailableSlotsForBooking"}, {"slots"})
    \union Touch({"getSlotMap"}, {"floors", "slots", "bookings", "events"})
    \union Touch({"listConversations"}, {"conversations", "messages"})
    \union Touch({"getConversationMessages"}, {"messages"})
    \union Touch({"getOnboardingStatus"}, {"lots", "floors", "slot count", "users"})
    \union Touch({"getOperatorMetrics"}, getOperatorMetrics(role))
    \union Touch({"getRecentActivity"}, {"events"})
    \union Touch({"getUsers", "getUserSummary"}, {"users"})
    \union Touch({"getPayments", "getUserPayments", "getPaymentSummary"}, {"payments"})
=============================================================================
