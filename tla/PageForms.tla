------------------------------- MODULE PageForms -------------------------------
(***************************************************************************)
(* The forms and confirmations of the web frontend's pages.  What a user    *)
(* filled in is sent by a mutation; the page goes on meanwhile, and the     *)
(* mutation's handler closes or refills the form when the answer has come   *)
(* and the queries it names were fetched again.  The handler that runs is   *)
(* the one of the latest rendering (useMutation hands each rendering's      *)
(* options to the mutation that is pending).                                *)
(*                                                                         *)
(* A form is described by what its code does about a pending mutation;      *)
(* Init picks one.  What it holds is a number, new whenever it changes.     *)
(***************************************************************************)
EXTENDS Integers, FiniteSets

CONSTANTS
    Targets,       \* rows a form can be opened for, and one for a form that creates
    MaxContents,   \* bound: how often what a form holds may change
    MaxRequests    \* bound: mutations of a form under way at the same time

NotOpen == "closed"

ASSUME FormsAssumption == NotOpen \notin Targets /\ MaxContents \in Nat /\ MaxRequests \in Nat

VARIABLES
    form,       \* the name of the form a behaviour is about
    opened,     \* the row it is open for, NotOpen when it is closed
    content,    \* what it holds
    contents,   \* how many contents there were
    requests,   \* mutations under way: [nr, at, for, content]
    served,       \* history: contents the service has carried out
    acknowledged,  \* history: contents whose success was handled
    refused     \* history: contents whose request got an error, carried out or not

formVars == <<form, opened, content, contents, requests, served, acknowledged, refused>>

(***************************************************************************)
(* How forms differ.  Buttons: locksSubmit, the button is disabled while the *)
(* mutation is pending; locksClose, closing does nothing then; onClose,     *)
(* what closing does to what was typed.  The second part is what the        *)
(* handler of an answered mutation does to the form.                        *)
(***************************************************************************)
Buttons(locksSubmit, locksClose, closing) ==
    [locksSubmit |-> locksSubmit, locksClose |-> locksClose, locksText |-> FALSE, onClose |-> closing,
     always |-> FALSE, hasText |-> TRUE]

\* A form that is part of the page; locksText: its fields are disabled, too.
Fields(locksText) ==
    [locksSubmit |-> TRUE, locksClose |-> FALSE, locksText |-> locksText, onClose |-> {},
     always |-> TRUE, hasText |-> TRUE]

\* Confirm and Cancel are disabled while loading; Escape is not.
ConfirmDialog == [Buttons(TRUE, FALSE, {"clears"}) EXCEPT !.hasText = FALSE]

WhenAnswered(buttons, effect) == [buttons |-> buttons, onSuccess |-> effect]

\* ParkingLotsPage.  closeForm does nothing while isSaving, and isSaving still
\* holds in the handlers: the form stays open after its success.
parkingLotButtons == Buttons(TRUE, TRUE, {"clears"})
parkingLotForm == WhenAnswered(parkingLotButtons, "nothing")
parkingLotDelete == WhenAnswered(ConfirmDialog, "closes")

\* ParkingLotDetailsPage.  The button of the floor form is never disabled.
floorButtons == Buttons(FALSE, FALSE, {"clears"})
floorForm == WhenAnswered(floorButtons, "closes")
slotButtons == Buttons(TRUE, FALSE, {"clears"})
slotForm == WhenAnswered(slotButtons, "closes")
bulkButtons == Buttons(TRUE, FALSE, {"clears"})
bulkForm == WhenAnswered(bulkButtons, "closes")
deleteTargets == WhenAnswered(ConfirmDialog, "closes")
settingsFields == Fields(FALSE)
settingsForm == WhenAnswered(settingsFields, "nothing")

\* VehiclesPage and its VehicleCredentialsPanel.
vehicleButtons == Buttons(TRUE, FALSE, {"clears"})
vehicleForm == WhenAnswered(vehicleButtons, "closes")
vehicleDelete == WhenAnswered(ConfirmDialog, "closes")
rfidButtons == Buttons(TRUE, FALSE, {"keeps"})
rfidForm == WhenAnswered(rfidButtons, "closes")
revokeTarget == WhenAnswered(ConfirmDialog, "closes")

\* ParkingLotGatesPage, BookingsPage, PaymentsPage.
gateButtons == Buttons(TRUE, FALSE, {"clears"})
gateForm == WhenAnswered(gateButtons, "closes")
gateDelete == WhenAnswered(ConfirmDialog, "closes")
bookingButtons == Buttons(TRUE, FALSE, {"clears"})
bookingForm == WhenAnswered(bookingButtons, "closes")
cancelTarget == WhenAnswered(ConfirmDialog, "closes")
mockDialogs == [ConfirmDialog EXCEPT !.hasText = TRUE]
actionTarget == WhenAnswered(mockDialogs, "closes")

\* CreateUserDialog: handleClose waits, the handler calls onClose itself.
userButtons == Buttons(TRUE, TRUE, {"clears"})
userForm == WhenAnswered(userButtons, "closes")

\* BrandingSettingsPage: setForm with the answer.
brandingFields == Fields(FALSE)
brandingForm == WhenAnswered(brandingFields, "refills")

\* UserSupportPage: Cancel keeps what was typed, Escape does not.  The draft of a
\* message stays when another conversation is selected.
securityButtons == Buttons(TRUE, FALSE, {"keeps", "clears"})
securityForm == WhenAnswered(securityButtons, "closes")
careButtons == Buttons(TRUE, FALSE, {"keeps", "clears"})
careForm == WhenAnswered(careButtons, "closes")
draftFields == Fields(TRUE)
messageDraft == WhenAnswered(draftFields, "refills")

\* StaffSupportInbox.
replyFields == Fields(TRUE)
replyDraft == WhenAnswered(replyFields, "refills")

Forms ==
    [parkingLot |-> parkingLotForm, parkingLotDelete |-> parkingLotDelete,
     floor |-> floorForm, slot |-> slotForm, bulk |-> bulkForm,
     structureDelete |-> deleteTargets, settings |-> settingsForm,
     vehicle |-> vehicleForm, vehicleDelete |-> vehicleDelete, rfid |-> rfidForm, revoke |-> revokeTarget,
     gate |-> gateForm, gateDelete |-> gateDelete, booking |-> bookingForm, cancel |-> cancelTarget,
     payment |-> actionTarget, user |-> userForm, branding |-> brandingForm,
     security |-> securityForm, care |-> careForm, message |-> messageDraft, reply |-> replyDraft]

this == Forms[form].buttons
isPending == requests # {}

FormInit ==
    /\ form \in DOMAIN Forms
    /\ opened \in IF this.always THEN Targets ELSE {NotOpen}
    /\ content = 0
    /\ contents = 0
    /\ requests = {}
    /\ served = {}
    /\ acknowledged = {}
    /\ refused = {}

(***************************************************************************)
(* The user.                                                               *)
(***************************************************************************)
NewContent ==
    /\ contents < MaxContents
    /\ contents' = contents + 1
    /\ content' = contents + 1

\* Another conversation is picked: what was typed stays.
Select(target) ==
    /\ this.always
    /\ opened' = target
    /\ UNCHANGED <<form, content, contents, requests, served, acknowledged, refused>>

\* A dialog is in front of the page: it opens for another row only when closed.
openForm(target) ==
    /\ ~this.always /\ opened = NotOpen
    /\ opened' = target
    /\ IF content # 0 THEN UNCHANGED <<content, contents>> ELSE NewContent
    /\ UNCHANGED <<form, requests, served, acknowledged, refused>>

typeInto ==
    /\ opened # NotOpen /\ this.hasText
    /\ ~(this.locksText /\ isPending)
    /\ NewContent
    /\ UNCHANGED <<form, opened, requests, served, acknowledged, refused>>

\* Cancel, Escape, or a click beside the dialog.
closeForm ==
    /\ ~this.always /\ opened # NotOpen
    /\ ~(this.locksClose /\ isPending)
    /\ opened' = NotOpen
    /\ \/ "keeps" \in this.onClose /\ UNCHANGED content
       \/ "clears" \in this.onClose /\ content' = 0
    /\ UNCHANGED <<form, contents, requests, served, acknowledged, refused>>

\* Fault: the button can be pressed again.
submitDisabledNever == FALSE

submitDisabled == this.locksSubmit /\ isPending

Submit ==
    /\ opened # NotOpen /\ content # 0
    /\ ~submitDisabled
    /\ \E nr \in 1..MaxRequests :
          /\ \A r \in requests : r.nr < nr
          /\ requests' = requests \union {[nr |-> nr, at |-> "sent", for |-> opened, content |-> content]}
    /\ UNCHANGED <<form, opened, content, contents, served, acknowledged, refused>>

(***************************************************************************)
(* The answers.                                                            *)
(***************************************************************************)
ServeRequest(r) ==
    /\ r.at = "sent"
    /\ requests' = (requests \ {r}) \union {[r EXCEPT !.at = "answered"]}
    /\ served' = served \union {r.content}
    /\ UNCHANGED <<form, opened, content, contents, acknowledged, refused>>

\* Fault: a dialog stays open when its mutation was answered.
staysOpenAlways(f) == f.onSuccess \in {"nothing", "closes"}

staysOpen(f) == f.onSuccess = "nothing"

\* The queries are fetched again, then the handler closes or refills the form,
\* whatever it holds by now.
handleSuccess(r) ==
    /\ r.at = "answered"
    /\ requests' = requests \ {r}
    /\ acknowledged' = acknowledged \union {r.content}
    /\ IF staysOpen(Forms[form])
       THEN UNCHANGED <<opened, content>>
       ELSE /\ opened' = IF this.always THEN opened ELSE NotOpen
            /\ content' = 0
    /\ UNCHANGED <<form, contents, served, refused>>

\* Refused by the service, or the answer was lost: the form stays as it is.
handleError(r) ==
    /\ requests' = requests \ {r}
    /\ refused' = refused \union {r.content}
    /\ UNCHANGED <<form, opened, content, contents, served, acknowledged>>

\* Settings and branding: the page's query brings other values than before.
Refill ==
    /\ this.always /\ ~this.locksText
    /\ content # 0
    /\ content' = 0
    /\ UNCHANGED <<form, opened, contents, requests, served, acknowledged, refused>>

FormNext ==
    \/ \E t \in Targets : openForm(t) \/ Select(t)
    \/ typeInto \/ closeForm \/ Submit \/ Refill
    \/ \E r \in requests : ServeRequest(r) \/ handleSuccess(r) \/ handleError(r)

FormSpec == FormInit /\ [][FormNext]_formVars

(***************************************************************************)
(* Properties.                                                             *)
(***************************************************************************)
FormTypeOK ==
    /\ opened \in Targets \union {NotOpen}
    /\ content \in 0..contents /\ contents \in 0..MaxContents
    /\ served \union acknowledged \union refused \subseteq 1..contents

\* The floor form can be sent twice, the lot form stays open after its success,
\* and the settings go on showing what was saved.
Repeatable == {"floor", "parkingLot", "settings"}

\* Nothing is sent again that was carried out, unless its answer was an error.
SentOnce ==
    \A r \in requests :
        r.at = "sent" /\ r.content \in served => r.content \in refused \/ form \in Repeatable

\* A form does not go on offering what the user was told is done.
AnsweredIsGone == opened # NotOpen /\ content \in acknowledged => form \in Repeatable

\* A form that cannot be closed waits for its own answer, and one whose fields
\* are locked shows what was sent: the answer throws away nothing else.
WaitsForItsAnswer ==
    \A r \in requests :
        /\ this.locksClose => opened = r.for
        /\ this.locksText => content = r.content

\* The three promises of a form (isPending, disabled, onSuccess of the pages).
FormsSound == SentOnce /\ AnsweredIsGone /\ WaitsForItsAnswer
=============================================================================
