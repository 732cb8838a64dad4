------------------------------- MODULE GatePage -------------------------------
(***************************************************************************)
(* SecurityGatePage: the guard searches, picks a car, confirms, and is told *)
(* what happened.  Searches and actions are requests; the page goes on     *)
(* while one is under way, and a confirmation that waits can be closed with *)
(* Escape.  Each car stands for its booking.                               *)
(***************************************************************************)
EXTENDS Integers, FiniteSets

CONSTANTS
    Cars,
    NoCar

ASSUME CarsAssumption == NoCar \notin Cars

VARIABLES
    screen,     \* [step, matches, result, confirmOpen, successMessage]; a
                \* match is [car, action], a message where the car is now
    searching,  \* the cars the query fits, its answer, or "none"
    acting,     \* the check-in or check-out under way
    atGate,     \* in the services: "out", "in", or "barred" (no action possible)
    attended,   \* history: the car whose action the guard confirmed last
    walked      \* history: "Search again" was pressed with an action under way

gatePageVars == <<screen, searching, acting, atGate, attended, walked>>

NoMatch == [car |-> NoCar, action |-> "NONE"]
NoAction == [at |-> "none", car |-> NoCar, action |-> "NONE"]
NoSearch == [at |-> "none", cars |-> {}, matches |-> {}]
MessageOf == [CHECK_IN |-> "in", CHECK_OUT |-> "out"]

\* actionPending: until onSuccess, which first awaits the queries it
\* invalidates, or onError.
actionPending == acting.at # "none"

Search == [step |-> "search", matches |-> {}, result |-> NoMatch, confirmOpen |-> FALSE,
           successMessage |-> "none"]

GatePageInit ==
    /\ screen = Search
    /\ searching = NoSearch
    /\ acting = NoAction
    /\ atGate \in [Cars -> {"out", "in", "barred"}]
    /\ attended = NoCar
    /\ walked = FALSE

(***************************************************************************)
(* The search.                                                             *)
(***************************************************************************)
\* The form is not shown on other steps, its button is disabled meanwhile, and
\* a dialog in front of it must be closed first.
handleSearch(cars) ==
    /\ screen.step = "search" /\ ~screen.confirmOpen
    /\ searching = NoSearch
    /\ searching' = [NoSearch EXCEPT !.at = "sent", !.cars = cars]
    /\ UNCHANGED <<screen, acting, atGate, attended, walked>>

gateAction == [out |-> "CHECK_IN", in |-> "CHECK_OUT", barred |-> "NONE"]

ServeSearch ==
    /\ searching.at = "sent"
    /\ searching' = [searching EXCEPT !.at = "answered",
                        !.matches = {[car |-> c, action |-> gateAction[atGate[c]]] : c \in searching.cars}]
    /\ UNCHANGED <<screen, acting, atGate, attended, walked>>

\* searchMutation.onSuccess, whatever the step is by then: NOT_FOUND,
\* MULTIPLE_MATCHES, one match.
ShowMatches ==
    /\ searching.at = "answered"
    /\ screen' = [screen EXCEPT
            !.step = CASE Cardinality(searching.matches) = 0 -> "search"
                       [] Cardinality(searching.matches) = 1 -> "result"
                       [] OTHER -> "matches",
            !.matches = IF Cardinality(searching.matches) > 1 THEN searching.matches ELSE {},
            !.result = IF Cardinality(searching.matches) = 1
                       THEN CHOOSE m \in searching.matches : TRUE ELSE NoMatch]
    /\ searching' = NoSearch
    /\ UNCHANGED <<acting, atGate, attended, walked>>

SearchFails ==
    /\ searching # NoSearch
    /\ searching' = NoSearch
    /\ UNCHANGED <<screen, acting, atGate, attended, walked>>

handleSelectMatch(match) ==
    /\ screen.step = "matches"
    /\ match \in screen.matches
    /\ match.action # "NONE"
    /\ screen' = [screen EXCEPT !.step = "result", !.result = match]
    /\ UNCHANGED <<searching, acting, atGate, attended, walked>>

\* "Search again" and "Back"; the dialog is not touched, but is in front.
handleReset ==
    /\ screen.step # "search" /\ ~screen.confirmOpen
    /\ screen' = Search
    /\ walked' = actionPending
    /\ UNCHANGED <<searching, acting, atGate, attended>>

(***************************************************************************)
(* The action.                                                             *)
(***************************************************************************)
onAction ==
    /\ screen.step = "result" /\ ~screen.confirmOpen
    /\ screen.result.action # "NONE"
    /\ ~actionPending
    /\ screen' = [screen EXCEPT !.confirmOpen = TRUE]
    /\ UNCHANGED <<searching, acting, atGate, attended, walked>>

\* Cancel is disabled while the action is under way; Escape is not.
onClose ==
    /\ screen.confirmOpen
    /\ screen' = [screen EXCEPT !.confirmOpen = FALSE]
    /\ UNCHANGED <<searching, acting, atGate, attended, walked>>

handleConfirmAction ==
    /\ screen.confirmOpen
    /\ ~actionPending
    /\ screen.result # NoMatch
    /\ acting' = [at |-> "sent", car |-> screen.result.car, action |-> screen.result.action]
    /\ attended' = screen.result.car
    /\ UNCHANGED <<screen, searching, atGate, walked>>

\* checkInParkingEvent, checkOutParkingEvent in the services: the car is where
\* the action expects it, or the action is refused.
ServeAction ==
    /\ acting.at = "sent"
    /\ IF gateAction[atGate[acting.car]] = acting.action
       THEN /\ atGate' = [atGate EXCEPT ![acting.car] = MessageOf[acting.action]]
            /\ acting' = [acting EXCEPT !.at = "done"]
       ELSE /\ acting' = [acting EXCEPT !.at = "refused"]
            /\ UNCHANGED atGate
    /\ UNCHANGED <<screen, searching, attended, walked>>

\* Fault: the confirmation stays open.
succeedOpen ==
    [screen EXCEPT !.step = "success",
                   !.successMessage = MessageOf[acting.action],
                   !.result = IF acting.action = "CHECK_OUT" THEN NoMatch ELSE @]

\* onSuccess: a car checked out is forgotten, one checked in is not.
succeed ==
    [screen EXCEPT !.step = "success",
                   !.confirmOpen = FALSE,
                   !.successMessage = MessageOf[acting.action],
                   !.result = IF acting.action = "CHECK_OUT" THEN NoMatch ELSE @]

ActionSucceeds ==
    /\ acting.at = "done"
    /\ screen' = succeed
    /\ acting' = NoAction
    /\ UNCHANGED <<searching, atGate, attended, walked>>

\* onError; no answer in 30 seconds is one, whatever the services did.  Already
\* checked out: back to the search.
ActionFails ==
    /\ actionPending
    /\ \/ screen' = [screen EXCEPT !.confirmOpen = FALSE]
       \/ /\ acting.at = "refused" /\ acting.action = "CHECK_OUT"
          /\ screen' = [screen EXCEPT !.confirmOpen = FALSE, !.step = "search", !.result = NoMatch]
    /\ acting' = NoAction
    /\ UNCHANGED <<searching, atGate, attended, walked>>

\* Another guard, the camera at the gate, the manager.
Elsewhere(car, state) ==
    /\ car # attended
    /\ atGate' = [atGate EXCEPT ![car] = state]
    /\ UNCHANGED <<screen, searching, acting, attended, walked>>

GatePageNext ==
    \/ \E cars \in SUBSET Cars : handleSearch(cars)
    \/ \E match \in screen.matches : handleSelectMatch(match)
    \/ ServeSearch \/ ShowMatches \/ SearchFails
    \/ handleReset \/ onAction \/ onClose \/ handleConfirmAction
    \/ ServeAction \/ ActionSucceeds \/ ActionFails
    \/ \E car \in Cars, state \in {"out", "in", "barred"} : Elsewhere(car, state)

GatePageSpec == GatePageInit /\ [][GatePageNext]_gatePageVars

(***************************************************************************)
(* Properties.                                                             *)
(***************************************************************************)
GatePageTypeOK ==
    /\ screen.step \in {"search", "matches", "result", "success"}
    /\ screen.confirmOpen \in BOOLEAN
    /\ screen.result.car \in Cars \union {NoCar}
    /\ acting.at \in {"none", "sent", "done", "refused"}
    /\ atGate \in [Cars -> {"out", "in", "barred"}]

\* A guard who waits for the answer is told the truth: success is shown for the
\* car confirmed last, which the services then have where the message says;
\* and a confirmation is open only for the car on the page, never over an
\* empty page or a success (SecurityGatePage).  Left out: a guard who closed the
\* waiting confirmation and searched again.
GuardToldTruth ==
    ~walked =>
        /\ screen.step = "success" =>
              /\ atGate[attended] = screen.successMessage
              /\ screen.result \in {NoMatch, [car |-> attended, action |-> "CHECK_IN"]}
        /\ screen.confirmOpen =>
              /\ screen.step = "result" /\ screen.result.action # "NONE"
              /\ actionPending => acting.car = screen.result.car
===============================================================================
