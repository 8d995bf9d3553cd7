----------------------------- MODULE ConnHandler -----------------------------
(***************************************************************************)
(* The hub's application state and what goes with it: connectable adverts, *)
(* the connected device, an upgrade in progress and the update of the      *)
(* connection parameters.  The operators are the functions of the          *)
(* connection and advertisement handlers on that data.                     *)
(***************************************************************************)
EXTENDS ConnParam

AppStates == {"init", "advertising", "idle", "connected", "disconnecting"}
OfConnection(state) == state \in {"connected", "disconnecting"}

(* After a reset. *)
Reset ==
    [state |-> "init",
     adv |-> FALSE,         \* the timer of connectable adverts is running
     id |-> FALSE,          \* gatt_data.device_id is a connected device
     otau |-> FALSE,        \* gatt_data.otau_in_progress
     mesh |-> TRUE,         \* the mesh is running
     cp |-> Inactive]

AppDataInit(a) ==
    [a EXCEPT !.cp = StopConnParamsUpdate(@), !.id = FALSE, !.otau = FALSE]

(* AppSetState, exiting the old state *)
Leave(a) ==
    CASE a.state = "disconnecting" -> AppDataInit(a)
      [] a.state = "advertising" -> [a EXCEPT !.adv = FALSE]
      [] OTHER -> a

(* AppSetState(state), for the states that entering does nothing more for *)
AppSetState(a, state) ==
    IF a.state = state THEN a ELSE [Leave(a) EXCEPT !.state = state]

\* Mutant of GattTriggerConnectableAdverts: an idle hub is left idle.
TriggerIfAdvertising(a, bearerOn) ==
    IF ~bearerOn THEN AppSetState(a, "idle")
    ELSE IF a.state = "idle" THEN a ELSE [a EXCEPT !.adv = TRUE]

(***************************************************************************)
(* An advert is sent and the next one scheduled, in whatever state; with   *)
(* the GATT bearer off the application becomes idle instead.               *)
(***************************************************************************)
GattTriggerConnectableAdverts(a, bearerOn) ==
    IF bearerOn THEN [a EXCEPT !.adv = TRUE] ELSE AppSetState(a, "idle")

StartAdvertising(a, bearerOn) ==
    IF a.state = "advertising" THEN a
    ELSE GattTriggerConnectableAdverts(AppSetState(a, "advertising"), bearerOn)

GaiaOtauInProgress(a, on) == [a EXCEPT !.otau = on, !.mesh = ~on]

AppRequestConnParamUpdate(a) ==
    LET c == StopConnParamsUpdate(a.cp)
    IN  [a EXCEPT !.cp = IF a.otau THEN RequestConnParamsUpdateOnce(c)
                         ELSE RequestConnParamsUpdate(c)]
=============================================================================
