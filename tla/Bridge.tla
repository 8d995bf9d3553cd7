-------------------------------- MODULE Bridge --------------------------------
(***************************************************************************)
(* A hub as the bridge between a GATT host (a phone, or another hub) and   *)
(* the mesh: connectable adverts, connections and their ends, the bearer   *)
(* state that the mesh sets and a connection changes for its duration, and *)
(* the connection parameters, which an upgrade waits for.                  *)
(***************************************************************************)
EXTENDS ConnHandler

CONSTANTS Intervals,    \* connection intervals a host chooses
          MaxConns,     \* connections that are made
          MaxEvents     \* events of the host, the mesh and the supply

ASSUME BridgeAssumption ==
    Intervals \subseteq Nat \ {0} /\ MaxConns \in Nat /\ MaxEvents \in Nat

VARIABLES app,          \* the hub's RAM
          cm,           \* the device in the connection manager: "down", "up"
                        \* or "closing"
          iv,           \* the connection's interval, 0 without one
          upd,          \* the interval about to take effect, or 0
          ota,          \* the upgrade: "no", "wait" (for parameters), "run"
          bridge,       \* the CS user key's CSKEY_BRIDGE_ENABLE_BIT
          assoc,        \* the association: "no", "started" or "yes"
          stored,       \* the bearer state in NVM
          applied,      \* the bearer state the mesh stack has been given
          panic,        \* the hub has panicked, for this reason
          conns, events

conn == <<cm, iv, upd, ota>>
bearers == <<bridge, assoc, stored, applied>>
vars == <<app, cm, iv, upd, ota, bridge, assoc, stored, applied, panic, conns, events>>

BearerStates == [gatt : BOOLEAN, prom : BOOLEAN]

(* The bearers of a hub without an association: promiscuous, bridge or not. *)
Unassociated == [gatt |-> bridge, prom |-> TRUE]

(* handleCmInitCfm *)
Booted == StartAdvertising(AppDataInit(Reset), stored.gatt)

Init ==
    /\ bridge \in BOOLEAN /\ assoc \in {"no", "yes"}
    /\ stored \in BearerStates
    /\ assoc = "no" => stored = Unassociated
    /\ applied = stored
    /\ app = Booted
    /\ cm = "down" /\ iv = 0 /\ upd = 0 /\ ota = "no"
    /\ panic = "none" /\ conns = 0 /\ events = 0

Event == panic = "none" /\ events < MaxEvents /\ events' = events + 1
Running == panic = "none" /\ UNCHANGED events

-----------------------------------------------------------------------------
(* Connections *)

(* handleConnNotify, cm_conn_res_success *)
Connect ==
    /\ Running /\ cm = "down" /\ app.adv /\ conns < MaxConns
    /\ cm' = "up" /\ iv' \in Intervals
    /\ conns' = conns + 1
    /\ applied' = [stored EXCEPT !.prom = TRUE]
    /\ app' = AppRequestConnParamUpdate(
                AppSetState([app EXCEPT !.id = TRUE], "connected"))
    /\ UNCHANGED <<upd, ota, bridge, assoc, stored, panic>>

(* handleBondNotify: pairing has failed. *)
PairingFails ==
    /\ Event /\ cm = "up"
    /\ app' = AppSetState(app, "disconnecting")
    /\ cm' = IF app.state # "disconnecting" /\ app.id THEN "closing" ELSE cm
    /\ UNCHANGED <<iv, upd, ota, bearers, panic, conns>>

(* CMDisconnect: encryption has failed, or the upgrade is over. *)
HangUp ==
    /\ Event /\ cm = "up"
    /\ cm' = "closing"
    /\ UNCHANGED <<app, iv, upd, ota, bearers, panic, conns>>

(***************************************************************************)
(* handleConnNotify, cm_disconn_res_success: the bearer state is restored, *)
(* the mesh started, all data of the connection reset; but nothing takes   *)
(* back a request that the host has not answered.                          *)
(***************************************************************************)
Overdue(c) ==
    [c EXCEPT !.req = 0, !.late = IF c.req # 0 THEN @ + 1 ELSE @]

Disconnected ==
    LET a == GaiaOtauInProgress([app EXCEPT !.cp = Overdue(@)], FALSE) IN
    /\ panic = "none" /\ cm # "down"
    /\ cm' = "down" /\ iv' = 0 /\ upd' = 0 /\ ota' = "no"
    /\ applied' = stored
    /\ IF OfConnection(app.state)
       THEN /\ app' = StartAdvertising(AppDataInit(a), stored.gatt)
            /\ panic' = panic
       ELSE app' = a /\ panic' = "app_panic_invalid_state"
    /\ UNCHANGED <<bridge, assoc, stored, conns>>

LinkLost == Event /\ Disconnected
HungUp == cm = "closing" /\ Disconnected /\ UNCHANGED events

(* The host reads or writes, perhaps while the hub hangs up. *)
HostAccess ==
    /\ Event /\ cm # "down"
    /\ app' = [app EXCEPT !.cp = handleServerAccessed(@)]
    /\ panic' = IF cm = "up" THEN panic ELSE "cm_panic_invalid_state"
    /\ UNCHANGED <<conn, bearers, conns>>

PowerCycle ==
    /\ Event
    /\ cm' = "down" /\ iv' = 0 /\ upd' = 0 /\ ota' = "no"
    /\ applied' = stored /\ app' = Booted
    /\ assoc' = IF assoc = "started" THEN "no" ELSE assoc
    /\ UNCHANGED <<bridge, stored, panic, conns>>

-----------------------------------------------------------------------------
(* Adverts and bearers *)

gattAdvertTimerHandler ==
    /\ Running /\ app.adv
    /\ app' = GattTriggerConnectableAdverts([app EXCEPT !.adv = FALSE], stored.gatt)
    /\ UNCHANGED <<conn, bearers, panic, conns>>

\* Mutant of BearerStateEvent: the connection is not looked at.
BearerAtOnce ==
    /\ Event /\ assoc = "yes" /\ app.mesh
    /\ stored' \in BearerStates
    /\ app' = GattTriggerConnectableAdverts(app, stored'.gatt)
    /\ applied' = stored'
    /\ UNCHANGED <<conn, bridge, assoc, panic, conns>>

(* CSR_MESH_BEARER_STATE_EVENT: of a hub that is idle, too. *)
BearerStateEvent ==
    /\ Event /\ assoc = "yes" /\ app.mesh
    /\ stored' \in BearerStates
    /\ IF app.id THEN UNCHANGED <<app, applied>>
       ELSE /\ app' = GattTriggerConnectableAdverts(app, stored'.gatt)
            /\ applied' = stored'
    /\ UNCHANGED <<conn, bridge, assoc, panic, conns>>

(* CSR_MESH_ASSOC_STARTED_EVENT, and the failure of an association *)
AssociationStarted ==
    /\ Event /\ assoc = "no" /\ app.mesh
    /\ assoc' = "started"
    /\ UNCHANGED <<app, conn, bridge, stored, applied, panic, conns>>

AssociationFailed ==
    /\ Running /\ assoc = "started" /\ app.mesh
    /\ assoc' = "no"
    /\ UNCHANGED <<app, conn, bridge, stored, applied, panic, conns>>

\* Mutant of AssociationComplete: the connection is not looked at.
AppliedAtOnce ==
    /\ Running /\ assoc = "started" /\ app.mesh
    /\ assoc' = "yes"
    /\ stored' = [stored EXCEPT !.prom = FALSE]
    /\ applied' = stored'
    /\ UNCHANGED <<app, conn, bridge, panic, conns>>

(* CSR_MESH_ASSOC_COMPLETE_EVENT: promiscuous mode ends, or will. *)
AssociationComplete ==
    /\ Running /\ assoc = "started" /\ app.mesh
    /\ assoc' = "yes"
    /\ stored' = [stored EXCEPT !.prom = FALSE]
    /\ applied' = IF app.id THEN applied ELSE stored'
    /\ UNCHANGED <<app, conn, bridge, panic, conns>>

(* Adverts are left as they are, whatever becomes of the bearer. *)
RemoveAssociation ==
    /\ Event /\ assoc # "no" /\ app.mesh
    /\ assoc' = "no" /\ stored' = Unassociated /\ applied' = Unassociated
    /\ UNCHANGED <<app, conn, bridge, panic, conns>>

-----------------------------------------------------------------------------
(* Connection parameters *)

(* handleConnParamUpdateCallback: the callback is taken back; an upgrade   *)
(* that waited for it goes on.                                             *)
Told(c) == [c EXCEPT !.cb = FALSE]
Continues == IF app.cp.cb /\ app.otau /\ ota = "wait" THEN "run" ELSE ota

(* The SYNC_REQ of an upgrade, to a hub that is not on trial. *)
UpgradeStarts ==
    LET a == GaiaOtauInProgress(app, TRUE) IN
    /\ Running /\ cm = "up" /\ ota = "no"
    /\ IF iv <= 32
       THEN /\ app' = [a EXCEPT !.cp = StopConnParamsUpdate(@)]
            /\ ota' = "run"
       ELSE /\ app' = AppRequestConnParamUpdate([a EXCEPT !.cp.cb = TRUE])
            /\ ota' = "wait"
    /\ UNCHANGED <<cm, iv, upd, bearers, panic, conns>>

(***************************************************************************)
(* requestConnParamUpdate on the data c: a request to no device is a       *)
(* programming error for the connection manager.  The firmware is busy     *)
(* while one is unanswered, and may be busy or fail otherwise.             *)
(***************************************************************************)
Request(c, status) ==
    IF ~c.id
    THEN panic' = "cm_panic_invalid_device_id" /\ UNCHANGED <<app, ota>>
    ELSE /\ c.req # 0 => status = "busy"
         /\ app' = [app EXCEPT !.cp = IF status = "failed"
                                      THEN Told(requestConnParamUpdate(c, status))
                                      ELSE requestConnParamUpdate(c, status)]
         /\ ota' = IF status = "failed" THEN Continues ELSE ota
         /\ panic' = panic

(* The data after one of the module's timers of this kind has gone off. *)
Expired(kind) ==
    (IF app.cp.tid = kind THEN {[app.cp EXCEPT !.tid = "none"]} ELSE {})
    \cup (IF app.cp.stray[kind] > 0 THEN {[app.cp EXCEPT !.stray[kind] = @ - 1]}
                                    ELSE {})

PauseEnds ==
    /\ Running
    /\ \E c \in Expired("cpp") :
           app' = [app EXCEPT !.cp = handleGapCppTimerExpiry(c)]
    /\ UNCHANGED <<conn, bearers, panic, conns>>

RequestDue ==
    \E c \in Expired("cpc"), status \in {"success", "busy", "failed"} :
        /\ IF c.req # 0 \/ status = "success" THEN Running ELSE Event
        /\ Request(c, status)
        /\ UNCHANGED <<cm, iv, upd, bearers, conns>>

(* The data once the host has answered the request. *)
Answered == [app.cp EXCEPT !.req = 0]

UpdateAccepted ==
    /\ Running /\ app.cp.req # 0 /\ upd = 0
    /\ app' = [app EXCEPT !.cp = handleConnParamUpdateCfm(Answered, TRUE)]
    /\ upd' = app.cp.req
    /\ UNCHANGED <<cm, iv, ota, bearers, panic, conns>>

\* Mutant of Refuse: the callback is told of accepted requests only.
RefuseInSilence(c) ==
    /\ app' = [app EXCEPT !.cp = handleConnParamUpdateCfm(c, FALSE)]
    /\ ota' = ota

(* The refusal on the data c. *)
Refuse(c) ==
    LET d == handleConnParamUpdateCfm(c, FALSE)
        GivesUp == c.left = 0 /\ ~c.two
    IN
    /\ app' = [app EXCEPT !.cp = IF GivesUp THEN Told(d) ELSE d]
    /\ ota' = IF GivesUp THEN Continues ELSE ota

UpdateRefused ==
    /\ Running /\ app.cp.req # 0
    /\ Refuse(Answered)
    /\ UNCHANGED <<cm, iv, upd, bearers, panic, conns>>

(* The answer to a request of a connection that is gone. *)
LateRefusal ==
    /\ Running /\ app.cp.late > 0
    /\ Refuse([app.cp EXCEPT !.late = @ - 1])
    /\ UNCHANGED <<cm, iv, upd, bearers, panic, conns>>

(* handleConnParamUpdateInd: the host changes the interval by itself. *)
HostUpdates ==
    /\ Event /\ cm = "up" /\ upd = 0
    /\ upd' \in Intervals
    /\ IF app.cp.tid = "none" /\ upd' > MaxInterval(app.cp)
       THEN \E status \in {"success", "busy", "failed"} : Request(app.cp, status)
       ELSE UNCHANGED <<app, ota, panic>>
    /\ UNCHANGED <<cm, iv, bearers, conns>>

(* handleCmConnectionUpdated, of the application and of this module *)
ConnectionUpdated ==
    /\ Running /\ upd # 0
    /\ upd' = 0
    /\ IF OfConnection(app.state)
       THEN /\ iv' = upd /\ ota' = Continues /\ panic' = panic
            /\ app' = [app EXCEPT !.id = TRUE, !.cp = Told(@)]
       ELSE /\ UNCHANGED <<app, iv, ota>>
            /\ panic' = "app_panic_invalid_state"
    /\ UNCHANGED <<cm, bearers, conns>>

-----------------------------------------------------------------------------
Next ==
    \/ Connect \/ PairingFails \/ HangUp \/ LinkLost \/ HungUp \/ HostAccess
    \/ PowerCycle \/ gattAdvertTimerHandler \/ BearerStateEvent
    \/ AssociationStarted \/ AssociationFailed \/ AssociationComplete
    \/ RemoveAssociation \/ UpgradeStarts \/ PauseEnds \/ RequestDue
    \/ UpdateAccepted \/ UpdateRefused \/ LateRefusal \/ HostUpdates
    \/ ConnectionUpdated

(* Timers expire, and the host answers what it is asked. *)
Fairness ==
    /\ WF_vars(PauseEnds) /\ WF_vars(RequestDue)
    /\ WF_vars(UpdateAccepted \/ UpdateRefused) /\ WF_vars(ConnectionUpdated)
    /\ WF_vars(HungUp) /\ WF_vars(gattAdvertTimerHandler)

Spec == Init /\ [][Next]_vars /\ Fairness

-----------------------------------------------------------------------------
(* Every variable holds a value of the kind the code gives it. *)
TypeOK ==
    /\ app.state \in AppStates
    /\ {app.adv, app.id, app.otau, app.mesh} \subseteq BOOLEAN
    /\ app.cp.tid \in Timers \cup {"none"}
    /\ app.cp.set \in {1, 2} /\ app.cp.left \in 0 .. MaxRetry
    /\ app.cp.req \in {0, 8, 32, 96} /\ app.cp.late \in Nat
    /\ cm \in {"down", "up", "closing"}
    /\ {iv, upd} \subseteq Intervals \cup {0, 8, 32, 96}
    /\ ota \in {"no", "wait", "run"}
    /\ bridge \in BOOLEAN /\ assoc \in {"no", "started", "yes"}
    /\ {stored, applied} \subseteq BearerStates

(***************************************************************************)
(* HALConnectionParamUpdateReq: "request cannot be sent, possibly due to   *)
(* no connection" is the failure cm_status_failed: a request that has no   *)
(* device fails, and the hub goes on.                                      *)
(***************************************************************************)
UnsentRequestFails == panic # "cm_panic_invalid_device_id"

(***************************************************************************)
(* A hub that has stopped advertising, without a host and with its GATT    *)
(* bearer on, may never be reached again.  Whatever the order of           *)
(* connections and their ends, bearer events (of an idle hub too, which is *)
(* to take up its adverts again), associations and power cycles, a hub     *)
(* that advertises goes on doing so: the one step that leaves it silent is *)
(* the removal of its association while it is idle, for that turns the     *)
(* bearer on and sends no advert.                                          *)
(***************************************************************************)
Findable == panic = "none" /\ cm = "down" /\ stored.gatt => app.adv

StaysFindable ==
    [][Findable /\ ~Findable'
         => app.state = "idle" /\ assoc # "no" /\ assoc' = "no"]_vars

(***************************************************************************)
(* An event of a connection that finds the application in another state    *)
(* than connected or disconnecting makes the hub panic ("Control should    *)
(* never come here").  Nothing that happens while a connection lasts takes *)
(* the application out of these states, but the advert timer that a hub    *)
(* found in state idle has taken into the connection, once the mesh has    *)
(* turned the bearer off.                                                  *)
(***************************************************************************)
ConnectedUntilAdvert ==
    [][cm # "down" /\ cm' # "down"
       /\ OfConnection(app.state) /\ ~OfConnection(app'.state)
         => app.adv /\ ~stored.gatt]_vars

(***************************************************************************)
(* The mesh stack is promiscuous for as long as a host is connected, and   *)
(* has the stored bearer state once it is gone, however that was changed   *)
(* meanwhile.                                                              *)
(***************************************************************************)
BearersFollowLink ==
    /\ cm = "down" => applied = stored
    /\ cm = "up" => applied.prom

(***************************************************************************)
(* The host gets its answer: an upgrade that waits for faster parameters   *)
(* goes on, with or without them, or its connection ends, whatever becomes *)
(* of requests, of this connection or of the one before, unless a late     *)
(* refusal makes the hub panic (UnsentRequestFails).                       *)
(***************************************************************************)
UpgradeAnswered == ota = "wait" ~> ota # "wait" \/ panic # "none"
=============================================================================
