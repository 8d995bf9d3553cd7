------------------------------ MODULE OtaServer ------------------------------
(***************************************************************************)
(* The GAIA over-the-air upgrade server of a hub: the commands it takes    *)
(* from the host, the upgrade file it parses as it arrives, the two        *)
(* application stores in flash, the trial boot and the commit.             *)
(***************************************************************************)
EXTENDS Integers, OtaLink

VARIABLES resume,       \* resume point in NVM: "start" or "post" (POST_REBOOT)
          store,        \* image in each application store: Orig, or the
                        \* chunks of the new image written since it was erased
          committed,    \* the store the configuration store boots from
          once,         \* the store to boot once at the next reset, or 0
          fw,           \* store requests the firmware has not confirmed
          dev           \* the server's RAM

flash == <<resume, store, committed, once>>
server == <<resume, store, committed, once, fw, dev>>

Orig == -1
Stores == {1, 2}
Complete(s) == store[s] \in {Orig, Chunks}

Op(t, s) == [t |-> t, s |-> s]

(* initStateVariables *)
initStateVariables(d) ==
    [d EXCEPT !.valid = FALSE, !.got = 0, !.stage = "id", !.reset = FALSE,
              !.sum = "none"]

(***************************************************************************)
(* GaiaOtauInit: nothing is known of the configuration store until its key *)
(* has been read; a trial boot is given a time to be committed in.         *)
(***************************************************************************)
Booted(app, post) ==
    [app |-> app, cs |-> 0, state |-> "PRE_FAIL", stage |-> "id", got |-> 0,
     valid |-> FALSE, reset |-> FALSE, upgraded |-> FALSE, last |-> FALSE,
     sum |-> "none", part |-> 0, timer |-> post, field |-> "version",
     trial |-> FALSE, commit_cfm |-> FALSE, busy |-> FALSE, cb |-> FALSE,
     closing |-> FALSE]

ServerInit ==
    /\ resume = "start" /\ store = [s \in Stores |-> Orig]
    /\ committed = 1 /\ once = 0
    /\ fw = <<Op("key", 0)>>
    /\ dev = Booted(1, FALSE)

isNewApp == dev.app # dev.cs

\* Mutant of getAppStoreToUpgrade: the two stages are exchanged.
StoreExchanged == IF ~isNewApp THEN dev.app ELSE 3 - dev.app

(* The other store to write an image, the running one to commit it. *)
getAppStoreToUpgrade == IF isNewApp THEN dev.app ELSE 3 - dev.app

(* A write is looked at unless the hub has asked for the disconnection. *)
Takes(t) ==
    /\ link /\ ~dev.closing
    /\ up.t = t /\ up' = None /\ UNCHANGED link

(* A control command re-arms the commit timeout of a trial boot. *)
Touched == [dev EXCEPT !.timer = @ \/ resume = "post"]

-----------------------------------------------------------------------------
(* GAIA commands *)

ConnectReq ==
    /\ Takes("CONNECT")
    /\ tx' = Notify(Heard, Msg("conn_ack", 0))
    /\ UNCHANGED server

DisconnectReq ==
    /\ Takes("DISCONNECT_REQ")
    /\ tx' = Notify(Heard, Msg("disc_ack", 0))
    /\ dev' = [dev EXCEPT !.commit_cfm = FALSE,
                          !.closing = @ \/ dev.commit_cfm]
    /\ UNCHANGED <<flash, fw>>

(* An acknowledgement of the host is a command too, and changes nothing. *)
AckReq ==
    /\ Takes("ACK")
    /\ tx' = Heard
    /\ UNCHANGED server

-----------------------------------------------------------------------------
(* VM upgrade control commands *)

SyncCfm == Msg("SYNC_CFM", IF resume = "post" THEN 3 ELSE 0)
StartCfm == Msg("START_CFM", IF dev.state = "PRE_FAIL" THEN 9 ELSE 0)

(***************************************************************************)
(* SYNC_REQ: the mesh is stopped, and unless this is a trial boot or the   *)
(* connection is fast already, the answer waits for new connection         *)
(* parameters.                                                             *)
(***************************************************************************)
SyncReq ==
    /\ Takes("SYNC_REQ")
    /\ \E now \in {TRUE} \cup {dev.trial} :
        IF now
        THEN /\ dev' = [Touched EXCEPT !.busy = TRUE, !.state = "WAIT_FOR_HOST"]
             /\ tx' = Notify(Acked, SyncCfm)
        ELSE /\ dev' = [Touched EXCEPT !.busy = TRUE, !.cb = TRUE,
                                       !.state = "WAIT_FOR_DEVICE"]
             /\ tx' = Acked
    /\ UNCHANGED <<flash, fw>>

(* handleConnParamUpdateCallback *)
ParamsUpdated ==
    /\ link /\ dev.cb
    /\ IF dev.busy /\ dev.state = "WAIT_FOR_DEVICE"
       THEN /\ dev' = [dev EXCEPT !.cb = FALSE, !.state = "WAIT_FOR_HOST"]
            /\ tx' = Notify(tx, SyncCfm)
       ELSE /\ dev' = [dev EXCEPT !.cb = FALSE]
            /\ tx' = tx
    /\ UNCHANGED <<link, up, flash, fw>>

StartReq ==
    /\ Takes("START_REQ")
    /\ dev' = Touched
    /\ tx' = Notify(Acked, StartCfm)
    /\ UNCHANGED <<flash, fw>>

StartDataReq ==
    /\ Takes("START_DATA_REQ")
    /\ dev' = [Touched EXCEPT !.state = "IN_PROGRESS", !.stage = "id",
                              !.upgraded = FALSE]
    /\ tx' = Notify(Acked, BytesReq(1))
    /\ UNCHANGED <<flash, fw>>

(* The stage moves on and the host is asked for the packets of the next. *)
Continue(d, stage, packets) ==
    /\ dev' = [d EXCEPT !.stage = stage]
    /\ tx' = Notify(Acked, BytesReq(packets))

(* upgradeDeviceSendErrorInd, as the application hears of it *)
Refuse(d) ==
    /\ dev' = [d EXCEPT !.trial = FALSE]
    /\ tx' = Notify(Acked, ErrorInd)

(***************************************************************************)
(* The header body.  Its fields are read in the order of a state that      *)
(* outlives the connection: when it still expects the last field, the      *)
(* first packet is read as that field and the second one past its end.     *)
(* The device version must be above that of the running application.       *)
(***************************************************************************)
HeaderBody ==
    LET first == dev.got = 0
        inStep == dev.field = (IF first THEN "version" ELSE "nvm")
        newer == store[dev.app] = Orig
    IN  \E ok \in (IF inStep THEN {~first \/ newer} ELSE BOOLEAN) :
            IF ~ok THEN Refuse([Touched EXCEPT !.field = "version",
                                               !.commit_cfm = FALSE])
            ELSE LET d == [Touched EXCEPT
                            !.got = IF first THEN 1 ELSE 0,
                            !.field = IF dev.field = "version"
                                      THEN "nvm" ELSE "version"]
                 IN  IF first THEN dev' = d /\ tx' = Acked
                     ELSE Continue(d, "unknown", 1)

(* The first packet after an erase skips the store's header. *)
PartitionData ==
    LET ended == dev.got + 1 = Chunks
    IN  /\ fw' = Append(fw, Op("chunk", dev.part))
        /\ Continue([Touched EXCEPT
                        !.got = IF ended THEN 0 ELSE @ + 1,
                        !.last = ended \/ (dev.got # 0 /\ @)],
                    IF ended THEN "unknown" ELSE "data", 1)

\* Mutant of Signature: the sum is not compared.
SignatureUnread ==
    IF dev.got + 1 = Sigs
    THEN /\ dev' = [Touched EXCEPT !.got = @ + 1, !.valid = TRUE]
         /\ tx' = Acked
    ELSE Continue([Touched EXCEPT !.got = @ + 1], "sig", 1)

(* Each packet of the signature is compared with the sum of the hashes. *)
Signature ==
    LET ended == dev.got + 1 = Sigs
    IN  IF dev.sum # "image" THEN Refuse([Touched EXCEPT !.got = @ + 1])
        ELSE IF ended
        THEN /\ dev' = [Touched EXCEPT !.got = @ + 1, !.valid = TRUE]
             /\ tx' = Acked
        ELSE Continue([Touched EXCEPT !.got = @ + 1], "sig", 1)

(***************************************************************************)
(* handleOtauFileTransfer: nothing happens outside a transfer.  The header *)
(* of a partition erases the store it is for, and the next packet is asked *)
(* for when the firmware has confirmed.                                    *)
(***************************************************************************)
HostData ==
    LET piece == File[up.v] IN
    /\ Takes("DATA")
    /\ IF dev.state # "IN_PROGRESS"
       THEN dev' = Touched /\ tx' = Acked /\ fw' = fw
       ELSE \/ /\ dev.stage = "id" /\ fw' = fw
               /\ IF piece = "id" THEN Continue(Touched, "len", 1)
                                  ELSE Refuse([Touched EXCEPT !.stage = "len"])
            \/ /\ dev.stage = "len" /\ fw' = fw
               /\ Continue(Touched, "body", 2)
            \/ /\ dev.stage = "body" /\ fw' = fw
               /\ HeaderBody
            \/ /\ dev.stage = "unknown" /\ fw' = fw
               /\ IF piece \in {"part", "foot"}
                  THEN Continue(Touched,
                                IF piece = "part" THEN "phdr" ELSE "flen", 1)
                  ELSE Refuse(Touched)
            \/ /\ dev.stage = "phdr"
               /\ dev' = [Touched EXCEPT !.part = getAppStoreToUpgrade,
                                         !.upgraded = TRUE, !.stage = "data"]
               /\ fw' = Append(fw, Op("set", getAppStoreToUpgrade))
               /\ tx' = Acked
            \/ /\ dev.stage = "data"
               /\ PartitionData
            \/ /\ dev.stage = "flen" /\ fw' = fw
               /\ Continue([Touched EXCEPT !.got = 0], "sig", 1)
            \/ /\ dev.stage = "sig" /\ fw' = fw
               /\ Signature
    /\ UNCHANGED flash

AbortReq ==
    /\ Takes("ABORT_REQ")
    /\ resume' = "start"
    /\ tx' = Notify(Acked, Msg("ABORT_CFM", 0))
    /\ dev' = IF isNewApp
              THEN [Touched EXCEPT !.trial = FALSE, !.reset = TRUE,
                                   !.closing = TRUE]
              ELSE initStateVariables([Touched EXCEPT !.trial = FALSE])
    /\ UNCHANGED <<store, committed, once, fw>>

ValidDoneReq ==
    /\ Takes("VALID_DONE_REQ")
    /\ dev' = Touched
    /\ tx' = Notify(Acked, Msg(IF dev.valid THEN "COMPLETE" ELSE "VALID_CFM", 0))
    /\ UNCHANGED <<flash, fw>>

(* The resume point is saved and the new application set to run once. *)
TransferCompleteRes ==
    /\ Takes("TRANSFER_COMPLETE_RES")
    /\ resume' = "post"
    /\ once' = IF dev.upgraded THEN getAppStoreToUpgrade ELSE once
    /\ dev' = [Touched EXCEPT !.reset = TRUE, !.closing = TRUE]
    /\ tx' = Acked
    /\ UNCHANGED <<store, committed, fw>>

InProgressRes ==
    /\ Takes("IN_PROGRESS_RES")
    /\ dev' = Touched
    /\ tx' = Notify(Acked, Msg("COMMIT_REQ", 0))
    /\ UNCHANGED <<flash, fw>>

\* Mutant of CommitCfm: the new application is not committed.
CommitForgotten ==
    /\ Takes("COMMIT_CFM")
    /\ resume' = "start"
    /\ dev' = [Touched EXCEPT !.timer = FALSE, !.trial = FALSE,
                              !.commit_cfm = TRUE]
    /\ fw' = fw
    /\ tx' = Notify(Acked, Msg("COMPLETE_IND", 0))
    /\ UNCHANGED <<store, committed, once>>

(* The host is told before the firmware has done what it is asked for. *)
CommitCfm ==
    /\ Takes("COMMIT_CFM")
    /\ resume' = "start"
    /\ IF up.v = 0
       THEN /\ dev' = [Touched EXCEPT !.timer = FALSE, !.trial = FALSE,
                                      !.commit_cfm = TRUE]
            /\ fw' = IF isNewApp
                     THEN Append(fw, Op("run", getAppStoreToUpgrade)) ELSE fw
            /\ tx' = Notify(Acked, Msg("COMPLETE_IND", 0))
       ELSE /\ dev' = [Touched EXCEPT !.trial = FALSE, !.reset = TRUE,
                                      !.closing = TRUE]
            /\ fw' = fw
            /\ tx' = Acked
    /\ UNCHANGED <<store, committed, once>>

-----------------------------------------------------------------------------
(***************************************************************************)
(* The store requests, in the order they were made: what the firmware does *)
(* and what the server makes of its confirmation.  A confirmation that has *)
(* to be answered when nobody is connected is answered to no device, which *)
(* the connection manager takes for a programming error: the hub resets.   *)
(***************************************************************************)
KeyRead ==
    /\ dev' = [dev EXCEPT !.cs = committed, !.state = "WAIT_FOR_HOST",
                          !.trial = @ \/ dev.app # committed]
    /\ UNCHANGED <<store, committed, tx>>

\* Mutant of StoreIdSet: the store keeps what was in it.
NotErased(s) ==
    /\ IF isNewApp
       THEN dev' = [dev EXCEPT !.cs = dev.app] /\ tx' = tx
       ELSE link /\ dev' = dev /\ tx' = Notify(tx, BytesReq(1))
    /\ UNCHANGED <<store, committed>>

(* The store is erased: a transfer begins, or the old application is gone. *)
StoreIdSet(s) ==
    /\ store' = [store EXCEPT ![s] = 0]
    /\ IF isNewApp
       THEN dev' = [dev EXCEPT !.cs = dev.app] /\ tx' = tx
       ELSE link /\ dev' = dev /\ tx' = Notify(tx, BytesReq(1))
    /\ UNCHANGED committed

ChunkWritten(s) ==
    /\ store' = [store EXCEPT ![s] = @ + 1]
    /\ UNCHANGED <<committed, dev, tx>>

(* The hash is added to the sum of the hashes taken since the connection. *)
StoreHashed(s) ==
    /\ dev' = [dev EXCEPT !.sum = IF @ = "none" /\ store[s] = Chunks
                                  THEN "image" ELSE "junk"]
    /\ UNCHANGED <<store, committed, tx>>

(* RUN_APP_CFM: the new application is the one to boot. *)
AppCommitted(s) ==
    /\ committed' = s
    /\ dev' = initStateVariables(dev)
    /\ UNCHANGED <<store, tx>>

(***************************************************************************)
(* What is requested on a confirmation: a hash of the partition for every  *)
(* chunk confirmed once the last one has been received, and the erasure of *)
(* the old application after a commit.                                     *)
(***************************************************************************)
Then(op) ==
    CASE op.t = "chunk" /\ dev.last -> <<Op("hash", dev.part)>>
      [] op.t = "run" -> <<Op("set", dev.cs)>>
      [] OTHER -> <<>>

Confirmed ==
    /\ fw # <<>>
    /\ LET op == Head(fw) IN
        /\ fw' = Tail(fw) \o Then(op)
        /\ \/ op.t = "key" /\ KeyRead
           \/ op.t = "set" /\ StoreIdSet(op.s)
           \/ op.t = "chunk" /\ ChunkWritten(op.s)
           \/ op.t = "hash" /\ StoreHashed(op.s)
           \/ op.t = "run" /\ AppCommitted(op.s)
    /\ UNCHANGED <<link, up, resume, once>>

(* The firmware reports that it cannot erase, write or hash the store. *)
StoreFails ==
    /\ link /\ fw # <<>> /\ Head(fw).t \in {"set", "chunk", "hash"}
    /\ fw' = Tail(fw)
    /\ dev' = [dev EXCEPT !.trial = FALSE,
                          !.state = IF Head(fw).t = "chunk" THEN "ABORTED" ELSE @]
    /\ tx' = Notify(tx, ErrorInd)
    /\ UNCHANGED <<link, up, flash>>

-----------------------------------------------------------------------------
(* Connections and resets *)

(* GaiaOtauHandleConnNotify, cm_conn_res_success *)
ServerConnected ==
    /\ dev' = initStateVariables(
                [dev EXCEPT !.state = IF dev.cs = 0
                                      THEN "PRE_FAIL" ELSE "WAIT_FOR_HOST"])
    /\ UNCHANGED <<flash, fw>>

(* An application is started; what the firmware had yet to do is lost. *)
Boot(trial) ==
    LET app == IF trial # 0 THEN trial ELSE committed IN
    /\ once' = 0
    /\ fw' = <<Op("key", 0)>>
    /\ dev' = Booted(app, resume' = "post")
    /\ committed' = committed

\* Mutant of ServerDisconnected: the trial boot does not follow the disconnection.
NoReset ==
    /\ dev' = [dev EXCEPT !.busy = FALSE, !.closing = FALSE]
    /\ UNCHANGED <<flash, fw>>

(***************************************************************************)
(* The connection is gone: the hub resets if a trial boot or a rollback    *)
(* was waiting for that, else the mesh is started again.                   *)
(***************************************************************************)
ServerDisconnected ==
    IF dev.reset
    THEN resume' = resume /\ store' = store /\ Boot(once)
    ELSE /\ dev' = [dev EXCEPT !.busy = FALSE, !.closing = FALSE]
         /\ UNCHANGED <<flash, fw>>

(* hostCommitTimeoutHandler *)
CommitTimeout ==
    /\ dev.timer
    /\ resume' = "start" /\ store' = store
    /\ Boot(once)

(***************************************************************************)
(* The hub loses power, perhaps while a store is being erased; the request *)
(* to run an application once may not survive.                             *)
(***************************************************************************)
PowerCut ==
    LET half == IF fw # <<>> /\ Head(fw).t = "set" THEN {Head(fw).s} ELSE {}
    IN  /\ store' \in {store} \cup {[store EXCEPT ![s] = 0] : s \in half}
        /\ resume' = resume
        /\ \E kept \in {0, once} : Boot(kept)

(* A store is erased with nobody connected to ask for its first packet. *)
EraseUnattended ==
    /\ ~link /\ fw # <<>> /\ Head(fw).t = "set" /\ ~isNewApp
    /\ resume' = resume
    /\ store' = [store EXCEPT ![Head(fw).s] = 0]
    /\ Boot(once)

(***************************************************************************)
(* A write that arrives between the hub's request to disconnect and the    *)
(* end of the connection finds the device in a state the connection        *)
(* manager takes for a programming error: the hub resets.                  *)
(***************************************************************************)
WriteWhileClosing ==
    /\ link /\ dev.closing /\ up # None
    /\ resume' = resume /\ store' = store
    /\ Boot(once)

ServerStep ==
    \/ ConnectReq \/ DisconnectReq \/ AckReq \/ SyncReq \/ StartReq
    \/ StartDataReq \/ HostData \/ AbortReq \/ ValidDoneReq
    \/ TransferCompleteRes \/ InProgressRes \/ CommitCfm
=============================================================================
