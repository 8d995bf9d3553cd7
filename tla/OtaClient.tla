------------------------------ MODULE OtaClient ------------------------------
(***************************************************************************)
(* The GAIA upgrade client of a hub that relays its own image to another   *)
(* hub: it connects, tells the server of the upgrade, hands out the file   *)
(* packet by packet as it is asked, reconnects after the server's trial    *)
(* boot and commits.                                                       *)
(***************************************************************************)
EXTENDS OtaLink

VARIABLES cl,       \* the client's RAM
          wr        \* its write endpoint: a write under way, one packet kept

client == <<cl, wr>>

Idle == [state |-> "IDLE", left |-> 0, eof |-> FALSE, off |-> 0,
         start |-> "no", closing |-> FALSE, mesh |-> TRUE]

ClientInit == cl = Idle /\ wr = [busy |-> FALSE, pend |-> None]

(* upgradeDeviceResetTransferState *)
Reset(c) ==
    [c EXCEPT !.state = "IDLE", !.left = 0, !.eof = FALSE, !.off = 0]

(***************************************************************************)
(* GaiaWriteCommandEndpoint, for the packets of one handler in turn: the   *)
(* first is written if no write is under way; of those refused the last    *)
(* one is kept.                                                            *)
(***************************************************************************)
Write(ms) ==
    IF wr.busy THEN up' = up /\ wr' = [wr EXCEPT !.pend = Last(ms)]
    ELSE /\ up' = Head(ms)
         /\ wr' = [busy |-> TRUE,
                   pend |-> IF Len(ms) > 1 THEN Last(ms) ELSE None]

Yes == Msg("ACK", 0)
Req(t) == Msg(t, 0)

(* Any status but success is followed by a disconnect request. *)
RejectAs(c) == cl' = c /\ Write(<<Yes, Req("DISCONNECT_REQ")>>)
Reject == RejectAs(cl)

Gets(t) ==
    /\ link /\ tx.q # <<>> /\ Head(tx.q).t = t
    /\ tx' = Taken
    /\ UNCHANGED link

-----------------------------------------------------------------------------
(* handleCMClientWriteCfm: a packet that was kept is written next. *)
WriteConfirmed ==
    /\ Gets("write_cfm")
    /\ cl' = cl
    /\ up' = wr.pend /\ wr' = [busy |-> wr.pend # None, pend |-> None]

ConnectAck ==
    /\ Gets("conn_ack")
    /\ IF cl.state = "CONNECT"
       THEN /\ cl' = [cl EXCEPT !.state = "SYNC_REQ"]
            /\ Write(<<Req("SYNC_REQ")>>)
       ELSE UNCHANGED <<client, up>>

DisconnectAck ==
    /\ Gets("disc_ack")
    /\ cl' = [Reset(cl) EXCEPT !.closing = TRUE]
    /\ UNCHANGED <<wr, up>>

\* Mutant of SendData: the packet after the one due is read from the file.
SendSkipped(c, state) ==
    IF cl.off + 2 > Len(File) THEN RejectAs(c)
    ELSE /\ cl' = [c EXCEPT !.left = @ - 1, !.off = @ + 2, !.state = state,
                             !.eof = cl.off + 2 = Len(File)]
         /\ Write(<<Yes, Msg("DATA", cl.off + 2)>>)

(***************************************************************************)
(* upgradeSendData, gaiaClientDataTransferEvent, GaiaOtauClientSendData:   *)
(* the next packet of the file, after an acknowledgement; a request for    *)
(* what is past the end is refused.                                        *)
(***************************************************************************)
SendData(c, state) ==
    IF cl.off = Len(File) THEN RejectAs([c EXCEPT !.left = @ - 1])
    ELSE /\ cl' = [c EXCEPT !.left = @ - 1, !.off = @ + 1, !.state = state,
                            !.eof = cl.off + 1 = Len(File)]
         /\ Write(<<Yes, Msg("DATA", cl.off + 1)>>)

(***************************************************************************)
(* A command has been acknowledged.  In a transfer this calls for the next *)
(* packet of a request of two, or for the question whether the file is     *)
(* valid once it has been sent.                                            *)
(***************************************************************************)
ControlAck ==
    /\ Gets("ack")
    /\ IF cl.state # "TRANSFER" THEN UNCHANGED <<client, up>>
       ELSE IF cl.eof
       THEN /\ cl' = [cl EXCEPT !.state = "WAIT_VALIDATION_RSP"]
            /\ Write(<<Req("VALID_DONE_REQ")>>)
       ELSE IF cl.left > 0 THEN SendData(cl, "DATA_REQ")
       ELSE cl' = [cl EXCEPT !.state = "DATA_REQ"] /\ UNCHANGED <<wr, up>>

SyncCfmGot ==
    /\ Gets("SYNC_CFM")
    /\ IF cl.state # "SYNC_REQ" THEN Reject
       ELSE /\ cl' = [cl EXCEPT !.off = 0,
                                !.state = IF Head(tx.q).v = 3
                                          THEN "START_REQ_AFTER_REBOOT"
                                          ELSE "START_REQ"]
            /\ Write(<<Yes, Req("START_REQ")>>)

StartCfmGot ==
    /\ Gets("START_CFM")
    /\ IF cl.state \notin {"START_REQ", "START_REQ_AFTER_REBOOT"} THEN Reject
       ELSE IF Head(tx.q).v # 0 THEN cl' = cl /\ Write(<<Yes>>)
       ELSE IF cl.state = "START_REQ"
       THEN /\ cl' = [cl EXCEPT !.state = "DATA_REQ"]
            /\ Write(<<Yes, Req("START_DATA_REQ")>>)
       ELSE /\ cl' = [cl EXCEPT !.state = "IN_PROGRESS_REQ"]
            /\ Write(<<Yes, Req("IN_PROGRESS_RES")>>)

DataBytesReq ==
    /\ Gets("DATA_BYTES_REQ")
    /\ IF cl.state = "DATA_REQ"
       THEN SendData([cl EXCEPT !.left = Head(tx.q).v], "TRANSFER")
       ELSE Reject

AbortCfm ==
    /\ Gets("ABORT_CFM")
    /\ cl' = [cl EXCEPT !.state = "ABORTING_DISCONNECT"]
    /\ Write(<<Yes, Req("DISCONNECT_REQ")>>)

TransferComplete ==
    /\ Gets("COMPLETE")
    /\ IF cl.state \notin {"TRANSFER", "WAIT_VALIDATION", "WAIT_VALIDATION_RSP"}
       THEN Reject
       ELSE /\ cl' = [cl EXCEPT !.state = "WAIT_POST_TRANSFER_DISCONNECT"]
            /\ Write(<<Yes, Req("TRANSFER_COMPLETE_RES")>>)

CommitReq ==
    /\ Gets("COMMIT_REQ")
    /\ IF cl.state # "IN_PROGRESS_REQ" THEN Reject
       ELSE /\ cl' = [cl EXCEPT !.state = "COMMIT_REQ"]
            /\ Write(<<Yes, Req("COMMIT_CFM")>>)

ErrorWarnInd ==
    /\ Gets("ERROR_IND")
    /\ cl' = [Reset(cl) EXCEPT !.closing = TRUE]
    /\ Write(<<Yes>>)

CompleteInd ==
    /\ Gets("COMPLETE_IND")
    /\ IF cl.state # "COMMIT_REQ" THEN Reject
       ELSE /\ cl' = [cl EXCEPT !.state = "DISCONNECT"]
            /\ Write(<<Yes, Req("DISCONNECT_REQ")>>)

(***************************************************************************)
(* The question is repeated after a while.  That timer is left out: the    *)
(* server has compared the signature before it can be asked, so only a     *)
(* client that no longer waits is told that the file is not valid.         *)
(***************************************************************************)
IsValidationDoneCfm ==
    /\ Gets("VALID_CFM")
    /\ IF cl.state # "WAIT_VALIDATION_RSP" THEN Reject
       ELSE /\ cl' = [cl EXCEPT !.state = "WAIT_VALIDATION"]
            /\ Write(<<Yes>>)

(* The mesh is stopped for the upgrade. *)
StartUpgrade ==
    /\ link /\ cl.start = "timer"
    /\ cl' = [cl EXCEPT !.start = "done", !.state = "CONNECT", !.mesh = FALSE]
    /\ Write(<<Req("CONNECT")>>)
    /\ UNCHANGED <<link, tx>>

(* The connection is up, the server's service known and configured. *)
ClientConnected ==
    /\ cl' = [cl EXCEPT !.start = "timer",
                        !.state = IF @ = "WAIT_POST_TRANSFER_RECONNECTION"
                                  THEN "IDLE" ELSE @]
    /\ wr' = wr

\* Mutant of ClientDisconnected: the mesh is not started again.
MeshLeftStopped ==
    /\ cl' = IF cl.state = "WAIT_POST_TRANSFER_DISCONNECT"
             THEN [cl EXCEPT !.start = "no", !.closing = FALSE,
                             !.state = "WAIT_POST_TRANSFER_RECONNECTION"]
             ELSE [Reset(cl) EXCEPT !.start = "no", !.closing = FALSE]
    /\ wr' = [busy |-> FALSE, pend |-> None]

(***************************************************************************)
(* The connection is gone.  The server's trial boot is waited for with the *)
(* mesh stopped; in any other state the mesh is started again.             *)
(***************************************************************************)
ClientDisconnected ==
    /\ cl' = IF cl.state = "WAIT_POST_TRANSFER_DISCONNECT"
             THEN [cl EXCEPT !.start = "no", !.closing = FALSE,
                             !.state = "WAIT_POST_TRANSFER_RECONNECTION"]
             ELSE [Reset(cl) EXCEPT !.start = "no", !.closing = FALSE,
                                    !.mesh = TRUE]
    /\ wr' = [busy |-> FALSE, pend |-> None]

(* The retries are used up: the mesh is started again. *)
ReconnectionFails ==
    /\ ~link /\ cl.state = "WAIT_POST_TRANSFER_RECONNECTION"
    /\ cl' = [Reset(cl) EXCEPT !.mesh = TRUE]
    /\ UNCHANGED <<wr, link, up, tx>>

ClientStep ==
    \/ WriteConfirmed \/ ConnectAck \/ DisconnectAck \/ ControlAck
    \/ SyncCfmGot \/ StartCfmGot \/ DataBytesReq \/ AbortCfm
    \/ TransferComplete \/ CommitReq \/ ErrorWarnInd \/ CompleteInd
    \/ IsValidationDoneCfm
=============================================================================
