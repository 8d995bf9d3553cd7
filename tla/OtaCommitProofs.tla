--------------------------- MODULE OtaCommitProofs ---------------------------
(***************************************************************************)
(* The second connection of an upgrade, on top of TransferInStep: what the *)
(* host is told, what is committed and what becomes of a trial.            *)
(*                                                                         *)
(* The server forgets what it has sent, the host what it has heard; what   *)
(* ties them is the resume point in NVM.  It says "post" only of a trial   *)
(* that runs or will be booted, unless a restart came in between (Trying), *)
(* and a host comes to the commit only because it was told of one (Honest, *)
(* Asked).  A notification of an earlier connection could tell it so too,  *)
(* but comes before the first answer of this one (OldAnswers).             *)
(***************************************************************************)
EXTENDS OtaTransferProofs

\* The server runs a new application or was interrupted, so it resumes late.
Tried == cut \/ New

\* The new application is the one to boot, or will be soon.
Done == store[committed] = Chunks \/ Ops({"run"})

Late == {"START_REQ_AFTER_REBOOT", "IN_PROGRESS_REQ", "COMMIT_REQ"}
Away == {"ABORTING_DISCONNECT", "IDLE"}
Parted == Away \cup {"DISCONNECT"}

Counted == faults \in Nat /\ told \in BOOLEAN /\ cut \in BOOLEAN

(***************************************************************************)
(* A write is confirmed once, and before the next one is under way: what   *)
(* the client has kept is not lost.                                        *)
(***************************************************************************)
Confirming ==
    /\ tx.held.t # "write_cfm"
    /\ link => /\ Once(tx, "write_cfm")
               /\ ~wr.busy \/ up # None => Free(tx, "write_cfm")

(***************************************************************************)
(* The notifications that are true, whenever they were sent.               *)
(***************************************************************************)
Honest == {m \in Message :
    /\ m.t = "SYNC_CFM" /\ m.v = 3 => Tried \/ once # 0
    /\ m.t = "SYNC_CFM" /\ m.v # 3 => resume = "start" \/ dev.reset
    /\ m.t = "COMPLETE_IND" => cut \/ Done
    /\ m.t = "COMPLETE" => ~New}

(***************************************************************************)
(* What may be left of an earlier connection comes before the first        *)
(* answer, here of the answers that say where the upgrade stands.          *)
(***************************************************************************)
Fine == {m \in Message : /\ m.t # "COMPLETE_IND"
                         /\ m.t = "SYNC_CFM" => m = SyncCfm}

OldAnswers == link =>
    /\ cl.state = "SYNC_REQ" =>
        /\ tx.held \notin Fine => tx.done /\ tx.q = <<>> /\ tx.used = 0
                                  /\ dev.state # "WAIT_FOR_DEVICE"
        /\ \A i \in 2 .. Len(tx.q) : tx.q[i] \in Fine
    /\ cl.state = "START_REQ" => Within(tx, Fine)

(***************************************************************************)
(* The resume point, the trial boot and the reset that leads to it.        *)
(***************************************************************************)
Trying ==
    /\ resume = "post" => Tried \/ once # 0
    /\ once # 0 => resume = "post"
    /\ dev.reset => link /\ dev.closing /\ ~PreStart
    /\ New => ~Out("TRANSFER_COMPLETE_RES")
    /\ New /\ (dev.closing \/ dev.commit_cfm) => resume = "start"

\* A commit is with the firmware: only an abort can still stop it.
Running == Ops({"run"}) =>
    /\ resume = "start" /\ ~dev.timer
    /\ link => dev.commit_cfm \/ dev.closing
    /\ dev.reset => cl.state \in Away

\* What the client has been led to ask for
Asked == link =>
    /\ cl.state = "START_REQ" => resume = "start"
    /\ cl.state \in Late => Tried
    /\ Out("COMMIT_CFM") => Tried
    /\ Out("ABORT_REQ") => cl.state \in Away
    /\ cl.state = "DISCONNECT" => told

\* An image that is received, hashed or found valid is one of this upgrade.
Used == dev.stage = "data" \/ dev.sum # "none" \/ dev.valid \/ fw # <<>>

Loaded ==
    /\ New => ~dev.valid
    /\ link /\ ~New /\ Used => dev.upgraded

(***************************************************************************)
(* A host that was told of a commit that is not done yet is on its way     *)
(* out: it cannot stop the commit any more.                                *)
(***************************************************************************)
Parting ==
    /\ cl.state \in Parted
    /\ \/ dev.closing
       \/ ~Out("ABORT_REQ") /\ (Out("DISCONNECT_REQ") \/ cl.state = "IDLE")

Truth == told /\ ~cut /\ store[committed] # Chunks =>
    /\ Ops({"run"}) /\ ~dev.reset
    /\ link => Parting

(***************************************************************************)
(* An old application with a commit timer, or the resume point of one,     *)
(* takes a fault.  It goes through the commit and not through a transfer,  *)
(* so without a second fault the timer does not see another trial begin.   *)
(***************************************************************************)
Astray == ~New /\ (dev.timer \/ (resume = "post" /\ once = 0))

Led == /\ PreStart \/ GivenUp
       /\ ~Out("ABORT_REQ")
       /\ \A m \in {up, wr.pend} : m.t = "COMMIT_CFM" => m.v = 0

Guarding == faults <= 1 =>
    /\ Astray => /\ faults = 1 /\ resume = "post" /\ once = 0
                 /\ link => Led
    /\ TrialGuarded

CInv == /\ Counted /\ Confirming /\ Within(tx, Honest) /\ OldAnswers
        /\ Trying /\ Running /\ Asked /\ Loaded /\ Truth /\ Guarding
-----------------------------------------------------------------------------

(* Queues of notifications and the writes they answer *)

(***************************************************************************)
(* Each command is answered, if at all, by one notification behind the     *)
(* acknowledgement.                                                        *)
(***************************************************************************)
LEMMA ServerAnswers ==
    ASSUME Types, IInv, UNCHANGED client, ServerStep
    PROVE  \E t \in Kinds \ {"none"}, m \in Message :
            /\ Takes(t) /\ Answers(m) /\ m.t \notin {"none", "write_cfm"}
            /\ m.t = "SYNC_CFM" => m = SyncCfm /\ resume' = resume
            /\ m.t = "COMPLETE_IND" => CommitCfm
            /\ m.t = "COMPLETE" => dev.valid
PROOF
<1> DEFINE R(t, m) == /\ Takes(t) /\ Answers(m) /\ m.t \notin {"none", "write_cfm"}
                      /\ m.t = "SYNC_CFM" => m = SyncCfm /\ resume' = resume
                      /\ m.t = "COMPLETE_IND" => CommitCfm
                      /\ m.t = "COMPLETE" => dev.valid
<1> SUFFICES \E t \in Kinds \ {"none"}, m \in Message : R(t, m)
  OBVIOUS
<1>1. /\ {Ack, ErrorInd, SyncCfm, StartCfm} \subseteq Message
      /\ Ack.t = "ack" /\ ErrorInd.t = "ERROR_IND"
      /\ SyncCfm.t = "SYNC_CFM" /\ StartCfm.t = "START_CFM"
  BY Messages, MessageFields
<1>2. \A t \in Kinds : Msg(t, 0) \in Message /\ Msg(t, 0).t = t
  BY Messages, MessageFields
<1>3. \A n \in Nat : BytesReq(n) \in Message /\ BytesReq(n).t = "DATA_BYTES_REQ"
  BY Messages, MessageFields
<1>4. \A t \in Kinds \ {"none"} : Takes(t) /\ tx' \in {Heard, Acked} => R(t, Ack)
  BY <1>1 DEF Answers
<1>5. {"conn_ack", "disc_ack", "ABORT_CFM", "COMPLETE", "VALID_CFM", "COMMIT_REQ",
       "COMPLETE_IND"} \subseteq Kinds
  BY DEF Kinds
<1>6. {"CONNECT", "DISCONNECT_REQ", "ACK", "SYNC_REQ", "START_REQ", "START_DATA_REQ",
       "DATA", "ABORT_REQ", "VALID_DONE_REQ", "TRANSFER_COMPLETE_RES",
       "IN_PROGRESS_RES", "COMMIT_CFM"} \subseteq Kinds \ {"none"}
  BY DEF Kinds
<1>7. CASE ConnectReq
  <2>1. R("CONNECT", Msg("conn_ack", 0))
    BY <1>2, <1>5, <1>7 DEF ConnectReq, Answers
  <2> QED BY <1>2, <1>5, <1>6, <2>1
<1>8. CASE DisconnectReq
  <2>1. R("DISCONNECT_REQ", Msg("disc_ack", 0))
    BY <1>2, <1>5, <1>8 DEF DisconnectReq, Answers
  <2> QED BY <1>2, <1>5, <1>6, <2>1
<1>9. CASE AckReq
  <2>1. R("ACK", Ack)
    BY <1>4, <1>6, <1>9 DEF AckReq
  <2> QED BY <1>1, <1>6, <2>1
<1>10. CASE SyncReq
  <2>1. Takes("SYNC_REQ") /\ resume' = resume /\ tx' \in {Acked, Notify(Acked, SyncCfm)}
    BY <1>10 DEF SyncReq, flash
  <2>2. R("SYNC_REQ", SyncCfm)
    BY <1>1, <2>1 DEF Answers
  <2> QED BY <1>1, <1>6, <2>2
<1>11. CASE StartReq
  <2>1. R("START_REQ", StartCfm)
    BY <1>1, <1>11 DEF StartReq, Answers
  <2> QED BY <1>1, <1>6, <2>1
<1>12. CASE StartDataReq
  <2>1. R("START_DATA_REQ", BytesReq(1))
    BY <1>3, <1>12 DEF StartDataReq, Answers
  <2> QED BY <1>3, <1>6, <2>1
<1>13. CASE HostData
  <2>1. Takes("DATA")
    BY <1>13 DEF HostData
  <2>2. CASE dev.state # "IN_PROGRESS"
    <3>1. R("DATA", Ack)
      BY <1>4, <1>6, <1>13, <2>1, <2>2 DEF HostData
    <3> QED BY <1>1, <1>6, <3>1
  <2>3. CASE dev.state = "IN_PROGRESS"
    <3>1. Answered
      BY <1>13, <2>3, HostParsed
    <3>2. CASE tx' = Acked
      <4>1. R("DATA", Ack)
        BY <1>4, <1>6, <2>1, <3>2
      <4> QED BY <1>1, <1>6, <4>1
    <3>3. CASE \E n \in Nat : tx' = Notify(Acked, BytesReq(n))
      <4>1. PICK n \in Nat : tx' = Notify(Acked, BytesReq(n))
        BY <3>3
      <4>2. R("DATA", BytesReq(n))
        BY <1>3, <2>1, <4>1 DEF Answers
      <4> QED BY <1>3, <1>6, <4>2
    <3>4. CASE tx' = Notify(Acked, ErrorInd)
      <4>1. R("DATA", ErrorInd)
        BY <1>1, <2>1, <3>4 DEF Answers
      <4> QED BY <1>1, <1>6, <4>1
    <3> QED BY <3>1, <3>2, <3>3, <3>4 DEF Answered
  <2> QED BY <2>2, <2>3
<1>14. CASE AbortReq
  <2>1. R("ABORT_REQ", Msg("ABORT_CFM", 0))
    BY <1>2, <1>5, <1>14 DEF AbortReq, Answers
  <2> QED BY <1>2, <1>5, <1>6, <2>1
<1>15. CASE ValidDoneReq
  <2> DEFINE k == IF dev.valid THEN "COMPLETE" ELSE "VALID_CFM"
  <2>1. Takes("VALID_DONE_REQ") /\ tx' = Notify(Acked, Msg(k, 0))
    BY <1>15 DEF ValidDoneReq
  <2>2. k \in Kinds /\ k \in {"COMPLETE", "VALID_CFM"} /\ (k = "COMPLETE" => dev.valid)
    BY <1>5
  <2> HIDE DEF k
  <2>3. R("VALID_DONE_REQ", Msg(k, 0))
    BY <1>2, <2>1, <2>2 DEF Answers
  <2> QED BY <1>2, <1>6, <2>2, <2>3
<1>16. CASE TransferCompleteRes
  <2>1. R("TRANSFER_COMPLETE_RES", Ack)
    BY <1>4, <1>6, <1>16 DEF TransferCompleteRes
  <2> QED BY <1>1, <1>6, <2>1
<1>17. CASE InProgressRes
  <2>1. R("IN_PROGRESS_RES", Msg("COMMIT_REQ", 0))
    BY <1>2, <1>5, <1>17 DEF InProgressRes, Answers
  <2> QED BY <1>2, <1>5, <1>6, <2>1
<1>18. CASE CommitCfm
  <2>1. Takes("COMMIT_CFM") /\ tx' \in {Acked, Notify(Acked, Msg("COMPLETE_IND", 0))}
    BY <1>18 DEF CommitCfm
  <2>2. R("COMMIT_CFM", Msg("COMPLETE_IND", 0))
    BY <1>2, <1>5, <1>18, <2>1 DEF Answers
  <2> QED BY <1>2, <1>5, <1>6, <2>2
<1> QED BY <1>7, <1>8, <1>9, <1>10, <1>11, <1>12, <1>13, <1>14, <1>15, <1>16, <1>17,
           <1>18 DEF ServerStep

(* The client hears one notification, and writes only if no write is under way. *)
LEMMA ClientWrites ==
    ASSUME Types, ClientStep
    PROVE  \E t : /\ Gets(t)
                  /\ \/ t = "write_cfm" /\ WriteConfirmed
                     \/ t # "write_cfm" /\ up' = up /\ wr' = wr
                     \/ t # "write_cfm" /\ wr'.busy /\ (wr.busy => up' = up)
PROOF
<1>1. \A ms : Write(ms) => wr'.busy /\ (wr.busy => up' = up)
  <2> SUFFICES ASSUME NEW ms, Write(ms)
               PROVE  wr'.busy /\ (wr.busy => up' = up)
    OBVIOUS
  <2> QED BY DEF Write, Types
<1>2. \A c : RejectAs(c) => wr'.busy /\ (wr.busy => up' = up)
  BY <1>1 DEF RejectAs
<1>3. \A c, s : SendData(c, s) => wr'.busy /\ (wr.busy => up' = up)
  BY <1>1, <1>2 DEF SendData
<1>4. CASE WriteConfirmed
  BY <1>4 DEF WriteConfirmed
<1>5. CASE ConnectAck
  BY <1>1, <1>5 DEF ConnectAck, client
<1>6. CASE DisconnectAck
  BY <1>6 DEF DisconnectAck
<1>7. CASE ControlAck
  BY <1>1, <1>3, <1>7 DEF ControlAck, client
<1>8. CASE SyncCfmGot
  BY <1>1, <1>2, <1>8 DEF SyncCfmGot, Reject
<1>9. CASE StartCfmGot
  BY <1>1, <1>2, <1>9 DEF StartCfmGot, Reject
<1>10. CASE DataBytesReq
  BY <1>2, <1>3, <1>10 DEF DataBytesReq, Reject
<1>11. CASE AbortCfm
  BY <1>1, <1>11 DEF AbortCfm
<1>12. CASE TransferComplete
  BY <1>1, <1>2, <1>12 DEF TransferComplete, Reject
<1>13. CASE CommitReq
  BY <1>1, <1>2, <1>13 DEF CommitReq, Reject
<1>14. CASE ErrorWarnInd
  BY <1>1, <1>14 DEF ErrorWarnInd
<1>15. CASE CompleteInd
  BY <1>1, <1>2, <1>15 DEF CompleteInd, Reject
<1>16. CASE IsValidationDoneCfm
  BY <1>1, <1>2, <1>16 DEF IsValidationDoneCfm, Reject
<1> QED BY <1>4, <1>5, <1>6, <1>7, <1>8, <1>9, <1>10, <1>11, <1>12, <1>13, <1>14,
           <1>15, <1>16 DEF ClientStep

(* A notification of the server's own *)
Notices ==
    /\ link' = link /\ UNCHANGED <<up, client>>
    /\ \E m \in {SyncCfm, ErrorInd, BytesReq(1)} :
        tx' = Notify(tx, m) /\ (m = SyncCfm => resume' = resume)

LEMMA FirmwareNotices ==
    ASSUME Types, Confirm \/ FirmwareFault \/ Params
    PROVE  Notices \/ (tx' = tx /\ link' = link /\ UNCHANGED <<up, client>>)
PROOF
<1>1. CASE FirmwareFault
  BY <1>1, MessageFields DEF FirmwareFault, StoreFails, Notices, flash
<1>2. CASE Params
  BY <1>2, MessageFields DEF Params, ParamsUpdated, Notices, flash
<1>3. CASE Confirm
  <2>1. /\ UNCHANGED <<client, up, link, resume, once>>
        /\ tx' = tx \/ tx' = Notify(tx, BytesReq(1))
    BY <1>3, ConfirmCases DEF KeyRead, StoreIdSet, ChunkWritten, StoreHashed, AppCommitted
  <2>2. BytesReq(1) \in {SyncCfm, ErrorInd, BytesReq(1)}
    OBVIOUS
  <2> QED BY <2>1, <2>2, MessageFields DEF Notices
<1> QED BY <1>1, <1>2, <1>3

(* What any step but a disconnection does to the queue *)
LEMMA FreeHeard ==
    ASSUME NEW x \in Queue, NEW k, Free(x, k)
    PROVE  Once(x, k)
BY DEF Free, Within, Once

LEMMA NotifyFree ==
    ASSUME NEW x \in Queue, NEW m \in Message, NEW k, m.t # k
    PROVE  /\ x.held.t # k => Notify(x, m).held.t # k
           /\ Once(x, k) => Once(Notify(x, m), k)
           /\ Free(x, k) => Free(Notify(x, m), k)
PROOF
<1>1. /\ \A S : Within(x, S) /\ m \in S => Within(Notify(x, m), S)
      /\ Once(x, k) /\ m.t # k => Once(Notify(x, m), k)
  BY NotifyQueue
<1>2. Notify(x, m).held \in {x.held, m}
  BY DEF Notify, Queue
<1> QED BY <1>1, <1>2 DEF Free

LEMMA HeardWrite ==
    ASSUME Types, Free(tx, "write_cfm")
    PROVE  Heard \in Queue /\ Heard.held = tx.held /\ Once(Heard, "write_cfm")
PROOF
<1>1. /\ tx \in Queue /\ tx.q \in Seq(Message) /\ Len(tx.q) \in Nat
      /\ \A i \in 1 .. Len(tx.q) : tx.q[i] \in Message
      /\ WriteCfm \in Message /\ WriteCfm.t = "write_cfm"
  BY Messages, MessageFields DEF Types, Queue
<1> DEFINE y == Heard
<1>2. /\ y \in Queue /\ y.q = Append(tx.q, WriteCfm) /\ y.held = tx.held
  BY <1>1 DEF Heard, Queue
<1>3. /\ Len(y.q) = Len(tx.q) + 1
      /\ \A i \in 1 .. Len(tx.q) + 1 :
            y.q[i] = IF i <= Len(tx.q) THEN tx.q[i] ELSE WriteCfm
  BY <1>1, <1>2
<1> HIDE DEF y
<1>4. tx.held.t # "write_cfm" /\ \A i \in 1 .. Len(tx.q) : tx.q[i].t # "write_cfm"
  BY DEF Free, Within
<1>5. Once(y, "write_cfm")
  BY <1>1, <1>2, <1>3, <1>4 DEF Once
<1> QED BY <1>2, <1>5 DEF y

LEMMA ConfirmingServed ==
    ASSUME Types, IInv, Confirming, UNCHANGED client,
           NEW t \in Kinds \ {"none"}, Takes(t),
           NEW m \in Message, Answers(m), m.t # "write_cfm"
    PROVE  Confirming'
PROOF
<1>1. /\ link /\ up' = None /\ wr' = wr /\ up # None
  BY TakenAway, MessageFields
<1>2. wr.busy /\ Free(tx, "write_cfm")
  BY <1>1 DEF IInv, Client, Confirming
<1>3. Heard \in Queue /\ Heard.held = tx.held /\ Once(Heard, "write_cfm")
  BY <1>2, HeardWrite
<1>4. Heard.held.t # "write_cfm"
  BY <1>3 DEF Confirming
<1>5. Ack \in Message /\ Ack.t # "write_cfm"
  BY Messages, MessageFields
<1>6. /\ Acked \in Queue /\ Acked.held.t # "write_cfm" /\ Once(Acked, "write_cfm")
  BY <1>3, <1>4, <1>5, NotifyFree, NotifyQueue DEF Acked
<1>7. tx'.held.t # "write_cfm" /\ Once(tx', "write_cfm")
  BY <1>3, <1>4, <1>6, NotifyFree DEF Answers
<1> QED BY <1>1, <1>2, <1>7 DEF Confirming

LEMMA ConfirmingHeard ==
    ASSUME Types, IInv, Confirming, ClientStep
    PROVE  Confirming'
PROOF
<1>1. PICK t : /\ Gets(t)
               /\ \/ t = "write_cfm" /\ WriteConfirmed
                  \/ t # "write_cfm" /\ up' = up /\ wr' = wr
                  \/ t # "write_cfm" /\ wr'.busy /\ (wr.busy => up' = up)
  BY ClientWrites
<1>2. /\ \A k : Once(tx, k) => Once(tx', k)
      /\ \A k : Once(tx, k) /\ t = k => Free(tx', k)
      /\ \A k : Free(tx, k) => Free(tx', k)
      /\ link /\ tx'.held = tx.held
  BY <1>1, TakenQueue, Taking DEF Free
<1> QED BY <1>1, <1>2 DEF Confirming

LEMMA ConfirmingStep ==
    ASSUME Types, IInv, IInv', Confirming, [Next]_vars
    PROVE  Confirming'
PROOF
<1>1. None.t = "none" /\ None \in Message
  BY Messages, MessageFields
<1>2. CASE Serve
  <2>1. ServerStep /\ UNCHANGED client
    BY <1>2 DEF Serve, client
  <2> QED BY <2>1, ServerAnswers, ConfirmingServed
<1>3. CASE Relay
  BY <1>3, ConfirmingHeard DEF Relay
<1>4. CASE Confirm \/ FirmwareFault \/ Params
  <2>1. CASE Notices
    <3>1. PICK m \in {SyncCfm, ErrorInd, BytesReq(1)} : tx' = Notify(tx, m)
      BY <2>1 DEF Notices
    <3>2. m \in Message /\ m.t # "write_cfm" /\ tx \in Queue
      BY <3>1, Messages, MessageFields DEF Types
    <3>3. wr' = wr /\ up' = up /\ link' = link
      BY <2>1 DEF Notices, client
    <3> QED BY <3>1, <3>2, <3>3, NotifyFree DEF Confirming
  <2>2. CASE tx' = tx /\ link' = link /\ UNCHANGED <<up, client>>
    BY <2>2 DEF Confirming, client
  <2> QED BY <1>4, <2>1, <2>2, FirmwareNotices
<1>5. CASE SendHeld
  <2>1. /\ \A S : Within(tx, S) /\ None \in S => Within(tx', S)
        /\ \A k : Once(tx, k) /\ k # "none" => Once(tx', k)
    BY <1>5, ResentQueue
  <2>2. tx' = Notify([tx EXCEPT !.held = None, !.done = FALSE], tx.held)
        /\ link' = link /\ up' = up /\ wr' = wr
    BY <1>5 DEF SendHeld, Resend, client
  <2>3. tx'.held \in {None, tx.held}
    BY <2>2 DEF Notify, Types, Queue
  <2>4. Free(tx, "write_cfm") => Free(tx', "write_cfm")
    BY <1>1, <2>1 DEF Free
  <2> QED BY <1>1, <2>1, <2>2, <2>3, <2>4 DEF Confirming
<1>6. CASE Begin \/ UserAborts
  <2>1. PICK ms : Write(ms) /\ tx' = tx /\ link' = link
    BY <1>6 DEF Begin, StartUpgrade, UserAborts
  <2>2. wr'.busy /\ (wr.busy => up' = up)
    BY <2>1 DEF Write, Types
  <2> QED BY <2>1, <2>2 DEF Confirming
<1>7. CASE UserDeclines
  <2>1. tx' = tx /\ link' = link /\ wr' = wr /\ up # None
    BY <1>1, <1>7, MessageFields DEF UserDeclines, client
  <2> QED BY <2>1 DEF Confirming
<1>8. CASE GiveUp
  BY <1>8 DEF GiveUp, ReconnectionFails, Confirming
<1>9. CASE Connect
  <2>1. tx' = tx /\ tx.q = <<>> /\ tx.held.t # "write_cfm" /\ tx \in Queue
    BY <1>9 DEF Connect, IInv, Apart, Confirming, Types
  <2>2. Free(tx, "write_cfm") /\ Once(tx, "write_cfm")
    BY <2>1 DEF Free, Within, Once, Queue
  <2> QED BY <2>1, <2>2 DEF Confirming, Free, Within
<1>10. CASE Ends
  <2>1. \/ \E r : LinkDown(r)
        \/ link' = link /\ ~link /\ tx' = tx
    BY <1>10 DEF Ends, Unasked, LinkLost, Closed, Disconnect, ClientPowerCut,
       ServerPowerCut, ServerPanics, CommitTimesOut, Restarts
  <2>2. CASE \E r : LinkDown(r)
    <3>1. PICK r : LinkDown(r)
      BY <2>2
    <3>2. link' = FALSE /\ tx'.held \in {None, tx.held}
      BY <3>1 DEF LinkDown, Quiet
    <3> QED BY <1>1, <3>2 DEF Confirming
  <2>3. CASE link' = link /\ ~link /\ tx' = tx
    BY <2>3 DEF Confirming
  <2> QED BY <2>1, <2>2, <2>3
<1>11. CASE UNCHANGED vars
  <2>1. tx' = tx /\ link' = link /\ wr' = wr /\ up' = up
    BY <1>11 DEF vars, client
  <2> QED BY <2>1 DEF Confirming
<1> QED BY <1>2, <1>3, <1>4, <1>5, <1>6, <1>7, <1>8, <1>9, <1>10, <1>11
        DEF Next, System, Ends, Unasked

-----------------------------------------------------------------------------
(* Steps that leave the upgrade where it stands *)

(***************************************************************************)
(* The server's part: what is in flash, what runs and what resets stay.    *)
(***************************************************************************)
Mild ==
    /\ link' = link /\ UNCHANGED <<resume, once, committed>>
    /\ dev'.app = dev.app /\ New' = New
    /\ (store'[committed] = Chunks) <=> (store[committed] = Chunks)
    /\ Ops({"run"})' <=> Ops({"run"})
    /\ dev'.timer => dev.timer \/ (resume = "post" /\ once = 0)
    /\ dev.timer => dev'.timer
    /\ dev'.reset = dev.reset
    /\ dev.closing => dev'.closing
    /\ dev'.closing \/ dev'.commit_cfm => dev.closing \/ dev.commit_cfm
    /\ Ops({"run"}) /\ link /\ (dev.closing \/ dev.commit_cfm) =>
        dev'.closing \/ dev'.commit_cfm

(* The client's: it is led no further than it may be. *)
Calm ==
    /\ PreStart' => PreStart
    /\ cl'.state = "START_REQ" => resume = "start"
    /\ cl'.state \in Late => Tried'
    /\ Out("COMMIT_CFM")' => Tried'
    /\ Out("ABORT_REQ")' => cl'.state \in Away
    /\ Out("TRANSFER_COMPLETE_RES")' => ~New
    /\ cl'.state = "DISCONNECT" => told'
    /\ cl.state \in Away /\ ~PreStart => cl'.state \in Away

LEMMA MildKeeps ==
    ASSUME Trying, Running, Asked, Mild, Calm,
           resume = "post" /\ Tried => Tried'
    PROVE  Trying' /\ Running' /\ Asked'
PROOF
<1>1. /\ link' = link /\ resume' = resume /\ once' = once /\ dev'.reset = dev.reset
      /\ New' = New
  BY DEF Mild
<1>2. Trying'
  BY <1>1 DEF Trying, Mild, Calm
<1>3. Running'
  <2>1. Ops({"run"})' <=> Ops({"run"})
    BY DEF Mild
  <2>2. dev'.reset /\ Ops({"run"}) => cl'.state \in Away
    BY <1>1 DEF Trying, Running, Calm
  <2>3. Ops({"run"}) => /\ resume = "start" /\ ~dev.timer
                        /\ link => dev.commit_cfm \/ dev.closing
    BY DEF Running
  <2>4. Ops({"run"}) => ~dev'.timer
    BY <2>3 DEF Mild
  <2>5. Ops({"run"}) /\ link => dev'.commit_cfm \/ dev'.closing
    BY <2>3 DEF Mild
  <2> QED BY <1>1, <2>1, <2>2, <2>3, <2>4, <2>5 DEF Running
<1>4. Asked'
  BY <1>1 DEF Asked, Calm
<1> QED BY <1>2, <1>3, <1>4

(* What was true when it was sent still is. *)
LEMMA MildHonest ==
    ASSUME Mild, cut' = cut
    PROVE  Honest \subseteq Honest'
PROOF
<1>1. /\ New' = New /\ resume' = resume /\ once' = once /\ dev'.reset = dev.reset
      /\ Tried' = Tried
  BY DEF Mild, Tried
<1>2. Done => Done'
  BY DEF Mild, Done
<1> QED BY <1>1, <1>2 DEF Honest

LEMMA MildTruth ==
    ASSUME Truth, Mild, told' => told, cut' = cut,
           link /\ Ops({"run"}) /\ Parting => Parting'
    PROVE  Truth'
PROOF
<1>1. /\ link' = link /\ committed' = committed /\ dev'.reset = dev.reset
      /\ (store'[committed] = Chunks) <=> (store[committed] = Chunks)
      /\ Ops({"run"})' <=> Ops({"run"})
  BY DEF Mild
<1> QED BY <1>1 DEF Truth

LEMMA MildGuarding ==
    ASSUME Counted, Guarding, Mild,
           \/ faults' = faults /\ (link /\ Led /\ resume = "post" => Led')
           \/ faults' = faults + 1
    PROVE  Guarding'
PROOF
<1>1. /\ link' = link /\ committed' = committed /\ resume' = resume /\ once' = once
      /\ dev'.reset = dev.reset /\ dev'.app = dev.app /\ New' = New
  BY DEF Mild
<1>2. faults \in Nat /\ (faults' <= 1 => faults <= 1)
  BY DEF Counted
<1>3. Astray' => Astray
  BY <1>1 DEF Mild, Astray
<1>4. TrialGuarded => TrialGuarded'
  <2>1. (\E i \in 1 .. Len(fw) : fw[i].t = "run") <=> Ops({"run"})
    BY DEF Ops
  <2>2. (\E i \in 1 .. Len(fw') : fw'[i].t = "run") <=> Ops({"run"})'
    BY DEF Ops
  <2> QED BY <1>1, <2>1, <2>2 DEF Mild, TrialGuarded
<1>5. CASE faults' = faults /\ (link /\ Led /\ resume = "post" => Led')
  BY <1>1, <1>2, <1>3, <1>4, <1>5 DEF Guarding
<1>6. CASE faults' = faults + 1
  BY <1>1, <1>2, <1>3, <1>4, <1>6 DEF Guarding
<1> QED BY <1>5, <1>6

-----------------------------------------------------------------------------
(* What the server serves *)

(* A command that is heeded comes before any trial boot has been asked for. *)
LEMMA HeededCommand ==
    ASSUME Types, IInv, Trying, NEW t, Takes(t)
    PROVE  /\ link /\ link' = link /\ once = 0 /\ ~dev.closing /\ ~dev.reset
           /\ Touched.timer <=> dev.timer \/ resume = "post"
           /\ Touched.commit_cfm = dev.commit_cfm
PROOF
<1>1. link /\ link' = link /\ once = 0 /\ ~dev.closing
  BY DEF Takes, IInv, Flash
<1>2. ~dev.reset
  BY <1>1 DEF Trying
<1>3. /\ Touched.timer <=> dev.timer \/ resume = "post"
      /\ Touched.commit_cfm = dev.commit_cfm
  BY DEF Touched, Types, Ram
<1> QED BY <1>1, <1>2, <1>3

LEMMA UpgradeStores ==
    ASSUME Types
    PROVE  /\ getAppStoreToUpgrade \in Stores
           /\ Op("set", getAppStoreToUpgrade) \in Request
           /\ Op("run", getAppStoreToUpgrade) \in Request
           /\ Op("chunk", dev.part) \in Request
           /\ \A t, s : Op(t, s).t = t
BY DEF Types, Ram, Stores, getAppStoreToUpgrade, Op, Request, Works

(***************************************************************************)
(* A packet loads the image of this upgrade, and changes nothing that a    *)
(* trial depends on.                                                       *)
(***************************************************************************)
LEMMA HostEffects ==
    ASSUME Types, HostData
    PROVE  /\ dev'.app = dev.app /\ dev'.closing = dev.closing
           /\ dev'.reset = dev.reset /\ dev'.timer = Touched.timer
           /\ dev'.commit_cfm => dev.commit_cfm
           /\ dev.upgraded => dev'.upgraded
           /\ Used' => Used \/ dev'.upgraded
           /\ dev.stage \in {"id", "len", "body"} => dev'.valid = dev.valid
           /\ \/ fw' = fw
              \/ \E op \in Request : op.t # "run" /\ fw' = Append(fw, op)
PROOF
<1> DEFINE T == Touched
           U == T.stage = "data" \/ T.sum # "none" \/ T.valid \/ fw # <<>>
           E == /\ dev'.app = T.app /\ dev'.closing = T.closing
                /\ dev'.reset = T.reset /\ dev'.timer = T.timer
                /\ dev'.commit_cfm => T.commit_cfm
                /\ T.upgraded => dev'.upgraded
                /\ Used' => U \/ dev'.upgraded
                /\ T.stage \in {"id", "len", "body"} => dev'.valid = T.valid
                /\ \/ fw' = fw
                   \/ \E op \in Request : op.t # "run" /\ fw' = Append(fw, op)
<1>1. /\ T \in Ram /\ T.app = dev.app /\ T.closing = dev.closing /\ T.reset = dev.reset
      /\ T.sum = dev.sum /\ T.valid = dev.valid /\ T.upgraded = dev.upgraded
      /\ T.stage = dev.stage /\ T.got = dev.got
  BY TouchedFields
<1>2. T.commit_cfm = dev.commit_cfm /\ T.timer = Touched.timer
  BY DEF Touched, Types, Ram
<1> HIDE DEF T
<1>3. SUFFICES E
  <2>1. U <=> Used
    BY <1>1 DEF Used
  <2> HIDE DEF U
  <2> QED BY <1>1, <1>2, <2>1
<1>4. \A s \in Steps, n \in Nat :
        s # "data" \/ T.stage = "data" => (fw' = fw /\ Continue(T, s, n) => E)
  BY <1>1 DEF Continue, Used, Ram
<1>5. fw' = fw /\ Refuse(T) => E
  BY <1>1 DEF Refuse, Used, Ram
<1>6. CASE dev.state # "IN_PROGRESS"
  <2>1. dev' = T /\ fw' = fw
    BY <1>6 DEF HostData, T
  <2> QED BY <2>1, <1>1 DEF Used
<1>7. CASE dev.state = "IN_PROGRESS"
  <2> DEFINE piece == File[up.v]
  <2>1. CASE /\ dev.stage = "id" /\ fw' = fw
             /\ IF piece = "id" THEN Continue(Touched, "len", 1)
                                ELSE Refuse([Touched EXCEPT !.stage = "len"])
    <3>1. CASE Continue(T, "len", 1)
      BY <1>4, <2>1, <3>1 DEF Steps
    <3>2. CASE Refuse([T EXCEPT !.stage = "len"])
      BY <1>1, <2>1, <3>2 DEF Refuse, Used, Ram
    <3> QED BY <2>1, <3>1, <3>2 DEF T
  <2>2. CASE dev.stage = "len" /\ fw' = fw /\ Continue(Touched, "body", 2)
    <3>1. Continue(T, "body", 2)
      BY <2>2 DEF T
    <3> QED BY <1>4, <2>2, <3>1 DEF Steps
  <2>3. CASE dev.stage = "body" /\ fw' = fw /\ HeaderBody
    <3>1. \/ Refuse([T EXCEPT !.field = "version", !.commit_cfm = FALSE])
          \/ \E g \in {0, 1}, f \in {"nvm", "version"} :
                LET d == [T EXCEPT !.got = g, !.field = f]
                IN  dev' = d \/ Continue(d, "unknown", 1)
      BY <2>3 DEF HeaderBody, T
    <3>2. CASE Refuse([T EXCEPT !.field = "version", !.commit_cfm = FALSE])
      BY <1>1, <2>3, <3>2 DEF Refuse, Used, Ram
    <3>3. CASE \E g \in {0, 1}, f \in {"nvm", "version"} :
                dev' = [T EXCEPT !.got = g, !.field = f]
      BY <1>1, <2>3, <3>3 DEF Used, Ram
    <3>4. CASE \E g \in {0, 1}, f \in {"nvm", "version"} :
                Continue([T EXCEPT !.got = g, !.field = f], "unknown", 1)
      BY <1>1, <2>3, <3>4 DEF Continue, Used, Ram
    <3> QED BY <3>1, <3>2, <3>3, <3>4
  <2>4. CASE /\ dev.stage = "unknown" /\ fw' = fw
             /\ IF piece \in {"part", "foot"}
                THEN Continue(Touched, IF piece = "part" THEN "phdr" ELSE "flen", 1)
                ELSE Refuse(Touched)
    <3>1. Refuse(T) \/ Continue(T, "phdr", 1) \/ Continue(T, "flen", 1)
      BY <2>4 DEF T
    <3> QED BY <1>4, <1>5, <2>4, <3>1 DEF Steps
  <2>5. CASE /\ dev.stage = "phdr"
             /\ dev' = [Touched EXCEPT !.part = getAppStoreToUpgrade,
                                       !.upgraded = TRUE, !.stage = "data"]
             /\ fw' = Append(fw, Op("set", getAppStoreToUpgrade))
    <3>1. PICK p : dev' = [T EXCEPT !.part = p, !.upgraded = TRUE, !.stage = "data"]
      BY <2>5 DEF T
    <3>2. \E op \in Request : op.t # "run" /\ fw' = Append(fw, op)
      BY <2>5, UpgradeStores
    <3> QED BY <1>1, <3>1, <3>2 DEF Ram
  <2>6. CASE dev.stage = "data" /\ PartitionData
    <3>1. \E op \in Request : op.t # "run" /\ fw' = Append(fw, op)
      BY <2>6, UpgradeStores DEF PartitionData
    <3>2. PICK g, l, s : Continue([T EXCEPT !.got = g, !.last = l], s, 1)
      BY <2>6 DEF PartitionData, T
    <3>3. dev' = [[T EXCEPT !.got = g, !.last = l] EXCEPT !.stage = s]
      BY <3>2 DEF Continue
    <3>4. T.stage = "data" /\ U
      BY <1>1, <2>6
    <3> QED BY <1>1, <3>1, <3>3, <3>4 DEF Ram
  <2>7. CASE dev.stage = "flen" /\ fw' = fw /\ Continue([Touched EXCEPT !.got = 0], "sig", 1)
    <3>1. Continue([T EXCEPT !.got = 0], "sig", 1)
      BY <2>7 DEF T
    <3> QED BY <1>1, <2>7, <3>1 DEF Continue, Used, Ram
  <2>8. CASE dev.stage = "sig" /\ fw' = fw /\ Signature
    <3>1. \/ Refuse([T EXCEPT !.got = @ + 1])
          \/ dev.sum = "image" /\ dev' = [T EXCEPT !.got = @ + 1, !.valid = TRUE]
          \/ Continue([T EXCEPT !.got = @ + 1], "sig", 1)
      BY <2>8 DEF Signature, T
    <3>2. CASE Refuse([T EXCEPT !.got = @ + 1])
      BY <1>1, <2>8, <3>2 DEF Refuse, Used, Ram
    <3>3. CASE dev.sum = "image" /\ dev' = [T EXCEPT !.got = @ + 1, !.valid = TRUE]
      BY <1>1, <2>8, <3>3 DEF Used, Ram
    <3>4. CASE Continue([T EXCEPT !.got = @ + 1], "sig", 1)
      BY <1>1, <2>8, <3>4 DEF Continue, Used, Ram
    <3> QED BY <3>1, <3>2, <3>3, <3>4
  <2> HIDE DEF E
  <2> QED BY <1>7, <2>1, <2>2, <2>3, <2>4, <2>5, <2>6, <2>7, <2>8 DEF HostData
<1> HIDE DEF E
<1> QED BY <1>6, <1>7

-----------------------------------------------------------------------------
(* What stays of an earlier connection, and what is added *)

\* All but what is at the head of the queue x is in S.
Rest(x, S) == x.held \in S /\ \A i \in 2 .. Len(x.q) : x.q[i] \in S

LEMMA AppendRest ==
    ASSUME NEW q \in Seq(Message), NEW m \in Message, NEW S, m \in S,
           \A i \in 2 .. Len(q) : q[i] \in S
    PROVE  \A i \in 2 .. Len(Append(q, m)) : Append(q, m)[i] \in S
PROOF
<1>1. /\ Len(q) \in Nat /\ Len(Append(q, m)) = Len(q) + 1
      /\ \A i \in 1 .. Len(q) + 1 : Append(q, m)[i] = IF i <= Len(q) THEN q[i] ELSE m
  OBVIOUS
<1> SUFFICES ASSUME NEW i \in 2 .. Len(Append(q, m))
             PROVE  Append(q, m)[i] \in S
  OBVIOUS
<1>2. i \in 1 .. Len(q) + 1 /\ (i <= Len(q) => i \in 2 .. Len(q))
  BY <1>1
<1> QED BY <1>1, <1>2

LEMMA NotifyRest ==
    ASSUME NEW x \in Queue, NEW m \in Message, NEW S, Rest(x, S), m \in S
    PROVE  Rest(Notify(x, m), S)
PROOF
<1>1. x.q \in Seq(Message)
  BY DEF Queue
<1>2. /\ Notify(x, m).held \in {x.held, m}
      /\ Notify(x, m).q \in {x.q, Append(x.q, m)}
  BY DEF Notify, Queue
<1> QED BY <1>1, <1>2, AppendRest DEF Rest

LEMMA AnswerRest ==
    ASSUME Types, NEW m \in Message, Answers(m), NEW S, Rest(tx, S),
           {WriteCfm, Ack, m} \subseteq S
    PROVE  Rest(tx', S)
PROOF
<1>1. tx \in Queue /\ WriteCfm \in Message /\ Ack \in Message /\ tx.q \in Seq(Message)
  BY Messages DEF Types, Queue
<1>2. Heard \in Queue /\ Heard.held = tx.held /\ Heard.q = Append(tx.q, WriteCfm)
  BY <1>1 DEF Heard, Queue
<1>3. Rest(Heard, S)
  BY <1>1, <1>2, AppendRest DEF Rest
<1>4. Rest(Acked, S) /\ Acked \in Queue
  BY <1>1, <1>2, <1>3, NotifyRest, NotifyQueue DEF Acked
<1> QED BY <1>2, <1>3, <1>4, NotifyRest DEF Answers

LEMMA TakenRest ==
    ASSUME Types, IInv, NEW t, Gets(t), NEW S, Rest(tx, S)
    PROVE  Within(tx', S)
PROOF
<1>1. /\ tx'.held = tx.held
      /\ Len(tx'.q) = Len(tx.q) - 1 /\ Len(tx.q) \in Nat \ {0}
      /\ \A i \in 1 .. Len(tx'.q) : tx'.q[i] = tx.q[i + 1] /\ i + 1 \in 1 .. Len(tx.q)
  BY Taking
<1>2. \A i \in 1 .. Len(tx'.q) : i + 1 \in 2 .. Len(tx.q)
  BY <1>1
<1> QED BY <1>1, <1>2 DEF Within, Rest

LEMMA WithinRest ==
    ASSUME NEW x \in Queue, NEW S, Within(x, S)
    PROVE  Rest(x, S)
PROOF
<1>1. Len(x.q) \in Nat
  BY DEF Queue
<1> QED BY <1>1 DEF Within, Rest

LEMMA FineMessages ==
    /\ {WriteCfm, Ack, SyncCfm, ErrorInd, None} \subseteq Fine
    /\ \A n \in Nat : BytesReq(n) \in Fine
    /\ resume' = resume => Fine' = Fine
PROOF
<1>1. {WriteCfm, Ack, SyncCfm, ErrorInd, None} \subseteq Fine
  BY Messages, MessageFields DEF Fine
<1>2. \A n \in Nat : BytesReq(n) \in Fine
  BY Messages, MessageFields DEF Fine
<1>3. resume' = resume => Fine' = Fine
  BY DEF Fine, SyncCfm
<1> QED BY <1>1, <1>2, <1>3

LEMMA HonestMessages ==
    /\ {WriteCfm, Ack, ErrorInd, None} \subseteq Honest
    /\ {WriteCfm, Ack, ErrorInd, None} \subseteq Honest'
    /\ \A n \in Nat : BytesReq(n) \in Honest /\ BytesReq(n) \in Honest'
PROOF
<1>1. {WriteCfm, Ack, ErrorInd, None} \subseteq Honest
  BY Messages, MessageFields DEF Honest
<1>2. {WriteCfm, Ack, ErrorInd, None} \subseteq Honest'
  BY Messages, MessageFields DEF Honest
<1>3. \A n \in Nat : BytesReq(n) \in Honest /\ BytesReq(n) \in Honest'
  BY Messages, MessageFields DEF Honest
<1> QED BY <1>1, <1>2, <1>3

LEMMA Widened ==
    ASSUME NEW x, NEW S, NEW T, Within(x, S), S \subseteq T
    PROVE  Within(x, T)
BY DEF Within

(* A command is answered truly, and what is left over stays in its place. *)
LEMMA ServedNotes ==
    ASSUME Types, IInv, OldAnswers, ~tx.done, UNCHANGED client,
           NEW t \in Kinds \ {"none"}, Takes(t),
           NEW m \in Message, Answers(m),
           m \in Fine \/ ~PreStart, resume' = resume \/ ~PreStart
    PROVE  OldAnswers'
PROOF
<1>1. link /\ link' = link /\ cl' = cl /\ PreStart' = PreStart
  BY TakenAway
<1>2. tx \in Queue /\ tx' \in Queue
  BY AnswerQueue DEF Types, Answers
<1>3. CASE cl.state = "SYNC_REQ"
  <2>1. m \in Fine /\ Fine' = Fine
    BY <1>3, FineMessages DEF PreStart
  <2>2. Rest(tx, Fine)
    BY <1>1, <1>3 DEF OldAnswers, Rest
  <2>3. Rest(tx', Fine)
    BY <2>1, <2>2, AnswerRest, FineMessages
  <2> QED BY <1>1, <1>3, <2>1, <2>3 DEF OldAnswers, Rest
<1>4. CASE cl.state = "START_REQ"
  <2>1. m \in Fine /\ Fine' = Fine
    BY <1>4, FineMessages DEF PreStart
  <2>2. Within(tx, Fine)
    BY <1>1, <1>4 DEF OldAnswers
  <2>3. Within(tx', Fine)
    BY <2>1, <2>2, AnswerQueue, FineMessages DEF Answers
  <2> QED BY <1>1, <1>4, <2>1, <2>3 DEF OldAnswers, Within
<1>5. CASE cl.state \notin {"SYNC_REQ", "START_REQ"}
  BY <1>1, <1>5 DEF OldAnswers
<1> QED BY <1>3, <1>4, <1>5

LEMMA ServedHonest ==
    ASSUME Types, Within(tx, Honest), Honest \subseteq Honest',
           NEW m \in Message, Answers(m), m \in Honest'
    PROVE  Within(tx, Honest)'
PROOF
<1>1. Within(tx, Honest')
  BY Widened
<1>2. Within(tx', Honest')
  BY <1>1, AnswerQueue, HonestMessages DEF Answers
<1> QED BY <1>2 DEF Within

LEMMA ServedCalm ==
    ASSUME Types, Trying, Asked, UNCHANGED client,
           NEW t \in Kinds \ {"none"}, Takes(t), Tried => Tried', told' = told
    PROVE  Calm
PROOF
<1>1. /\ link /\ cl' = cl /\ PreStart' = PreStart
      /\ \A k : k # "none" => (Out(k)' => Out(k))
  BY TakenAway
<1> QED BY <1>1 DEF Calm, Trying, Asked

LEMMA ServedLed ==
    ASSUME Types, UNCHANGED client, NEW t \in Kinds \ {"none"}, Takes(t), Led
    PROVE  Led'
PROOF
<1>1. /\ up' = None /\ wr' = wr /\ cl' = cl
      /\ \A k : k # "none" => (Out(k)' => Out(k))
      /\ PreStart' = PreStart /\ Over' = Over
  BY TakenAway
<1>2. (PreStart \/ GivenUp)'
  BY <1>1 DEF Led, GivenUp
<1>3. \A m \in {up', wr'.pend} : m.t = "COMMIT_CFM" => m.v = 0
  BY <1>1, MessageFields DEF Led
<1> QED BY <1>1, <1>2, <1>3 DEF Led

(* The request to disconnect is served by closing the connection. *)
LEMMA ServedParting ==
    ASSUME Types, UNCHANGED client, NEW t \in Kinds \ {"none"}, Takes(t), Parting,
           t = "DISCONNECT_REQ" => dev'.closing
    PROVE  Parting'
PROOF
<1>1. /\ up' = None /\ wr' = wr /\ cl' = cl /\ up.t = t
      /\ \A k : k # "none" => (Out(k)' => Out(k))
      /\ ~dev.closing
  BY TakenAway DEF Takes
<1>2. Out("DISCONNECT_REQ") => t = "DISCONNECT_REQ" \/ Out("DISCONNECT_REQ")'
  BY <1>1 DEF Out
<1> QED BY <1>1, <1>2 DEF Parting

(***************************************************************************)
(* A command that is answered and leaves the upgrade where it stands       *)
(***************************************************************************)
LEMMA ServedMildly ==
    ASSUME Types, IInv, CInv, ~tx.done, UNCHANGED <<client, bounds, told, cut>>,
           NEW t \in Kinds \ {"none"}, Takes(t),
           NEW m \in Message, Answers(m), m.t \notin {"write_cfm", "COMPLETE_IND"},
           m.t = "SYNC_CFM" => m = SyncCfm, m.t = "COMPLETE" => dev.valid,
           Mild, Loaded', t = "DISCONNECT_REQ" /\ dev.commit_cfm => dev'.closing
    PROVE  CInv'
PROOF
<1>1. /\ Counted /\ Confirming /\ Within(tx, Honest) /\ OldAnswers
      /\ Trying /\ Running /\ Asked /\ Loaded /\ Truth /\ Guarding
  BY DEF CInv
<1>2. /\ UNCHANGED client /\ faults' = faults /\ told' = told /\ cut' = cut
      /\ link /\ ~dev.closing
  BY DEF bounds, Takes
<1>3. Tried' = Tried /\ resume' = resume /\ New' = New
  BY <1>2 DEF Mild, Tried
<1>4. Calm
  BY <1>1, <1>2, <1>3, ServedCalm
<1>5. Trying' /\ Running' /\ Asked'
  BY <1>1, <1>3, <1>4, MildKeeps
<1>6. Counted' /\ Confirming'
  BY <1>1, <1>2, ConfirmingServed DEF Counted
<1>7. OldAnswers'
  <2>1. m \in Fine
    BY DEF Fine
  <2> QED BY <1>1, <1>2, <1>3, <2>1, ServedNotes
<1>8. Within(tx, Honest)'
  <2>1. m.t = "SYNC_CFM" => m.v = IF resume = "post" THEN 3 ELSE 0
    BY MessageFields DEF SyncCfm
  <2>2. m.t = "SYNC_CFM" /\ m.v = 3 => (Tried \/ once # 0)'
    BY <1>3, <1>5, <2>1 DEF Trying
  <2>3. m.t = "SYNC_CFM" /\ m.v # 3 => resume' = "start"
    BY <1>3, <2>1 DEF Types
  <2>4. m.t = "COMPLETE" => ~New'
    BY <1>1, <1>3 DEF Loaded
  <2>5. m \in Honest'
    BY <2>2, <2>3, <2>4 DEF Honest
  <2> QED BY <1>1, <1>2, <2>5, MildHonest, ServedHonest
<1>9. Truth'
  <2>1. Ops({"run"}) /\ Parting => Parting'
    <3>1. Ops({"run"}) => dev.commit_cfm
      BY <1>1, <1>2 DEF Running
    <3> QED BY <1>2, <3>1, ServedParting
  <2> QED BY <1>1, <1>2, <2>1, MildTruth
<1>10. Guarding'
  BY <1>1, <1>2, ServedLed, MildGuarding
<1> QED BY <1>5, <1>6, <1>7, <1>8, <1>9, <1>10 DEF CInv

LEMMA SameOps == fw' = fw => \A K : Ops(K)' = Ops(K)
BY DEF Ops

(* Nothing in flash changes, and the trial goes on. *)
LEMMA ServedMild ==
    ASSUME Types, IInv, Trying, Running, NEW t, Takes(t), UNCHANGED flash,
           dev'.app = dev.app, Ops({"run"})' <=> Ops({"run"}),
           dev'.timer \in {dev.timer, Touched.timer}, dev'.reset = dev.reset,
           dev'.closing \/ dev'.commit_cfm => dev.closing \/ dev.commit_cfm,
           Ops({"run"}) /\ (dev.closing \/ dev.commit_cfm) =>
                dev'.closing \/ dev'.commit_cfm
    PROVE  Mild
PROOF
<1>1. /\ link /\ link' = link /\ once = 0 /\ ~dev.closing /\ ~dev.reset
      /\ Touched.timer <=> dev.timer \/ resume = "post"
  BY HeededCommand
<1>2. resume' = resume /\ store' = store /\ committed' = committed /\ once' = once
  BY DEF flash
<1>3. New' = New
  BY <1>2 DEF New
<1>4. dev.timer => dev'.timer
  BY <1>1
<1>5. dev'.timer => dev.timer \/ (resume = "post" /\ once = 0)
  BY <1>1
<1> QED BY <1>1, <1>2, <1>3, <1>4, <1>5 DEF Mild

(* A commit is not with the firmware while a transfer can go on. *)
LEMMA RunEndsTransfer ==
    ASSUME Types, IInv, TInv, link, Ops({"run"})
    PROVE  New /\ GivenUp /\ fw # <<>>
PROOF
<1>1. PICK i \in 1 .. Len(fw) : fw[i].t = "run"
  BY DEF Ops
<1>2. New
  <2>1. ~New => fw[i].t \in {"key", "set", "chunk", "hash"}
    BY DEF IInv, Flash
  <2> QED BY <1>1, <2>1
<1>3. fw # <<>>
  BY <1>1
<1> QED BY <1>2, <1>3 DEF TInv, Committing

LEMMA QuietEffects ==
    ASSUME Types,
           ConnectReq \/ DisconnectReq \/ AckReq \/ SyncReq \/ StartReq
           \/ ValidDoneReq \/ InProgressRes
    PROVE  /\ dev'.timer \in {dev.timer, Touched.timer} /\ dev'.reset = dev.reset
           /\ \/ dev'.closing = dev.closing /\ dev'.commit_cfm = dev.commit_cfm
              \/ DisconnectReq /\ dev'.closing = (dev.closing \/ dev.commit_cfm)
                 /\ ~dev'.commit_cfm
PROOF
<1> DEFINE T == Touched
<1>1. /\ T \in Ram /\ T.closing = dev.closing /\ T.reset = dev.reset
      /\ T.commit_cfm = dev.commit_cfm /\ T.timer = Touched.timer
  BY TouchedFields DEF Types, Ram, Touched
<1> HIDE DEF T
<1>2. CASE ConnectReq \/ AckReq
  BY <1>2 DEF ConnectReq, AckReq, server
<1>3. CASE DisconnectReq
  BY <1>3 DEF DisconnectReq, Types, Ram
<1>4. CASE StartReq \/ ValidDoneReq \/ InProgressRes
  <2>1. dev' = T
    BY <1>4 DEF StartReq, ValidDoneReq, InProgressRes, T
  <2> QED BY <1>1, <2>1
<1>5. CASE SyncReq
  <2>1. \/ dev' = [T EXCEPT !.busy = TRUE, !.state = "WAIT_FOR_HOST"]
        \/ dev' = [T EXCEPT !.busy = TRUE, !.cb = TRUE, !.state = "WAIT_FOR_DEVICE"]
    BY <1>5 DEF SyncReq, T
  <2> QED BY <1>1, <2>1 DEF Ram
<1> QED BY <1>2, <1>3, <1>4, <1>5

LEMMA QuietMild ==
    ASSUME Types, IInv, TInv, CInv,
           ConnectReq \/ DisconnectReq \/ AckReq \/ SyncReq \/ StartReq
           \/ ValidDoneReq \/ InProgressRes
    PROVE  /\ Mild /\ Loaded'
           /\ up.t = "DISCONNECT_REQ" /\ dev.commit_cfm => dev'.closing
           /\ up.t # "COMMIT_CFM"
PROOF
<1>1. Trying /\ Running /\ Loaded
  BY DEF CInv
<1>2. /\ dev'.timer \in {dev.timer, Touched.timer} /\ dev'.reset = dev.reset
      /\ \/ dev'.closing = dev.closing /\ dev'.commit_cfm = dev.commit_cfm
         \/ DisconnectReq /\ dev'.closing = (dev.closing \/ dev.commit_cfm)
            /\ ~dev'.commit_cfm
  BY QuietEffects
<1>3. /\ dev' \in Ram /\ Kept /\ UNCHANGED <<flash, fw, link>> /\ link
  BY QuietCommands
<1>4. Takes(up.t) /\ up.t # "COMMIT_CFM" /\ (up.t = "DISCONNECT_REQ" => DisconnectReq)
  BY DEF ConnectReq, DisconnectReq, AckReq, SyncReq, StartReq, ValidDoneReq,
         InProgressRes, Takes
<1>5. Ops({"run"})' <=> Ops({"run"})
  BY <1>3 DEF Ops
<1>6. dev'.app = dev.app /\ UNCHANGED flash
  BY <1>3 DEF Kept
<1>7. Mild
  BY <1>1, <1>2, <1>4, <1>5, <1>6, ServedMild
<1>8. Loaded'
  <2>1. New' = New
    BY <1>6 DEF New, flash
  <2> QED BY <1>1, <1>3, <2>1 DEF Loaded, Used, Kept
<1>9. up.t = "DISCONNECT_REQ" /\ dev.commit_cfm => dev'.closing
  <2>1. CASE DisconnectReq
    BY <2>1 DEF DisconnectReq, Types, Ram
  <2> QED BY <1>4, <2>1
<1> QED BY <1>4, <1>7, <1>8, <1>9

(* A transfer begins: nothing of another is loaded. *)
LEMMA StartDataMild ==
    ASSUME Types, IInv, TInv, CInv, StartDataReq
    PROVE  Mild /\ Loaded' /\ up.t = "START_DATA_REQ"
PROOF
<1>1. Trying /\ Running /\ Loaded
  BY DEF CInv
<1> DEFINE T == Touched
<1>2. /\ T \in Ram /\ T.app = dev.app /\ T.closing = dev.closing /\ T.reset = dev.reset
      /\ T.valid = dev.valid /\ T.sum = dev.sum
      /\ T.commit_cfm = dev.commit_cfm /\ T.timer = Touched.timer
  BY TouchedFields DEF Types, Ram, Touched
<1>3. dev' = [T EXCEPT !.state = "IN_PROGRESS", !.stage = "id", !.upgraded = FALSE]
  BY DEF StartDataReq
<1>4. Takes("START_DATA_REQ") /\ UNCHANGED flash /\ fw' = fw
  BY DEF StartDataReq
<1> HIDE DEF T
<1>5. /\ dev'.app = dev.app /\ dev'.closing = dev.closing /\ dev'.reset = dev.reset
      /\ dev'.valid = dev.valid /\ dev'.sum = dev.sum /\ dev'.stage = "id"
      /\ dev'.commit_cfm = dev.commit_cfm /\ dev'.timer = Touched.timer
  BY <1>2, <1>3 DEF Ram
<1>6. Ops({"run"})' <=> Ops({"run"})
  BY <1>4 DEF Ops
<1>7. Mild
  BY <1>1, <1>4, <1>5, <1>6, ServedMild
<1>8. New' = New
  BY <1>4, <1>5 DEF New, flash
<1>9. ~New => fw = <<>> /\ dev.sum = "none" /\ ~dev.valid
  <2>1. link /\ Out("START_DATA_REQ")
    BY <1>4 DEF Takes, Out
  <2>2. ~Started /\ ~GivenUp
    BY <2>1 DEF Started, GivenUp
  <2> QED BY <2>1, <2>2 DEF IInv, Transfer, Writing, Written, Fresh
<1>10. Loaded'
  BY <1>1, <1>4, <1>5, <1>8, <1>9 DEF Loaded, Used
<1> QED BY <1>4, <1>7, <1>10 DEF Takes

LEMMA HostMild ==
    ASSUME Types, IInv, TInv, CInv, HostData
    PROVE  Mild /\ Loaded' /\ up.t = "DATA"
PROOF
<1>1. Trying /\ Running /\ Loaded
  BY DEF CInv
<1>2. Takes("DATA") /\ UNCHANGED flash
  BY DEF HostData
<1>3. /\ dev'.app = dev.app /\ dev'.closing = dev.closing
      /\ dev'.reset = dev.reset /\ dev'.timer = Touched.timer
      /\ dev'.commit_cfm => dev.commit_cfm
      /\ dev.upgraded => dev'.upgraded
      /\ Used' => Used \/ dev'.upgraded
      /\ dev.stage \in {"id", "len", "body"} => dev'.valid = dev.valid
      /\ \/ fw' = fw
         \/ \E op \in Request : op.t # "run" /\ fw' = Append(fw, op)
  BY HostEffects
<1>4. Ops({"run"})' <=> Ops({"run"})
  <2>1. CASE fw' = fw
    BY <2>1 DEF Ops
  <2>2. CASE \E op \in Request : op.t # "run" /\ fw' = Append(fw, op)
    <3>1. PICK op \in Request : op.t # "run" /\ fw' = Append(fw, op)
      BY <2>2
    <3>2. fw \in Seq(Request)
      BY DEF Types
    <3> QED BY <3>1, <3>2, OpAppended
  <2> QED BY <1>3, <2>1, <2>2
<1>5. ~Ops({"run"})
  <2>1. link /\ ~GivenUp
    BY <1>2 DEF Takes, GivenUp, Out
  <2> QED BY <2>1, RunEndsTransfer
<1>6. Mild
  BY <1>1, <1>2, <1>3, <1>4, <1>5, ServedMild
<1>7. New' = New /\ link' = link
  BY <1>2, <1>3 DEF New, flash, Takes
<1>8. New => dev.stage \in {"id", "len", "body"}
  BY DEF IInv, Flash
<1>9. Loaded'
  BY <1>1, <1>3, <1>7, <1>8 DEF Loaded
<1> QED BY <1>2, <1>6, <1>9 DEF Takes

LEMMA MildServes ==
    ASSUME Types, IInv, TInv, CInv, ~tx.done, UNCHANGED <<client, bounds, told, cut>>,
           \/ ConnectReq \/ DisconnectReq \/ AckReq \/ SyncReq \/ StartReq
           \/ ValidDoneReq \/ InProgressRes \/ StartDataReq \/ HostData
    PROVE  CInv'
PROOF
<1>1. /\ Mild /\ Loaded' /\ up.t # "COMMIT_CFM"
      /\ up.t = "DISCONNECT_REQ" /\ dev.commit_cfm => dev'.closing
  BY QuietMild, StartDataMild, HostMild
<1>2. ServerStep /\ UNCHANGED client
  BY DEF ServerStep
<1>3. PICK t \in Kinds \ {"none"}, m \in Message :
        /\ Takes(t) /\ Answers(m) /\ m.t \notin {"none", "write_cfm"}
        /\ m.t = "SYNC_CFM" => m = SyncCfm /\ resume' = resume
        /\ m.t = "COMPLETE_IND" => CommitCfm
        /\ m.t = "COMPLETE" => dev.valid
  BY <1>2, ServerAnswers
<1>4. up.t = t /\ ~CommitCfm
  BY <1>1, <1>3 DEF Takes, CommitCfm
<1> QED BY <1>1, <1>3, <1>4, ServedMildly

(***************************************************************************)
(* The commands that decide: an abort, the confirmation of a transfer, and *)
(* a commit or its refusal.  None comes before a transfer could begin.     *)
(***************************************************************************)
LEMMA ServedLoudly ==
    ASSUME Types, IInv, CInv, ~tx.done, UNCHANGED <<client, bounds, told, cut>>,
           NEW t \in Kinds \ {"none"}, Takes(t), ~PreStart,
           NEW m \in Message, Answers(m), m.t # "write_cfm", m \in Honest',
           UNCHANGED <<store, committed>>, dev'.app = dev.app,
           Ops({"run"}) => Ops({"run"})',
           resume' = "start" \/ dev'.reset,
           resume' = "post" \/ once' = once, resume' = "post" => once' # 0
    PROVE  /\ Counted' /\ Confirming' /\ Within(tx, Honest)' /\ OldAnswers' /\ Asked'
           /\ New' = New /\ link' = link /\ PreStart' = PreStart /\ cl' = cl
           /\ Tried' = Tried
           /\ Out("TRANSFER_COMPLETE_RES")' => Out("TRANSFER_COMPLETE_RES")
PROOF
<1>1. /\ Counted /\ Confirming /\ Within(tx, Honest) /\ OldAnswers /\ Asked
      /\ Trying /\ UNCHANGED client /\ faults' = faults /\ told' = told /\ cut' = cut
  BY DEF CInv, bounds
<1>2. /\ link /\ link' = link /\ cl' = cl /\ PreStart' = PreStart
      /\ \A k : k # "none" => (Out(k)' => Out(k))
  BY <1>1, TakenAway
<1>3. New' = New /\ Tried' = Tried
  <2>1. New' = New
    BY DEF New
  <2> QED BY <1>1, <2>1 DEF Tried
<1>4. Counted' /\ Confirming'
  BY <1>1, ConfirmingServed DEF Counted
<1>5. OldAnswers'
  BY <1>1, ServedNotes
<1>6. Asked'
  BY <1>1, <1>2, <1>3 DEF Asked, PreStart
<1>7. Within(tx, Honest)'
  <2>1. Done => Done'
    BY DEF Done
  <2>2. once # 0 => once' # 0
    BY <1>1 DEF Types
  <2>3. Honest \subseteq Honest'
    BY <1>1, <1>3, <2>1, <2>2 DEF Honest
  <2> QED BY <1>1, <2>3, ServedHonest
<1> QED BY <1>2, <1>3, <1>4, <1>5, <1>6, <1>7

(* Which application the server takes itself for, while it is connected *)
LEMMA KnowsItself ==
    ASSUME Types, IInv, TInv, link
    PROVE  /\ ~New => ~isNewApp /\ dev.app = committed /\ getAppStoreToUpgrade = Other
           /\ dev.app # committed => New /\ isNewApp
           /\ Ops({"run"}) => New /\ isNewApp
           /\ isNewApp => getAppStoreToUpgrade = dev.app
           /\ New => store[dev.app] = Chunks
PROOF
<1>1. dev.cs # 0 /\ fw # <<Op("key", 0)>>
  BY DEF IInv, Flash
<1>2. ~New => ~isNewApp /\ dev.app = committed /\ getAppStoreToUpgrade = Other
  BY <1>1 DEF IInv, Flash, isNewApp, getAppStoreToUpgrade, Other
<1>3. dev.app # committed => New /\ isNewApp
  BY <1>1, <1>2 DEF IInv, Flash, isNewApp
<1>4. Ops({"run"}) => New /\ isNewApp
  <2>1. Ops({"run"}) => New /\ fw # <<>>
    BY RunEndsTransfer
  <2>2. Ops({"run"}) => fw # <<Op("set", Other)>>
    BY DEF Ops, Op
  <2>3. Ops({"run"}) => fw = <<Op("run", dev.app)>>
    BY <1>1, <2>1, <2>2 DEF IInv, Flash
  <2>4. Ops({"run"}) => dev.cs = Other
    BY <2>1, <2>3 DEF IInv, Flash
  <2> QED BY <2>1, <2>4, Requests DEF isNewApp
<1>5. New => store[dev.app] = Chunks
  BY DEF IInv, Flash
<1> QED BY <1>2, <1>3, <1>4, <1>5 DEF getAppStoreToUpgrade

(* An abort ends a trial, and does not undo what the host has been told. *)
LEMMA AbortServes ==
    ASSUME Types, IInv, TInv, CInv, ~tx.done, UNCHANGED <<client, bounds, told, cut>>,
           AbortReq
    PROVE  CInv'
PROOF
<1>1. /\ Trying /\ Running /\ Asked /\ Loaded /\ Truth /\ Guarding
      /\ UNCHANGED client /\ faults' = faults /\ told' = told /\ cut' = cut
  BY DEF CInv, bounds
<1>2. Takes("ABORT_REQ") /\ "ABORT_REQ" \in Kinds \ {"none"}
  BY DEF AbortReq, Kinds
<1>3. /\ link /\ link' = link /\ once = 0 /\ ~dev.closing /\ ~dev.reset
      /\ Touched.timer <=> dev.timer \/ resume = "post"
      /\ Touched.commit_cfm = dev.commit_cfm
  BY <1>1, <1>2, HeededCommand
<1>4. Out("ABORT_REQ") /\ cl.state \in Away /\ ~PreStart
  <2>1. Out("ABORT_REQ")
    BY <1>2 DEF Takes, Out
  <2> QED BY <1>1, <1>3, <2>1 DEF Asked, IInv, Client, Over
<1>5. /\ resume' = "start" /\ UNCHANGED <<store, committed, once, fw>>
      /\ Answers(Msg("ABORT_CFM", 0))
  BY DEF AbortReq, Answers
<1>6. /\ dev'.app = dev.app /\ dev'.timer = Touched.timer
      /\ dev'.commit_cfm = dev.commit_cfm /\ dev'.upgraded = dev.upgraded
      /\ \/ isNewApp /\ dev'.reset /\ dev'.closing
            /\ dev'.valid = dev.valid /\ dev'.sum = dev.sum /\ dev'.stage = dev.stage
         \/ ~isNewApp /\ ~dev'.reset /\ ~dev'.closing
            /\ ~dev'.valid /\ dev'.sum = "none" /\ dev'.stage = "id"
  <2> DEFINE T == Touched
  <2>1. /\ T \in Ram /\ T.app = dev.app /\ T.closing = dev.closing
        /\ T.valid = dev.valid /\ T.sum = dev.sum /\ T.stage = dev.stage
        /\ T.upgraded = dev.upgraded
        /\ T.commit_cfm = dev.commit_cfm /\ T.timer = Touched.timer
    BY TouchedFields DEF Types, Ram, Touched
  <2>2. dev' = IF isNewApp
               THEN [T EXCEPT !.trial = FALSE, !.reset = TRUE, !.closing = TRUE]
               ELSE initStateVariables([T EXCEPT !.trial = FALSE])
    BY DEF AbortReq
  <2> HIDE DEF T
  <2>3. CASE isNewApp
    BY <2>1, <2>2, <2>3 DEF Ram
  <2>4. CASE ~isNewApp
    <3>1. dev' = [[T EXCEPT !.trial = FALSE]
                    EXCEPT !.valid = FALSE, !.got = 0, !.stage = "id",
                           !.reset = FALSE, !.sum = "none"]
      BY <2>2, <2>4 DEF initStateVariables
    <3> QED BY <1>3, <2>1, <2>4, <3>1 DEF Ram
  <2> QED BY <2>3, <2>4
<1>7. /\ ~New => ~isNewApp
      /\ dev.app # committed => New /\ isNewApp
      /\ Ops({"run"}) => New /\ isNewApp
  BY <1>3, KnowsItself
<1>8. Ops({"run"})' = Ops({"run"})
  BY <1>5, SameOps
<1>9. Msg("ABORT_CFM", 0) \in Message /\ Msg("ABORT_CFM", 0).t = "ABORT_CFM"
  BY Messages, MessageFields DEF Kinds
<1>10. Msg("ABORT_CFM", 0) \in Honest'
  BY <1>9 DEF Honest
<1>11. /\ Counted' /\ Confirming' /\ Within(tx, Honest)' /\ OldAnswers' /\ Asked'
       /\ New' = New /\ PreStart' = PreStart /\ cl' = cl /\ Tried' = Tried
       /\ Out("TRANSFER_COMPLETE_RES")' => Out("TRANSFER_COMPLETE_RES")
  BY <1>1, <1>2, <1>4, <1>5, <1>6, <1>8, <1>9, <1>10, ServedLoudly
<1>12. Trying'
  BY <1>1, <1>3, <1>4, <1>5, <1>6, <1>11 DEF Trying
<1>13. Running'
  BY <1>1, <1>3, <1>4, <1>5, <1>6, <1>7, <1>8, <1>11 DEF Running
<1>14. Loaded'
  BY <1>1, <1>3, <1>5, <1>6, <1>7, <1>11 DEF Loaded, Used
<1>15. Truth'
  <2>1. ~Parting
    BY <1>3, <1>4 DEF Parting
  <2> QED BY <1>1, <1>3, <1>5, <2>1 DEF Truth
<1>16. Guarding'
  <2> SUFFICES ASSUME faults <= 1 PROVE ~Astray' /\ TrialGuarded'
    BY <1>1 DEF Guarding
  <2>1. ~Astray
    BY <1>1, <1>3, <1>4 DEF Guarding, Led
  <2>2. ~Astray'
    BY <1>3, <1>5, <1>6, <1>11, <2>1 DEF Astray
  <2>3. TrialGuarded'
    BY <1>5, <1>6, <1>7 DEF TrialGuarded
  <2> QED BY <2>2, <2>3
<1> QED BY <1>11, <1>12, <1>13, <1>14, <1>15, <1>16 DEF CInv

(* A transfer is confirmed: its image will be booted, and is not run yet. *)
LEMMA TransferServes ==
    ASSUME Types, IInv, TInv, CInv, ~tx.done, UNCHANGED <<client, bounds, told, cut>>,
           TransferCompleteRes
    PROVE  CInv'
PROOF
<1>1. /\ Trying /\ Running /\ Asked /\ Loaded /\ Truth /\ Guarding
      /\ UNCHANGED client /\ faults' = faults /\ told' = told /\ cut' = cut
  BY DEF CInv, bounds
<1>2. Takes("TRANSFER_COMPLETE_RES") /\ "TRANSFER_COMPLETE_RES" \in Kinds \ {"none"}
  BY DEF TransferCompleteRes, Kinds
<1>3. /\ link /\ link' = link /\ once = 0 /\ ~dev.closing /\ ~dev.reset
      /\ Touched.timer <=> dev.timer \/ resume = "post"
      /\ Touched.commit_cfm = dev.commit_cfm
  BY <1>1, <1>2, HeededCommand
<1>4. Out("TRANSFER_COMPLETE_RES") /\ ~New /\ ~PreStart /\ ~GivenUp /\ dev.valid
  <2>1. Out("TRANSFER_COMPLETE_RES")
    BY <1>2 DEF Takes, Out
  <2>2. ~New /\ ~PreStart
    BY <1>1, <2>1 DEF Trying, IInv, Client, Over
  <2> QED BY <1>3, <2>1, <2>2 DEF IInv, Transfer, GivenUp
<1>5. dev.upgraded
  BY <1>1, <1>3, <1>4 DEF Loaded, Used
<1>6. ~Ops({"run"}) /\ dev.app = committed /\ getAppStoreToUpgrade = Other
  BY <1>3, <1>4, KnowsItself
<1>7. Other # 0
  BY Requests DEF Stores
<1>8. /\ resume' = "post" /\ once' = Other /\ UNCHANGED <<store, committed, fw>>
      /\ Answers(Ack)
  BY <1>5, <1>6 DEF TransferCompleteRes, Answers
<1>9. /\ dev'.app = dev.app /\ dev'.timer = Touched.timer /\ dev'.reset /\ dev'.closing
      /\ dev'.upgraded = dev.upgraded
  <2> DEFINE T == Touched
  <2>1. /\ T \in Ram /\ T.app = dev.app /\ T.upgraded = dev.upgraded
        /\ T.timer = Touched.timer
    BY TouchedFields
  <2>2. dev' = [T EXCEPT !.reset = TRUE, !.closing = TRUE]
    BY DEF TransferCompleteRes
  <2> HIDE DEF T
  <2> QED BY <2>1, <2>2 DEF Ram
<1>10. Ops({"run"})' = Ops({"run"})
  BY <1>8, SameOps
<1>11. Ack \in Message /\ Ack.t = "ack" /\ Ack \in Honest'
  BY Messages, MessageFields, HonestMessages
<1>12. /\ Counted' /\ Confirming' /\ Within(tx, Honest)' /\ OldAnswers' /\ Asked'
       /\ New' = New /\ PreStart' = PreStart /\ cl' = cl /\ Tried' = Tried
  BY <1>1, <1>2, <1>4, <1>7, <1>8, <1>9, <1>10, <1>11, ServedLoudly
<1>13. Trying'
  BY <1>3, <1>4, <1>7, <1>8, <1>9, <1>12 DEF Trying
<1>14. Running'
  BY <1>6, <1>10 DEF Running
<1>15. Loaded'
  BY <1>4, <1>5, <1>9, <1>12 DEF Loaded
<1>16. Truth'
  BY <1>1, <1>6, <1>8 DEF Truth
<1>17. Guarding'
  <2> SUFFICES ASSUME faults <= 1 PROVE ~Astray' /\ TrialGuarded'
    BY <1>1 DEF Guarding
  <2>1. ~Astray
    BY <1>1, <1>3, <1>4 DEF Guarding, Led
  <2>2. ~Astray'
    BY <1>3, <1>7, <1>8, <1>9, <1>12, <2>1 DEF Astray
  <2>3. TrialGuarded'
    BY <1>6, <1>8, <1>9 DEF TrialGuarded
  <2> QED BY <2>2, <2>3
<1> QED BY <1>12, <1>13, <1>14, <1>15, <1>16, <1>17 DEF CInv

(***************************************************************************)
(* A commit, or its refusal.  The firmware owes nothing to a new           *)
(* application when it is asked, and an old one was interrupted.           *)
(***************************************************************************)
LEMMA CommitServes ==
    ASSUME Types, IInv, TInv, CInv, ~tx.done, UNCHANGED <<client, bounds, told, cut>>,
           CommitCfm
    PROVE  CInv'
PROOF
<1>1. /\ Trying /\ Running /\ Asked /\ Loaded /\ Truth /\ Guarding
      /\ UNCHANGED client /\ faults' = faults /\ told' = told /\ cut' = cut
  BY DEF CInv, bounds
<1>2. Takes("COMMIT_CFM") /\ "COMMIT_CFM" \in Kinds \ {"none"}
  BY DEF CommitCfm, Kinds
<1>3. /\ link /\ link' = link /\ once = 0 /\ ~dev.closing /\ ~dev.reset
      /\ Touched.timer <=> dev.timer \/ resume = "post"
      /\ Touched.commit_cfm = dev.commit_cfm
  BY <1>1, <1>2, HeededCommand
<1>4. Out("COMMIT_CFM") /\ ~PreStart /\ Tried /\ up.t = "COMMIT_CFM"
  <2>1. Out("COMMIT_CFM") /\ up.t = "COMMIT_CFM"
    BY <1>2 DEF Takes, Out
  <2> QED BY <1>1, <1>3, <2>1 DEF Asked, IInv, Client, PreCommit
<1>5. (New => fw = <<>>) /\ ~Ops({"run"})
  <2>1. New => fw = <<>>
    BY <1>3, <1>4 DEF IInv, Flash
  <2> QED BY <1>3, <2>1, RunEndsTransfer
<1>6. resume' = "start" /\ UNCHANGED <<store, committed, once>>
  BY DEF CommitCfm
<1>7. /\ ~New => ~isNewApp /\ dev.app = committed
      /\ dev.app # committed => New /\ isNewApp
      /\ New => store[dev.app] = Chunks
  BY <1>3, KnowsItself
<1>8. ~(told /\ ~cut /\ store[committed] # Chunks)
  BY <1>1, <1>5 DEF Truth
<1> DEFINE T == Touched
<1>9. /\ T \in Ram /\ T.app = dev.app /\ T.closing = dev.closing /\ T.reset = dev.reset
      /\ T.valid = dev.valid /\ T.sum = dev.sum /\ T.stage = dev.stage
      /\ T.upgraded = dev.upgraded
      /\ T.commit_cfm = dev.commit_cfm /\ T.timer = Touched.timer
  BY TouchedFields DEF Types, Ram, Touched
<1>10. CASE up.v = 0
  <2> DEFINE m == Msg("COMPLETE_IND", 0)
  <2>1. /\ dev' = [T EXCEPT !.timer = FALSE, !.trial = FALSE, !.commit_cfm = TRUE]
        /\ fw' = IF isNewApp THEN Append(fw, Op("run", getAppStoreToUpgrade)) ELSE fw
        /\ Answers(m)
    BY <1>10 DEF CommitCfm, Answers
  <2> HIDE DEF T
  <2>2. /\ dev'.app = dev.app /\ ~dev'.timer /\ dev'.commit_cfm
        /\ dev'.reset = dev.reset /\ dev'.closing = dev.closing
        /\ dev'.valid = dev.valid /\ dev'.sum = dev.sum /\ dev'.stage = dev.stage
        /\ dev'.upgraded = dev.upgraded
    BY <1>9, <2>1 DEF Ram
  <2>3. isNewApp => Ops({"run"})'
    <3>1. Op("run", getAppStoreToUpgrade) \in Request
          /\ Op("run", getAppStoreToUpgrade).t = "run" /\ fw \in Seq(Request)
      BY UpgradeStores DEF Types
    <3> QED BY <2>1, <3>1, OpAppended
  <2>4. m \in Message /\ m.t = "COMPLETE_IND"
    BY Messages, MessageFields DEF Kinds
  <2> HIDE DEF m
  <2>5. (cut \/ Done)'
    <3>1. CASE dev.app # committed
      BY <1>7, <2>3, <3>1 DEF Done
    <3>2. CASE dev.app = committed /\ New
      BY <1>6, <1>7, <3>2 DEF Done
    <3>3. CASE ~New
      BY <1>1, <1>4, <3>3 DEF Tried
    <3> QED BY <1>7, <3>1, <3>2, <3>3
  <2>6. m \in Honest'
    BY <2>4, <2>5 DEF Honest
  <2>7. /\ Counted' /\ Confirming' /\ Within(tx, Honest)' /\ OldAnswers' /\ Asked'
        /\ New' = New /\ PreStart' = PreStart /\ cl' = cl /\ Tried' = Tried
        /\ Out("TRANSFER_COMPLETE_RES")' => Out("TRANSFER_COMPLETE_RES")
    BY <1>1, <1>2, <1>4, <1>5, <1>6, <2>1, <2>2, <2>4, <2>6, ServedLoudly
  <2>8. Trying'
    BY <1>1, <1>3, <1>6, <2>2, <2>7 DEF Trying
  <2>9. Running'
    BY <1>3, <1>6, <2>2 DEF Running
  <2>10. Loaded'
    BY <1>1, <1>3, <1>7, <2>1, <2>2, <2>7 DEF Loaded, Used
  <2>11. Truth'
    BY <1>1, <1>6, <1>8 DEF Truth
  <2>12. Guarding'
    <3>1. ~Astray'
      BY <1>6, <2>2 DEF Astray
    <3>2. TrialGuarded'
      <4>1. dev.app # committed => Ops({"run"})'
        BY <1>7, <2>3
      <4>2. Ops({"run"})' => \E i \in 1 .. Len(fw') : fw'[i].t = "run"
        BY DEF Ops
      <4> QED BY <1>6, <2>2, <4>1, <4>2 DEF TrialGuarded
    <3> QED BY <1>1, <3>1, <3>2 DEF Guarding
  <2> QED BY <2>7, <2>8, <2>9, <2>10, <2>11, <2>12 DEF CInv
<1>11. CASE up.v # 0
  <2>1. /\ dev' = [T EXCEPT !.trial = FALSE, !.reset = TRUE, !.closing = TRUE]
        /\ fw' = fw /\ Answers(Ack)
    BY <1>11 DEF CommitCfm, Answers
  <2> HIDE DEF T
  <2>2. /\ dev'.app = dev.app /\ dev'.timer = Touched.timer
        /\ dev'.reset /\ dev'.closing
        /\ dev'.valid = dev.valid /\ dev'.sum = dev.sum /\ dev'.stage = dev.stage
        /\ dev'.upgraded = dev.upgraded
    BY <1>9, <2>1 DEF Ram
  <2>3. Ops({"run"})' = Ops({"run"})
    BY <2>1, SameOps
  <2>4. Ack \in Message /\ Ack.t = "ack" /\ Ack \in Honest'
    BY Messages, MessageFields, HonestMessages
  <2>5. /\ Counted' /\ Confirming' /\ Within(tx, Honest)' /\ OldAnswers' /\ Asked'
        /\ New' = New /\ PreStart' = PreStart /\ cl' = cl /\ Tried' = Tried
        /\ Out("TRANSFER_COMPLETE_RES")' => Out("TRANSFER_COMPLETE_RES")
    BY <1>1, <1>2, <1>4, <1>5, <1>6, <2>1, <2>2, <2>4, ServedLoudly
  <2>6. Trying'
    BY <1>1, <1>3, <1>4, <1>6, <2>2, <2>5 DEF Trying
  <2>7. Running'
    BY <1>5, <2>3 DEF Running
  <2>8. Loaded'
    BY <1>1, <1>3, <2>1, <2>2, <2>5 DEF Loaded, Used
  <2>9. Truth'
    BY <1>1, <1>6, <1>8 DEF Truth
  <2>10. Guarding'
    <3> SUFFICES ASSUME faults <= 1 PROVE ~Astray' /\ TrialGuarded'
      BY <1>1 DEF Guarding
    <3>1. ~Astray
      BY <1>1, <1>3, <1>4, <1>11 DEF Guarding, Led
    <3>2. ~Astray'
      BY <1>3, <1>6, <2>2, <2>5, <3>1 DEF Astray
    <3>3. TrialGuarded'
      BY <2>2 DEF TrialGuarded
    <3> QED BY <3>2, <3>3
  <2> QED BY <2>5, <2>6, <2>7, <2>8, <2>9, <2>10 DEF CInv
<1> QED BY <1>10, <1>11

LEMMA ServeCommits ==
    ASSUME Types, IInv, TInv, CInv, Serve
    PROVE  CInv'
PROOF
<1>1. ~tx.done /\ ServerStep /\ UNCHANGED <<client, bounds, told, cut>>
  BY DEF Serve
<1> QED BY <1>1, MildServes, AbortServes, TransferServes, CommitServes DEF ServerStep

-----------------------------------------------------------------------------
(* What the client hears *)

LEMMA SameServer ==
    ASSUME UNCHANGED server, link' = link
    PROVE  /\ Mild /\ New' = New /\ resume' = resume /\ dev' = dev
           /\ Done' = Done /\ (Loaded => Loaded')
PROOF
<1>1. /\ UNCHANGED <<resume, once, committed, store, fw>> /\ dev' = dev
  BY DEF server
<1>2. New' = New /\ Ops({"run"})' = Ops({"run"})
  BY <1>1 DEF New, Ops
<1>3. Mild
  BY <1>1, <1>2 DEF Mild
<1>4. Done' = Done
  BY <1>1, <1>2 DEF Done
<1>5. Loaded => Loaded'
  BY <1>1, <1>2 DEF Loaded, Used
<1> QED BY <1>1, <1>2, <1>3, <1>4, <1>5

(***************************************************************************)
(* A host on its way out writes its request to disconnect, or has.         *)
(***************************************************************************)
LEMMA PartedHears ==
    ASSUME Types, IInv, Confirming, ClientStep, UNCHANGED server, Parting
    PROVE  Parting'
PROOF
<1>1. cl.state \in Parted /\ dev' = dev
  BY DEF Parting, server
<1>2. link /\ (~Free(tx, "write_cfm") => wr.busy /\ up = None)
      /\ (~wr.busy => up = None /\ wr.pend = None) /\ None.t = "none"
  <2>1. link
    BY ClientWrites DEF Gets
  <2> QED BY <2>1, MessageFields DEF Confirming, IInv, Client
<1>3. ASSUME NEW t \in {"ABORT_REQ", "DISCONNECT_REQ"}
      PROVE  Yes.t # t /\ Req("DISCONNECT_REQ").t = "DISCONNECT_REQ"
  BY MessageFields
<1>4. Write(<<Yes>>) => (Out("ABORT_REQ")' => Out("ABORT_REQ"))
  <2> SUFFICES ASSUME Write(<<Yes>>) PROVE Out("ABORT_REQ")' => Out("ABORT_REQ")
    OBVIOUS
  <2>1. IF wr.busy THEN up' = up /\ wr' = [wr EXCEPT !.pend = Yes]
                   ELSE up' = Yes /\ wr' = [busy |-> TRUE, pend |-> None]
    BY WriteOne
  <2> QED BY <1>2, <1>3, <2>1 DEF Out, Types
<1>5. Write(<<Yes, Req("DISCONNECT_REQ")>>) =>
        (Out("ABORT_REQ")' => Out("ABORT_REQ")) /\ Out("DISCONNECT_REQ")'
  <2> SUFFICES ASSUME Write(<<Yes, Req("DISCONNECT_REQ")>>)
               PROVE  (Out("ABORT_REQ")' => Out("ABORT_REQ")) /\ Out("DISCONNECT_REQ")'
    OBVIOUS
  <2>1. IF wr.busy THEN up' = up /\ wr' = [wr EXCEPT !.pend = Req("DISCONNECT_REQ")]
                   ELSE up' = Yes /\ wr' = [busy |-> TRUE, pend |-> Req("DISCONNECT_REQ")]
    BY WriteTwo
  <2> QED BY <1>2, <1>3, <2>1 DEF Out, Types
<1>6. CASE WriteConfirmed
  <2>1. Gets("write_cfm") /\ cl' = cl
        /\ up' = wr.pend /\ wr' = [busy |-> wr.pend # None, pend |-> None]
    BY <1>6 DEF WriteConfirmed
  <2>2. ~Free(tx, "write_cfm")
    BY <2>1, TakenQueue
  <2>3. up = None
    BY <1>2, <2>2
  <2>4. \A k \in {"ABORT_REQ", "DISCONNECT_REQ"} : Out(k)' <=> Out(k)
    BY <1>2, <2>1, <2>3 DEF Out
  <2> QED BY <1>1, <2>1, <2>4 DEF Parting
<1>7. CASE UNCHANGED <<client, up>>
  <2>1. cl' = cl /\ wr' = wr /\ up' = up
    BY <1>7 DEF client
  <2> QED BY <1>1, <2>1 DEF Parting, Out
<1>8. CASE cl'.state = "IDLE" /\ (Write(<<Yes>>) \/ (up' = up /\ wr' = wr))
  <2>1. Out("ABORT_REQ")' => Out("ABORT_REQ")
    BY <1>4, <1>8 DEF Out
  <2> QED BY <1>1, <1>8, <2>1 DEF Parting, Parted, Away
<1>9. CASE cl'.state \in {cl.state, "ABORTING_DISCONNECT"}
           /\ Write(<<Yes, Req("DISCONNECT_REQ")>>)
  BY <1>1, <1>5, <1>9 DEF Parting, Parted, Away
<1>10. Reset(cl).state = "IDLE" /\ [Reset(cl) EXCEPT !.closing = TRUE].state = "IDLE"
  BY DEF Reset, Types, Relayer
<1>11. cl.state \notin {"CONNECT", "TRANSFER", "SYNC_REQ", "START_REQ",
            "START_REQ_AFTER_REBOOT", "DATA_REQ", "WAIT_VALIDATION",
            "WAIT_VALIDATION_RSP", "IN_PROGRESS_REQ", "COMMIT_REQ"}
  BY <1>1 DEF Parted, Away
<1>12. ConnectAck \/ ControlAck => UNCHANGED <<client, up>>
  BY <1>11 DEF ConnectAck, ControlAck
<1>13. DisconnectAck => cl'.state = "IDLE" /\ up' = up /\ wr' = wr
  BY <1>10 DEF DisconnectAck
<1>14. ErrorWarnInd => cl'.state = "IDLE" /\ Write(<<Yes>>)
  BY <1>10 DEF ErrorWarnInd
<1>15. SyncCfmGot \/ StartCfmGot \/ DataBytesReq \/ TransferComplete
            \/ CommitReq \/ CompleteInd \/ IsValidationDoneCfm => Reject
  BY <1>11 DEF SyncCfmGot, StartCfmGot, DataBytesReq, TransferComplete, CommitReq,
       CompleteInd, IsValidationDoneCfm
<1>16. Reject => cl'.state = cl.state /\ Write(<<Yes, Req("DISCONNECT_REQ")>>)
  BY DEF Reject, RejectAs
<1>17. AbortCfm => /\ cl'.state = "ABORTING_DISCONNECT"
                   /\ Write(<<Yes, Req("DISCONNECT_REQ")>>)
  BY DEF AbortCfm, Types, Relayer
<1> QED BY <1>6, <1>7, <1>8, <1>9, <1>12, <1>13, <1>14, <1>15, <1>16, <1>17 DEF ClientStep

LEMMA TakenAnswers ==
    ASSUME Types, IInv, OldAnswers, ~tx.done, NEW t, Gets(t), UNCHANGED server,
           cl'.state = "SYNC_REQ" => cl.state = "SYNC_REQ",
           cl'.state = "START_REQ" => cl.state \in {"SYNC_REQ", "START_REQ"}
    PROVE  OldAnswers'
PROOF
<1>1. /\ \A S : Within(tx, S) => Within(tx', S)
      /\ tx' \in Queue /\ link
  BY TakenQueue DEF Gets
<1>2. Fine' = Fine
  BY FineMessages DEF server
<1>3. cl.state = "SYNC_REQ" => Within(tx', Fine)
  <2>1. cl.state = "SYNC_REQ" => Rest(tx, Fine)
    BY <1>1 DEF OldAnswers, Rest
  <2> QED BY <2>1, TakenRest
<1>4. cl.state = "START_REQ" => Within(tx', Fine)
  BY <1>1 DEF OldAnswers
<1>5. cl'.state \in {"SYNC_REQ", "START_REQ"} => Within(tx', Fine)
  BY <1>3, <1>4
<1>6. Within(tx', Fine) => Rest(tx', Fine)
  BY <1>1, WithinRest
<1> QED BY <1>2, <1>5, <1>6 DEF OldAnswers, Rest, Within

LEMMA HeardMildly ==
    ASSUME Types, IInv, CInv, ~tx.done, UNCHANGED <<server, bounds, cut>>,
           told' = told \/ (told' = TRUE /\ Truth'), ClientStep, Calm, OldAnswers',
           link /\ Led /\ resume = "post" => Led'
    PROVE  CInv'
PROOF
<1>1. /\ Counted /\ Confirming /\ Within(tx, Honest) /\ OldAnswers
      /\ Trying /\ Running /\ Asked /\ Loaded /\ Truth /\ Guarding
  BY DEF CInv
<1>2. PICK t : Gets(t)
  BY ClientWrites
<1>3. /\ link' = link /\ faults' = faults /\ cut' = cut /\ UNCHANGED server
  BY <1>2 DEF Gets, bounds
<1>4. Mild /\ New' = New /\ dev' = dev /\ (Loaded => Loaded')
  BY <1>3, SameServer
<1>5. Tried' = Tried
  BY <1>3, <1>4 DEF Tried
<1>6. Trying' /\ Running' /\ Asked'
  BY <1>1, <1>4, <1>5, MildKeeps
<1>7. Counted' /\ Confirming'
  BY <1>1, <1>3, ConfirmingHeard DEF Counted
<1>8. Within(tx, Honest)'
  <2>1. Within(tx', Honest)
    BY <1>1, <1>2, TakenQueue
  <2>2. Honest \subseteq Honest'
    BY <1>3, <1>4, MildHonest
  <2>3. Within(tx', Honest')
    BY <2>1, <2>2, Widened
  <2> QED BY <2>3 DEF Within
<1>9. Truth'
  <2>1. Parting => Parting'
    BY <1>1, <1>3, PartedHears
  <2> QED BY <1>1, <1>3, <1>4, <2>1, MildTruth
<1>10. Guarding'
  BY <1>1, <1>3, <1>4, MildGuarding
<1> QED BY <1>1, <1>4, <1>6, <1>7, <1>8, <1>9, <1>10 DEF CInv

(***************************************************************************)
(* The host goes no further than it was, writes a packet of a transfer, or *)
(* turns away.                                                             *)
(***************************************************************************)
Lingers ==
    /\ cl'.start = cl.start
    /\ \/ cl'.state = cl.state
       \/ cl'.state \in Away
       \/ /\ Handing \/ Asking
          /\ cl'.state \in {"DATA_REQ", "TRANSFER", "WAIT_VALIDATION",
                            "WAIT_VALIDATION_RSP"}

LEMMA LingersCalm ==
    ASSUME Types, IInv, Trying, Asked, UNCHANGED server, NEW t, Gets(t), Lingers,
           NEW b \in Message,
           b.t \notin {"none", "COMMIT_CFM", "ABORT_REQ", "TRANSFER_COMPLETE_RES",
                       "START_DATA_REQ"},
           b.t = "DATA" => Handing \/ Asking,
           Wrote(b), told' = told, cut' = cut
    PROVE  Calm /\ (Led => Led')
PROOF
<1>1. /\ \A k : k \notin {"ACK", "none", b.t} =>
            /\ up'.t = k => up' \in {up, wr.pend}
            /\ wr'.pend.t = k => wr'.pend = wr.pend
            /\ Out(k)' => Out(k)
  BY WroteOuts
<1>2. link /\ link' = link /\ cl.start # "timer"
  BY Taking
<1>3. New' = New /\ resume' = resume /\ dev' = dev
  BY <1>2, SameServer
<1>4. Tried' = Tried
  BY <1>3 DEF Tried
<1>5. PreStart' => PreStart /\ cl'.state = cl.state
  BY <1>2 DEF Lingers, PreStart, Away
<1>6. Over => Over'
  BY <1>2 DEF Lingers, Over, PreStart, Handing, Asking, Away
<1>7. cl.state \in Away /\ ~PreStart => cl'.state \in Away
  BY DEF Lingers, Handing, Asking, Away
<1>8. Out("ABORT_REQ") => cl'.state \in Away
  <2>1. Out("ABORT_REQ") => cl.state \in Away /\ Over
    BY <1>2 DEF Asked, IInv, Client
  <2> QED BY <1>7, <2>1 DEF Over
<1>9. Calm
  <2>1. cl'.state = "START_REQ" => resume = "start"
    BY <1>2 DEF Lingers, Asked, Away
  <2>2. cl'.state \in Late => Tried'
    BY <1>2, <1>4 DEF Lingers, Asked, Late, Away
  <2>3. Out("COMMIT_CFM")' => Tried'
    BY <1>1, <1>2, <1>4 DEF Asked
  <2>4. Out("ABORT_REQ")' => cl'.state \in Away
    BY <1>1, <1>8
  <2>5. Out("TRANSFER_COMPLETE_RES")' => ~New
    BY <1>1 DEF Trying
  <2>6. cl'.state = "DISCONNECT" => told'
    BY <1>2 DEF Lingers, Asked, Away
  <2> QED BY <1>5, <1>7, <2>1, <2>2, <2>3, <2>4, <2>5, <2>6 DEF Calm
<1>10. ASSUME Led
       PROVE  Led'
  <2>1. ~Handing /\ ~Asking
    BY <1>10 DEF Led, GivenUp, Over, PreStart, Handing, Asking
  <2>2. (PreStart \/ GivenUp)'
    <3>1. CASE PreStart
      <4>1. \A k \in {"START_DATA_REQ", "DATA", "TRANSFER_COMPLETE_RES"} : ~Out(k)
        BY <3>1 DEF IInv, Client
      <4>2. \A k \in {"START_DATA_REQ", "DATA", "TRANSFER_COMPLETE_RES"} : ~Out(k)'
        BY <1>1, <2>1, <4>1
      <4>3. PreStart' \/ Over'
        BY <1>2, <2>1, <3>1 DEF Lingers, Over, PreStart, Handing, Asking, Away
      <4> QED BY <4>2, <4>3 DEF GivenUp
    <3>2. CASE GivenUp
      <4>1. \A k \in {"START_DATA_REQ", "DATA", "TRANSFER_COMPLETE_RES"} : ~Out(k)'
        BY <1>1, <2>1, <3>2 DEF GivenUp
      <4> QED BY <1>6, <3>2, <4>1 DEF GivenUp
    <3> QED BY <1>10, <3>1, <3>2 DEF Led
  <2>3. ~Out("ABORT_REQ")'
    BY <1>1, <1>10 DEF Led
  <2>4. \A m \in {up', wr'.pend} : m.t = "COMMIT_CFM" => m.v = 0
    BY <1>1, <1>10 DEF Led
  <2> QED BY <2>2, <2>3, <2>4 DEF Led
<1> QED BY <1>9, <1>10

LEMMA LingersKeeps ==
    ASSUME Types, IInv, CInv, Relay, Lingers, NEW b \in Message,
           b.t \notin {"none", "COMMIT_CFM", "ABORT_REQ", "TRANSFER_COMPLETE_RES",
                       "START_DATA_REQ"},
           b.t = "DATA" => Handing \/ Asking,
           Wrote(b)
    PROVE  CInv'
PROOF
<1>1. /\ ~tx.done /\ ClientStep /\ UNCHANGED <<server, bounds>> /\ UNCHANGED server
      /\ told' = CASE cl'.state = "DISCONNECT" -> TRUE
                   [] cl'.state = "DATA_REQ" /\ cl.state = "START_REQ" -> FALSE
                   [] OTHER -> told
      /\ cut' = (cut /\ ~(cl'.state = "DATA_REQ" /\ cl.state = "START_REQ"))
  BY DEF Relay
<1>2. Trying /\ Asked /\ OldAnswers /\ Counted
  BY DEF CInv
<1>3. PICK t : Gets(t)
  BY <1>1, ClientWrites
<1>4. link
  BY <1>3 DEF Gets
<1>5. ~(cl'.state = "DATA_REQ" /\ cl.state = "START_REQ")
  BY DEF Lingers, Handing, Asking, Away
<1>6. cl'.state = "DISCONNECT" => told
  BY <1>2, <1>4 DEF Lingers, Asked, Away
<1>7. told' = told /\ cut' = cut
  BY <1>1, <1>2, <1>5, <1>6 DEF Counted
<1>8. Calm /\ (Led => Led')
  BY <1>1, <1>2, <1>3, <1>7, LingersCalm
<1>9. OldAnswers'
  BY <1>1, <1>2, <1>3, TakenAnswers DEF Lingers, Away
<1> QED BY <1>1, <1>7, <1>8, <1>9, HeardMildly

LEMMA LingeringHears ==
    ASSUME Types, IInv, CInv, Relay,
           \/ WriteConfirmed \/ DisconnectAck \/ ControlAck \/ DataBytesReq
           \/ AbortCfm \/ ErrorWarnInd \/ IsValidationDoneCfm
           \/ ClientStep /\ UNCHANGED <<client, up>>
           \/ ClientStep /\ Reject
           \/ cl' = cl /\ Write(<<Yes>>)
    PROVE  CInv'
PROOF
<1>1. Yes \in Message /\ Yes.t = "ACK"
  BY Messages, MessageFields
<1>2. \A k \in {"DISCONNECT_REQ", "VALID_DONE_REQ"} : Req(k) \in Message /\ Req(k).t = k
  BY Messages, MessageFields DEF Kinds
<1>3. cl.off \in Nat /\ \A v \in Nat : Msg("DATA", v) \in Message /\ Msg("DATA", v).t = "DATA"
  <2>1. cl.off \in Nat
    BY DEF Types, Relayer
  <2> QED BY <2>1, Messages, MessageFields DEF Kinds
<1> DEFINE Plain(b) ==
        /\ b \in Message
        /\ b.t \notin {"none", "COMMIT_CFM", "ABORT_REQ", "TRANSFER_COMPLETE_RES",
                       "START_DATA_REQ"}
        /\ b.t = "DATA" => Handing \/ Asking
        /\ Wrote(b)
<1>4. SUFFICES Lingers /\ \E b : Plain(b)
  BY LingersKeeps
<1>5. /\ cl' = cl => Lingers
      /\ cl'.start = cl.start /\ cl'.state \in Away => Lingers
  BY DEF Lingers
<1>6. /\ up' = up /\ wr' = wr => Plain(Yes)
      /\ Write(<<Yes>>) => Plain(Yes)
      /\ Write(<<Req("VALID_DONE_REQ")>>) => Plain(Req("VALID_DONE_REQ"))
      /\ Write(<<Yes, Req("DISCONNECT_REQ")>>) => Plain(Req("DISCONNECT_REQ"))
  BY <1>1, <1>2 DEF Wrote
<1>7. \A v \in Nat : Write(<<Yes, Msg("DATA", v)>>) /\ (Handing \/ Asking) => Plain(Msg("DATA", v))
  BY <1>3 DEF Wrote
<1>8. up' = wr.pend /\ wr' = [busy |-> wr.pend # None, pend |-> None] => Plain(Yes)
  BY <1>1 DEF Wrote
<1> HIDE DEF Plain
<1>9. Reset(cl).start = cl.start /\ Reset(cl).state = "IDLE" /\ Reset(cl) \in Relayer
  BY ResetFields
<1>10. [Reset(cl) EXCEPT !.closing = TRUE].start = cl.start
       /\ [Reset(cl) EXCEPT !.closing = TRUE].state = "IDLE"
  BY <1>9 DEF Relayer
<1>11. CASE WriteConfirmed
  BY <1>5, <1>8, <1>11 DEF WriteConfirmed
<1>12. CASE DisconnectAck
  BY <1>5, <1>6, <1>10, <1>12 DEF DisconnectAck, Away
<1>13. CASE ErrorWarnInd
  BY <1>5, <1>6, <1>10, <1>13 DEF ErrorWarnInd, Away
<1>14. CASE AbortCfm
  <2>1. cl'.start = cl.start /\ cl'.state = "ABORTING_DISCONNECT"
    BY <1>14 DEF AbortCfm, Types, Relayer
  <2> QED BY <1>5, <1>6, <1>14, <2>1 DEF AbortCfm, Away
<1>15. ASSUME NEW c \in Relayer, NEW s \in {"DATA_REQ", "TRANSFER"}, SendData(c, s),
              c.start = cl.start, c.state = cl.state, Handing
       PROVE  Lingers /\ \E b : Plain(b)
  <2>1. CASE cl.off = Len(File)
    <3>1. cl' = [c EXCEPT !.left = @ - 1] /\ Write(<<Yes, Req("DISCONNECT_REQ")>>)
      BY <1>15, <2>1 DEF SendData, RejectAs
    <3>2. cl'.start = cl.start /\ cl'.state = cl.state
      BY <1>15, <3>1 DEF Relayer
    <3> QED BY <1>6, <3>1, <3>2 DEF Lingers
  <2>2. CASE cl.off # Len(File)
    <3>1. /\ cl' = [c EXCEPT !.left = @ - 1, !.off = @ + 1, !.state = s,
                             !.eof = cl.off + 1 = Len(File)]
          /\ Write(<<Yes, Msg("DATA", cl.off + 1)>>)
      BY <1>15, <2>2 DEF SendData
    <3>2. cl'.start = cl.start /\ cl'.state = s
      BY <1>15, <3>1 DEF Relayer
    <3>3. cl.off + 1 \in Nat
      BY <1>3
    <3> QED BY <1>7, <1>15, <3>1, <3>2, <3>3 DEF Lingers
  <2> QED BY <2>1, <2>2
<1>16. CASE ControlAck
  <2>1. CASE UNCHANGED <<client, up>>
    BY <1>5, <1>6, <2>1 DEF client
  <2>2. CASE /\ cl.state = "TRANSFER"
             /\ cl' = [cl EXCEPT !.state = "WAIT_VALIDATION_RSP"]
             /\ Write(<<Req("VALID_DONE_REQ")>>)
    <3>1. cl'.start = cl.start /\ cl'.state = "WAIT_VALIDATION_RSP"
      BY <2>2 DEF Types, Relayer
    <3> QED BY <1>6, <2>2, <3>1 DEF Lingers, Handing
  <2>3. CASE cl.state = "TRANSFER" /\ SendData(cl, "DATA_REQ")
    <3>1. cl \in Relayer
      BY DEF Types
    <3> QED BY <1>15, <2>3, <3>1 DEF Handing
  <2>4. CASE cl.state = "TRANSFER" /\ cl' = [cl EXCEPT !.state = "DATA_REQ"] /\ UNCHANGED <<wr, up>>
    <3>1. cl'.start = cl.start /\ cl'.state = "DATA_REQ"
      BY <2>4 DEF Types, Relayer
    <3> QED BY <1>6, <2>4, <3>1 DEF Lingers, Handing
  <2> QED BY <1>16, <2>1, <2>2, <2>3, <2>4 DEF ControlAck
<1>17. ASSUME Reject
       PROVE  Lingers /\ \E b : Plain(b)
  BY <1>5, <1>6, <1>17 DEF Reject, RejectAs
<1>18. CASE DataBytesReq
  <2>1. CASE cl.state = "DATA_REQ"
    <3> DEFINE n == Head(tx.q).v
               c == [cl EXCEPT !.left = n]
    <3>1. Gets("DATA_BYTES_REQ") /\ SendData(c, "TRANSFER")
      BY <1>18, <2>1 DEF DataBytesReq
    <3>2. n \in Int
      <4>1. Head(tx.q) \in Message
        BY <3>1, TakenQueue
      <4> QED BY <4>1 DEF Message
    <3>3. c \in Relayer /\ c.start = cl.start /\ c.state = cl.state
      BY <3>2 DEF Types, Relayer
    <3> HIDE DEF c
    <3> QED BY <1>15, <2>1, <3>1, <3>3 DEF Handing
  <2> QED BY <1>17, <1>18, <2>1 DEF DataBytesReq
<1>19. CASE IsValidationDoneCfm
  <2>1. CASE /\ cl.state = "WAIT_VALIDATION_RSP" /\ Write(<<Yes>>)
             /\ cl' = [cl EXCEPT !.state = "WAIT_VALIDATION"]
    <3>1. cl'.start = cl.start /\ cl'.state = "WAIT_VALIDATION"
      BY <2>1 DEF Types, Relayer
    <3> QED BY <1>6, <2>1, <3>1 DEF Lingers, Asking
  <2> QED BY <1>17, <1>19, <2>1 DEF IsValidationDoneCfm
<1>20. CASE UNCHANGED <<client, up>>
  BY <1>5, <1>6, <1>20 DEF client
<1>21. CASE cl' = cl /\ Write(<<Yes>>)
  BY <1>5, <1>6, <1>21
<1> QED BY <1>11, <1>12, <1>13, <1>14, <1>16, <1>17, <1>18, <1>19, <1>20, <1>21

(* A command that is sent is one of those there were, or the new one. *)
LEMMA WroteWhat ==
    ASSUME Types, NEW b \in Message, Wrote(b)
    PROVE  \A w \in {up', wr'.pend} : w \in {b, Yes, up, wr.pend, None}
PROOF
<1>1. CASE up' = up /\ wr' = wr
  BY <1>1
<1>2. CASE up' = wr.pend /\ wr' = [busy |-> wr.pend # None, pend |-> None]
  BY <1>2
<1>3. CASE Write(<<b>>)
  <2>1. IF wr.busy THEN up' = up /\ wr' = [wr EXCEPT !.pend = b]
                   ELSE up' = b /\ wr' = [busy |-> TRUE, pend |-> None]
    BY <1>3, WriteOne
  <2> QED BY <2>1 DEF Types
<1>4. CASE Write(<<Yes, b>>)
  <2>1. IF wr.busy THEN up' = up /\ wr' = [wr EXCEPT !.pend = b]
                   ELSE up' = Yes /\ wr' = [busy |-> TRUE, pend |-> b]
    BY <1>4, WriteTwo
  <2> QED BY <2>1 DEF Types
<1> QED BY <1>1, <1>2, <1>3, <1>4 DEF Wrote

(***************************************************************************)
(* The host goes on to the next command, not yet to a transfer.            *)
(***************************************************************************)
LEMMA AdvancesCalm ==
    ASSUME Types, IInv, Trying, Asked, UNCHANGED server, NEW t, Gets(t),
           NEW m \in Message,
           m.t \notin {"none", "ACK", "ABORT_REQ", "START_DATA_REQ", "DATA"}, Wrote(m),
           cut' = cut, cl.state \notin Away, cl'.state \notin Away,
           PreStart' => PreStart, PreStart' \/ Over',
           cl'.state = "START_REQ" => resume = "start",
           cl'.state \in Late => Tried,
           m.t = "COMMIT_CFM" => Tried /\ m.v = 0,
           m.t = "TRANSFER_COMPLETE_RES" => ~New /\ (Handing \/ Asking),
           cl'.state = "DISCONNECT" => told'
    PROVE  Calm /\ (Led => Led')
PROOF
<1>1. /\ \A k : k \notin {"ACK", "none", m.t} =>
            /\ up'.t = k => up' \in {up, wr.pend}
            /\ wr'.pend.t = k => wr'.pend = wr.pend
            /\ Out(k)' => Out(k)
  BY WroteOuts
<1>2. link /\ link' = link
  BY Taking
<1>3. New' = New /\ resume' = resume /\ dev' = dev
  BY <1>2, SameServer
<1>4. Tried' = Tried
  BY <1>3 DEF Tried
<1>5. ~Out("ABORT_REQ")
  BY <1>2 DEF Asked
<1>6. ~Out("ABORT_REQ")'
  BY <1>1, <1>5
<1>7. Calm
  <2>1. Out("COMMIT_CFM")' => Tried'
    BY <1>1, <1>2, <1>4 DEF Asked
  <2>2. Out("TRANSFER_COMPLETE_RES")' => ~New
    BY <1>1 DEF Trying
  <2> QED BY <1>4, <1>6, <2>1, <2>2 DEF Calm
<1>8. ASSUME Led
      PROVE  Led'
  <2>1. m.t # "TRANSFER_COMPLETE_RES"
    BY <1>8 DEF Led, GivenUp, Over, PreStart, Handing, Asking
  <2>2. \A k \in {"START_DATA_REQ", "DATA", "TRANSFER_COMPLETE_RES"} : ~Out(k)
    BY <1>8 DEF Led, GivenUp, IInv, Client
  <2>3. \A k \in {"START_DATA_REQ", "DATA", "TRANSFER_COMPLETE_RES"} : ~Out(k)'
    BY <1>1, <2>1, <2>2
  <2>4. (PreStart \/ GivenUp)'
    BY <2>3 DEF GivenUp
  <2>5. \A w \in {up', wr'.pend} : w.t = "COMMIT_CFM" => w.v = 0
    <3>1. CASE m.t # "COMMIT_CFM"
      BY <1>1, <1>8, <3>1 DEF Led
    <3>2. CASE m.t = "COMMIT_CFM"
      <4>1. \A w \in {up', wr'.pend} : w \in {m, Yes, up, wr.pend, None}
        BY WroteWhat
      <4> QED BY <1>8, <3>2, <4>1, MessageFields DEF Led
    <3> QED BY <3>1, <3>2
  <2> QED BY <1>6, <2>4, <2>5 DEF Led
<1> QED BY <1>7, <1>8

LEMMA AdvancesKeep ==
    ASSUME Types, IInv, CInv, Relay, NEW m \in Message,
           m.t \notin {"none", "ACK", "ABORT_REQ", "START_DATA_REQ", "DATA"}, Wrote(m),
           cl.state \notin Away, cl'.state \notin Away \cup {"DATA_REQ"},
           PreStart' => PreStart, PreStart' \/ Over',
           cl'.state = "START_REQ" => resume = "start",
           cl'.state \in Late => Tried,
           m.t = "COMMIT_CFM" => Tried /\ m.v = 0,
           m.t = "TRANSFER_COMPLETE_RES" => ~New /\ (Handing \/ Asking),
           cl'.state = "DISCONNECT" => told' /\ Truth',
           OldAnswers'
    PROVE  CInv'
PROOF
<1>1. /\ ~tx.done /\ ClientStep /\ UNCHANGED <<server, bounds>> /\ UNCHANGED server
      /\ told' = CASE cl'.state = "DISCONNECT" -> TRUE
                   [] cl'.state = "DATA_REQ" /\ cl.state = "START_REQ" -> FALSE
                   [] OTHER -> told
      /\ cut' = (cut /\ ~(cl'.state = "DATA_REQ" /\ cl.state = "START_REQ"))
  BY DEF Relay
<1>2. Trying /\ Asked /\ Counted
  BY DEF CInv
<1>3. PICK t : Gets(t)
  BY <1>1, ClientWrites
<1>4. cut' = cut /\ (told' = told \/ (told' = TRUE /\ Truth'))
  BY <1>1, <1>2 DEF Counted
<1>5. Calm /\ (Led => Led')
  BY <1>1, <1>2, <1>3, <1>4, AdvancesCalm
<1> QED BY <1>1, <1>4, <1>5, HeardMildly

(* Connected: the host asks where the upgrade stands. *)
LEMMA ConnectedHears ==
    ASSUME Types, IInv, TInv, CInv, Relay, cl.state = "CONNECT", ConnectAck
    PROVE  CInv'
PROOF
<1> DEFINE b == Req("SYNC_REQ")
<1>1. /\ Gets("conn_ack") /\ Wrote(b) /\ cl'.state = "SYNC_REQ"
      /\ b \in Message /\ b.t = "SYNC_REQ"
  BY Messages, MessageFields DEF ConnectAck, Types, Relayer, Wrote, Kinds
<1>2. /\ link /\ link' = link /\ tx'.q = Tail(tx.q) /\ tx'.held = tx.held
      /\ Len(tx.q) \in Nat \ {0} /\ Len(tx'.q) = Len(tx.q) - 1
      /\ tx.q[1].t = "conn_ack" /\ tx'.used = tx.used - 1
      /\ tx.held # None => tx'.done
  BY <1>1, Taking
<1>3. /\ dev.state # "WAIT_FOR_DEVICE" /\ tx.q = <<Msg("conn_ack", 0)>> /\ tx.used = 1
  BY <1>2, MessageFields DEF IInv, Opening
<1>4. tx'.q = <<>> /\ tx'.used = 0 /\ Len(tx'.q) = 0
  BY <1>2, <1>3
<1>5. OldAnswers'
  <2>1. UNCHANGED server /\ dev' = dev
    BY DEF Relay, server
  <2>2. Fine' = Fine /\ None \in Fine
    BY <2>1, FineMessages DEF server
  <2>3. tx'.held \notin Fine' => tx'.done
    BY <1>2, <2>2
  <2>4. \A i \in 2 .. Len(tx'.q) : tx'.q[i] \in Fine'
    BY <1>4
  <2> QED BY <1>1, <1>3, <1>4, <2>1, <2>3, <2>4 DEF OldAnswers
<1>6. PreStart /\ PreStart' /\ cl'.state \notin Late \cup Away \cup {"DATA_REQ"}
  BY <1>1 DEF PreStart, Late, Away
<1> HIDE DEF b
<1> QED BY <1>1, <1>5, <1>6, AdvancesKeep DEF Away

(* The answer tells the host whether a trial runs. *)
LEMMA SyncedHears ==
    ASSUME Types, IInv, TInv, CInv, Relay, cl.state = "SYNC_REQ", SyncCfmGot
    PROVE  CInv'
PROOF
<1> DEFINE b == Req("START_REQ")
<1>1. /\ Gets("SYNC_CFM") /\ Wrote(b) /\ b \in Message /\ b.t = "START_REQ"
      /\ cl'.state = IF Head(tx.q).v = 3 THEN "START_REQ_AFTER_REBOOT" ELSE "START_REQ"
  <2>1. cl' = [cl EXCEPT !.off = 0,
                         !.state = IF Head(tx.q).v = 3
                                   THEN "START_REQ_AFTER_REBOOT"
                                   ELSE "START_REQ"]
    BY DEF SyncCfmGot
  <2>2. cl'.state = IF Head(tx.q).v = 3 THEN "START_REQ_AFTER_REBOOT" ELSE "START_REQ"
    BY <2>1 DEF Types, Relayer
  <2> QED BY <2>2, Messages, MessageFields DEF SyncCfmGot, Wrote, Kinds
<1>2. Head(tx.q) \in Honest /\ Head(tx.q).t = "SYNC_CFM"
  BY <1>1, TakenQueue DEF CInv
<1>3. PreStart /\ link
  BY <1>1 DEF PreStart, Gets
<1>4. ~dev.reset /\ once = 0
  BY <1>3 DEF CInv, Trying, IInv, Flash
<1>5. IF Head(tx.q).v = 3 THEN Tried ELSE resume = "start"
  BY <1>2, <1>4 DEF Honest
<1>6. OldAnswers'
  BY <1>1, TakenAnswers DEF CInv, Relay
<1>7. PreStart' \/ Over'
  BY <1>1 DEF PreStart, Over, Handing, Asking
<1>8. /\ cl.state \notin Away /\ cl'.state \notin Away \cup {"DATA_REQ", "DISCONNECT"}
      /\ cl'.state = "START_REQ" => resume = "start"
      /\ cl'.state \in Late => Tried
  BY <1>1, <1>5 DEF Away, Late
<1> HIDE DEF b
<1> QED BY <1>1, <1>3, <1>6, <1>7, <1>8, AdvancesKeep

(***************************************************************************)
(* The commands that follow: a trial is gone on with, an image confirmed,  *)
(* a commit asked for, and its completion believed.                        *)
(***************************************************************************)
LEMMA ResumedHears ==
    ASSUME Types, IInv, TInv, CInv, Relay,
           \/ /\ cl.state = "START_REQ_AFTER_REBOOT" /\ StartCfmGot /\ Head(tx.q).v = 0
           \/ /\ Handing \/ Asking
              /\ cl.state # "DATA_REQ" /\ TransferComplete
           \/ cl.state = "IN_PROGRESS_REQ" /\ CommitReq
           \/ cl.state = "COMMIT_REQ" /\ CompleteInd
    PROVE  CInv'
PROOF
<1>1. /\ ClientStep /\ UNCHANGED server
      /\ Trying /\ Running /\ Asked /\ OldAnswers /\ ~tx.done
  BY DEF CInv, Relay
<1>2. PICK t : Gets(t)
  BY <1>1, ClientWrites
<1>3. link /\ link' = link
  BY <1>2 DEF Gets
<1> DEFINE Reached(s, k) ==
        /\ cl'.state = s /\ Write(<<Yes, Req(k)>>)
<1>4. ASSUME NEW s \in {"IN_PROGRESS_REQ", "WAIT_POST_TRANSFER_DISCONNECT",
                        "COMMIT_REQ", "DISCONNECT"},
             NEW k \in {"IN_PROGRESS_RES", "TRANSFER_COMPLETE_RES", "COMMIT_CFM",
                        "DISCONNECT_REQ"},
             Reached(s, k), cl.state \notin Away,
             s \in Late => Tried, k = "COMMIT_CFM" => Tried,
             k = "TRANSFER_COMPLETE_RES" => ~New /\ (Handing \/ Asking),
             s = "DISCONNECT" => told' /\ Truth'
      PROVE  CInv'
  <2> DEFINE b == Req(k)
  <2>1. b \in Message /\ b.t = k /\ b.v = 0 /\ Wrote(b)
    BY <1>4, Messages, MessageFields DEF Wrote, Kinds
  <2>2. ~PreStart' /\ Over'
    BY <1>4 DEF PreStart, Over, Handing, Asking
  <2>3. OldAnswers'
    BY <1>1, <1>2, <1>4, TakenAnswers
  <2> HIDE DEF b
  <2> QED BY <1>4, <2>1, <2>2, <2>3, AdvancesKeep DEF Away
<1>5. CASE cl.state = "START_REQ_AFTER_REBOOT" /\ StartCfmGot /\ Head(tx.q).v = 0
  <2>1. Reached("IN_PROGRESS_REQ", "IN_PROGRESS_RES")
    BY <1>5 DEF StartCfmGot, Types, Relayer
  <2>2. Tried
    BY <1>1, <1>3, <1>5 DEF Asked, Late
  <2> QED BY <1>4, <1>5, <2>1, <2>2 DEF Away
<1>6. CASE (Handing \/ Asking) /\ cl.state # "DATA_REQ" /\ TransferComplete
  <2>1. Reached("WAIT_POST_TRANSFER_DISCONNECT", "TRANSFER_COMPLETE_RES")
        /\ Gets("COMPLETE")
    BY <1>6 DEF TransferComplete, Types, Relayer, Handing, Asking
  <2>2. Head(tx.q) \in Honest /\ Head(tx.q).t = "COMPLETE"
    BY <2>1, TakenQueue DEF CInv
  <2>3. ~New /\ cl.state \notin Away
    BY <1>6, <2>2 DEF Honest, Handing, Asking, Away
  <2> QED BY <1>4, <1>6, <2>1, <2>3 DEF Late
<1>7. CASE cl.state = "IN_PROGRESS_REQ" /\ CommitReq
  <2>1. Reached("COMMIT_REQ", "COMMIT_CFM")
    BY <1>7 DEF CommitReq, Types, Relayer
  <2>2. Tried
    BY <1>1, <1>3, <1>7 DEF Asked, Late
  <2> QED BY <1>4, <1>7, <2>1, <2>2 DEF Away
<1>8. CASE cl.state = "COMMIT_REQ" /\ CompleteInd
  <2>1. Reached("DISCONNECT", "DISCONNECT_REQ") /\ Gets("COMPLETE_IND")
    BY <1>8 DEF CompleteInd, Types, Relayer
  <2>2. Head(tx.q) \in Honest /\ Head(tx.q).t = "COMPLETE_IND"
    BY <2>1, TakenQueue DEF CInv
  <2>3. told' /\ cut' = cut
    BY <2>1 DEF Relay, CInv, Counted
  <2>4. Req("DISCONNECT_REQ") \in Message /\ Req("DISCONNECT_REQ").t = "DISCONNECT_REQ"
    BY Messages, MessageFields DEF Kinds
  <2>5. wr'.pend = Req("DISCONNECT_REQ") /\ (Out("ABORT_REQ")' => Out("ABORT_REQ"))
    <3>1. wr'.pend = Req("DISCONNECT_REQ")
      BY <2>1, <2>4, SpecialWrite
    <3>2. Wrote(Req("DISCONNECT_REQ"))
      BY <2>1 DEF Wrote
    <3> QED BY <2>4, <3>1, <3>2, WroteOuts
  <2>6. Parting'
    <3>1. ~Out("ABORT_REQ")
      BY <1>1, <1>3, <1>8 DEF Asked, Away
    <3> QED BY <2>1, <2>4, <2>5, <3>1 DEF Parting, Parted, Out
  <2>7. Truth'
    <3>1. Done' = Done /\ dev' = dev /\ Ops({"run"})' = Ops({"run"})
          /\ store'[committed'] = store[committed]
      BY <1>1, <1>3, SameServer DEF server, flash, Ops
    <3>2. Done \/ cut
      BY <2>2 DEF Honest
    <3>3. Ops({"run"}) => ~dev.reset
      BY <1>1, <1>8 DEF Running, Away
    <3> QED BY <2>3, <2>6, <3>1, <3>2, <3>3 DEF Truth, Done
  <2> QED BY <1>4, <1>8, <2>1, <2>3, <2>7 DEF Late, Away
<1> QED BY <1>5, <1>6, <1>7, <1>8

(***************************************************************************)
(* A transfer begins: what the host was told, and the accidents of the     *)
(* server, belong to the upgrade before.                                   *)
(***************************************************************************)
LEMMA TransferHears ==
    ASSUME Types, IInv, TInv, CInv, Relay, cl.state = "START_REQ", StartCfmGot,
           Head(tx.q).v = 0
    PROVE  CInv'
PROOF
<1> DEFINE b == Req("START_DATA_REQ")
<1>1. /\ Counted /\ Confirming /\ Within(tx, Honest) /\ OldAnswers
      /\ Trying /\ Running /\ Asked /\ Loaded /\ Truth /\ Guarding
  BY DEF CInv
<1>2. /\ Gets("START_CFM") /\ Wrote(b) /\ b \in Message /\ b.t = "START_DATA_REQ"
      /\ cl'.state = "DATA_REQ"
  BY Messages, MessageFields DEF StartCfmGot, Types, Relayer, Wrote, Kinds
<1>3. /\ ~tx.done /\ ClientStep /\ UNCHANGED server /\ faults' = faults
      /\ told' = FALSE /\ cut' = FALSE /\ link /\ link' = link
  BY <1>1, <1>2 DEF Relay, bounds, Gets, Counted
<1>4. /\ Mild /\ New' = New /\ resume' = resume /\ dev' = dev /\ fw' = fw
      /\ once' = once /\ (Loaded => Loaded')
  BY <1>3, SameServer DEF server, flash
<1>5. /\ PreStart /\ resume = "start" /\ once = 0 /\ ~dev.reset /\ fw = <<>>
  <2>1. PreStart
    BY DEF PreStart
  <2> QED BY <1>1, <1>3, <2>1, QuietStart DEF Asked, Trying
<1>6. ~Out("ABORT_REQ") /\ ~Out("COMMIT_CFM")
  BY <1>5 DEF IInv, Client, PreCommit
<1>7. \A k \in {"ABORT_REQ", "COMMIT_CFM", "TRANSFER_COMPLETE_RES"} : Out(k)' => Out(k)
  BY <1>2, WroteOuts
<1> HIDE DEF b
<1>8. Counted' /\ Confirming'
  BY <1>1, <1>3, ConfirmingHeard DEF Counted
<1>9. Within(tx, Honest)'
  <2>1. Within(tx', Fine) /\ Within(tx', Honest)
    BY <1>1, <1>2, <1>3, TakenQueue DEF OldAnswers
  <2>2. SyncCfm.v = 0
    BY <1>5 DEF SyncCfm, Msg
  <2>3. ASSUME NEW m \in Fine, m \in Honest
        PROVE  m \in Honest'
    BY <1>4, <1>5, <2>2, <2>3 DEF Fine, Honest
  <2> QED BY <2>1, <2>3 DEF Within
<1>10. OldAnswers' /\ Asked'
  BY <1>2, <1>6, <1>7 DEF OldAnswers, Asked, Late
<1>11. Trying'
  BY <1>1, <1>3, <1>4, <1>5, <1>7 DEF Trying
<1>12. Running' /\ Truth'
  BY <1>3, <1>4, <1>5 DEF Running, Ops, Truth
<1>13. Guarding'
  BY <1>1, <1>3, <1>4, <1>5, MildGuarding
<1> QED BY <1>1, <1>4, <1>8, <1>9, <1>10, <1>11, <1>12, <1>13 DEF CInv

LEMMA RelayCommits ==
    ASSUME Types, IInv, TInv, CInv, Relay
    PROVE  CInv'
PROOF
<1>1. ClientStep
  BY DEF Relay
<1>2. CASE WriteConfirmed \/ DisconnectAck \/ ControlAck \/ DataBytesReq
           \/ AbortCfm \/ ErrorWarnInd \/ IsValidationDoneCfm
  BY <1>2, LingeringHears
<1>3. CASE ConnectAck
  <2>1. CASE cl.state = "CONNECT"
    BY <1>3, <2>1, ConnectedHears
  <2>2. CASE cl.state # "CONNECT"
    <3>1. UNCHANGED <<client, up>>
      BY <1>3, <2>2 DEF ConnectAck
    <3> QED BY <1>1, <3>1, LingeringHears
  <2> QED BY <2>1, <2>2
<1>4. CASE SyncCfmGot
  <2>1. CASE cl.state = "SYNC_REQ"
    BY <1>4, <2>1, SyncedHears
  <2>2. CASE cl.state # "SYNC_REQ"
    <3>1. Reject
      BY <1>4, <2>2 DEF SyncCfmGot
    <3> QED BY <1>1, <3>1, LingeringHears
  <2> QED BY <2>1, <2>2
<1>5. CASE StartCfmGot
  <2>1. CASE cl.state \notin {"START_REQ", "START_REQ_AFTER_REBOOT"}
    <3>1. Reject
      BY <1>5, <2>1 DEF StartCfmGot
    <3> QED BY <1>1, <3>1, LingeringHears
  <2>2. CASE cl.state \in {"START_REQ", "START_REQ_AFTER_REBOOT"} /\ Head(tx.q).v # 0
    <3>1. cl' = cl /\ Write(<<Yes>>)
      BY <1>5, <2>2 DEF StartCfmGot
    <3> QED BY <3>1, LingeringHears
  <2>3. CASE cl.state = "START_REQ" /\ Head(tx.q).v = 0
    BY <1>5, <2>3, TransferHears
  <2>4. CASE cl.state = "START_REQ_AFTER_REBOOT" /\ Head(tx.q).v = 0
    BY <1>5, <2>4, ResumedHears
  <2> QED BY <2>1, <2>2, <2>3, <2>4
<1>6. CASE TransferComplete
  <2>1. CASE cl.state \in {"TRANSFER", "WAIT_VALIDATION", "WAIT_VALIDATION_RSP"}
    <3>1. (Handing \/ Asking) /\ cl.state # "DATA_REQ"
      BY <2>1 DEF Handing, Asking
    <3> QED BY <1>6, <3>1, ResumedHears
  <2>2. CASE cl.state \notin {"TRANSFER", "WAIT_VALIDATION", "WAIT_VALIDATION_RSP"}
    <3>1. Reject
      BY <1>6, <2>2 DEF TransferComplete
    <3> QED BY <1>1, <3>1, LingeringHears
  <2> QED BY <2>1, <2>2
<1>7. CASE CommitReq
  <2>1. cl.state = "IN_PROGRESS_REQ" \/ Reject
    BY <1>7 DEF CommitReq
  <2> QED BY <1>1, <1>7, <2>1, ResumedHears, LingeringHears
<1>8. CASE CompleteInd
  <2>1. cl.state = "COMMIT_REQ" \/ Reject
    BY <1>8 DEF CompleteInd
  <2> QED BY <1>1, <1>8, <2>1, ResumedHears, LingeringHears
<1> QED BY <1>1, <1>2, <1>3, <1>4, <1>5, <1>6, <1>7, <1>8 DEF ClientStep

-----------------------------------------------------------------------------
(* Timers and the user *)

LEMMA ClientMildly ==
    ASSUME Types, CInv, UNCHANGED <<link, tx, server, told, cut>>, Calm,
           Confirming', OldAnswers',
           link /\ Ops({"run"}) /\ Parting => Parting',
           \/ faults' = faults /\ (link /\ Led /\ resume = "post" => Led')
           \/ faults' = faults + 1
    PROVE  CInv'
PROOF
<1>1. /\ Counted /\ Confirming /\ Within(tx, Honest) /\ OldAnswers
      /\ Trying /\ Running /\ Asked /\ Loaded /\ Truth /\ Guarding
  BY DEF CInv
<1>2. Mild /\ New' = New /\ dev' = dev /\ (Loaded => Loaded')
  BY SameServer
<1>3. Tried' = Tried
  BY <1>2 DEF Tried
<1>4. Trying' /\ Running' /\ Asked'
  BY <1>1, <1>2, <1>3, MildKeeps
<1>5. Counted'
  BY <1>1 DEF Counted
<1>6. Within(tx, Honest)'
  <2>1. Honest \subseteq Honest'
    BY <1>2, MildHonest
  <2>2. Within(tx, Honest')
    BY <1>1, <2>1, Widened
  <2> QED BY <2>2 DEF Within
<1>7. Truth'
  BY <1>1, <1>2, MildTruth
<1>8. Guarding'
  BY <1>1, <1>2, MildGuarding
<1> QED BY <1>1, <1>2, <1>4, <1>5, <1>6, <1>7, <1>8 DEF CInv

LEMMA BeginCommits ==
    ASSUME Types, IInv, TInv, CInv, Begin
    PROVE  CInv'
PROOF
<1> DEFINE b == Req("CONNECT")
<1>1. /\ link /\ cl.start = "timer" /\ cl'.state = "CONNECT" /\ Write(<<b>>)
      /\ UNCHANGED <<link, tx, server, told, cut>> /\ faults' = faults
      /\ Confirming
  BY DEF Begin, StartUpgrade, bounds, Types, Relayer, CInv
<1>2. cl.state = "IDLE" /\ up = None /\ ~wr.busy /\ tx.q = <<>>
  BY <1>1 DEF IInv, Client, Opening
<1>3. b \in Message /\ b.t = "CONNECT" /\ None.t = "none"
  BY Messages, MessageFields DEF Kinds
<1>4. up' = b /\ wr' = [busy |-> TRUE, pend |-> None]
  BY <1>1, <1>2, WriteOne
<1>5. PreStart /\ PreStart' /\ cl'.state \notin Late \cup Away
  BY <1>1, <1>2 DEF PreStart, Late, Away
<1>6. \A k \in {"ABORT_REQ", "COMMIT_CFM", "TRANSFER_COMPLETE_RES"} : ~Out(k)'
  BY <1>3, <1>4 DEF Out
<1>7. Calm
  BY <1>1, <1>5, <1>6 DEF Calm
<1>8. Confirming'
  <2>1. Free(tx, "write_cfm")
    BY <1>1, <1>2 DEF Confirming, Free, Within, Types, Queue
  <2> QED BY <1>1, <2>1, FreeHeard DEF Confirming, Free, Within, Once
<1>9. OldAnswers'
  BY <1>1 DEF OldAnswers
<1>10. ~Ops({"run"})
  <2>1. fw = <<>>
    BY <1>1, <1>5, QuietStart
  <2> QED BY <2>1 DEF Ops
<1>11. Led'
  BY <1>3, <1>4, <1>5, <1>6 DEF Led
<1> QED BY <1>1, <1>7, <1>8, <1>9, <1>10, <1>11, ClientMildly

(* An abort comes before any other command, and of a host that is not done. *)
LEMMA UserCommits ==
    ASSUME Types, IInv, TInv, CInv, UserAborts \/ UserDeclines
    PROVE  CInv'
PROOF
<1>1. /\ UNCHANGED <<link, tx, server, told, cut>> /\ faults' = faults + 1
      /\ Confirming /\ OldAnswers /\ Asked /\ Trying
  BY DEF UserAborts, UserDeclines, Fault, CInv
<1>2. New' = New /\ resume' = resume /\ dev' = dev
  BY <1>1, SameServer
<1>3. Tried' = Tried /\ Fine' = Fine
  BY <1>1, <1>2, FineMessages DEF Tried
<1>4. CASE UserAborts
  <2> DEFINE b == Req("ABORT_REQ")
  <2>1. /\ link /\ ~wr.busy /\ cl.state # "IDLE" /\ Write(<<b>>)
        /\ cl'.state = "ABORTING_DISCONNECT"
    BY <1>4 DEF UserAborts, Types, Relayer
  <2>2. up = None /\ wr.pend = None
    BY <2>1 DEF IInv, Client
  <2>3. b.t = "ABORT_REQ" /\ None.t = "none"
    BY MessageFields
  <2>4. up' = b /\ wr' = [busy |-> TRUE, pend |-> None]
    BY <2>1, WriteOne
  <2>5. ~PreStart' /\ cl'.state \notin Late /\ cl'.state \in Away
    BY <2>1 DEF PreStart, Late, Away
  <2>6. \A k \in {"COMMIT_CFM", "TRANSFER_COMPLETE_RES"} : ~Out(k)'
    BY <2>3, <2>4 DEF Out
  <2>7. Calm
    BY <2>1, <2>5, <2>6 DEF Calm
  <2>8. Confirming'
    BY <1>1, <2>1 DEF Confirming, Free, Within, Once
  <2>9. OldAnswers'
    BY <2>1 DEF OldAnswers
  <2>10. Parting => Parting'
    <3>1. ~Out("DISCONNECT_REQ")
      BY <2>2, <2>3 DEF Out
    <3> QED BY <1>2, <2>1, <3>1 DEF Parting, Parted, Away
  <2> QED BY <1>1, <2>7, <2>8, <2>9, <2>10, ClientMildly
<1>5. CASE UserDeclines
  <2>1. /\ up = Req("COMMIT_CFM") /\ up' = Msg("COMMIT_CFM", 1) /\ cl' = cl /\ wr' = wr
    BY <1>5 DEF UserDeclines, client
  <2>2. up.t = "COMMIT_CFM" /\ up'.t = "COMMIT_CFM" /\ up # None
    BY <2>1, MessageFields
  <2>3. \A k : Out(k)' <=> Out(k)
    BY <2>1, <2>2 DEF Out
  <2>4. link
    BY <2>2 DEF IInv, Apart
  <2>5. Calm
    BY <1>1, <1>2, <1>3, <2>1, <2>3, <2>4 DEF Calm, Asked, Trying, PreStart
  <2>6. Confirming'
    BY <1>1, <2>1, <2>2 DEF Confirming, Free, Within, Once
  <2>7. OldAnswers'
    BY <1>1, <1>2, <1>3, <2>1 DEF OldAnswers, Within
  <2>8. Parting => Parting'
    BY <1>2, <2>1, <2>3 DEF Parting
  <2> QED BY <1>1, <2>5, <2>6, <2>7, <2>8, ClientMildly
<1> QED BY <1>4, <1>5

-----------------------------------------------------------------------------
(* What the server does unasked *)

LEMMA NoticedMildly ==
    ASSUME Types, IInv, CInv, UNCHANGED <<link, up, client, told, cut>>,
           Mild, Loaded', Confirming', OldAnswers', Within(tx, Honest)',
           faults' \in {faults, faults + 1}
    PROVE  CInv'
PROOF
<1>1. /\ Counted /\ Trying /\ Running /\ Asked /\ Loaded /\ Truth /\ Guarding
  BY DEF CInv
<1>2. /\ cl' = cl /\ wr' = wr /\ up' = up /\ New' = New /\ resume' = resume
      /\ dev.closing => dev'.closing
  BY DEF client, Mild
<1>3. Tried' = Tried /\ (\A k : Out(k)' <=> Out(k)) /\ PreStart' = PreStart
      /\ GivenUp' = GivenUp
  BY <1>2 DEF Tried, Out, PreStart, GivenUp, Over, Handing, Asking
<1>4. Calm
  <2>1. CASE link
    BY <1>1, <1>2, <1>3, <2>1 DEF Calm, Asked, Trying
  <2>2. CASE ~link
    <3>1. /\ up = None /\ ~wr.busy
          /\ cl.state \in {"IDLE", "WAIT_POST_TRANSFER_RECONNECTION"}
      BY <2>2 DEF IInv, Apart
    <3>2. up.t = "none" /\ wr.pend.t = "none"
      BY <3>1, MessageFields DEF IInv, Client
    <3>3. \A k : k # "none" => ~Out(k)
      BY <3>2 DEF Out
    <3> QED BY <1>2, <1>3, <3>1, <3>3 DEF Calm, Late
  <2> QED BY <2>1, <2>2
<1>5. Trying' /\ Running' /\ Asked'
  BY <1>1, <1>3, <1>4, MildKeeps
<1>6. Parting => Parting'
  BY <1>2, <1>3 DEF Parting
<1>7. Led => Led'
  BY <1>2, <1>3 DEF Led
<1>8. Truth' /\ Guarding' /\ Counted'
  BY <1>1, <1>6, <1>7, MildTruth, MildGuarding DEF Counted
<1> QED BY <1>5, <1>8 DEF CInv

LEMMA NoticedNotes ==
    ASSUME Types, IInv, CInv, Mild, UNCHANGED <<client, cut>>,
           dev'.state = "WAIT_FOR_DEVICE" => dev.state = "WAIT_FOR_DEVICE",
           \/ tx' = tx
           \/ \E m \in {SyncCfm, ErrorInd, BytesReq(1)} :
                /\ tx' = Notify(tx, m)
                /\ link /\ PreStart => dev.state = "WAIT_FOR_DEVICE"
    PROVE  OldAnswers' /\ Within(tx, Honest)'
PROOF
<1>1. /\ OldAnswers /\ Within(tx, Honest) /\ Trying
      /\ link' = link /\ resume' = resume /\ cl' = cl
  BY DEF CInv, Mild, client
<1>2. Honest \subseteq Honest' /\ Fine' = Fine
  BY <1>1, MildHonest, FineMessages
<1>3. CASE tx' = tx
  <2>1. OldAnswers'
    BY <1>1, <1>2, <1>3 DEF OldAnswers, Within
  <2>2. Within(tx', Honest')
    BY <1>1, <1>2, <1>3, Widened
  <2> QED BY <2>1, <2>2 DEF Within
<1>4. ASSUME NEW m \in {SyncCfm, ErrorInd, BytesReq(1)}, tx' = Notify(tx, m),
             link /\ PreStart => dev.state = "WAIT_FOR_DEVICE"
      PROVE  OldAnswers' /\ Within(tx, Honest)'
  <2>1. tx \in Queue /\ m \in Message /\ SyncCfm \in Message
    BY Messages DEF Types
  <2>2. m \in Fine
    BY FineMessages
  <2>3. SyncCfm.t = "SYNC_CFM" /\ SyncCfm.v = IF resume = "post" THEN 3 ELSE 0
    BY DEF SyncCfm, Msg
  <2>4. SyncCfm \in Honest
    BY <1>1, <2>1, <2>3 DEF Honest, Trying, Types
  <2>5. m \in Honest
    BY <2>4, HonestMessages
  <2>6. /\ \A S : Within(tx, S) /\ m \in S => Within(tx', S)
    BY <1>4, <2>1, NotifyQueue
  <2>7. Within(tx, Honest)'
    <3>1. Within(tx', Honest)
      BY <1>1, <2>5, <2>6
    <3>2. Within(tx', Honest')
      BY <1>2, <3>1, Widened
    <3> QED BY <3>2 DEF Within
  <2>8. OldAnswers'
    <3>1. CASE link /\ cl.state = "SYNC_REQ"
      <4>1. dev.state = "WAIT_FOR_DEVICE"
        BY <1>4, <3>1 DEF PreStart
      <4>2. Rest(tx, Fine)
        BY <1>1, <3>1, <4>1 DEF OldAnswers, Rest
      <4>3. Rest(tx', Fine)
        BY <1>4, <2>1, <2>2, <4>2, NotifyRest
      <4> QED BY <1>1, <1>2, <3>1, <4>3 DEF OldAnswers, Rest
    <3>2. CASE link /\ cl.state = "START_REQ"
      BY <1>1, <1>2, <2>2, <2>6, <3>2 DEF OldAnswers, Within
    <3>3. CASE ~link \/ cl.state \notin {"SYNC_REQ", "START_REQ"}
      BY <1>1, <3>3 DEF OldAnswers
    <3> QED BY <3>1, <3>2, <3>3
  <2> QED BY <2>7, <2>8
<1> QED BY <1>3, <1>4

LEMMA ParamsCommits ==
    ASSUME Types, IInv, TInv, CInv, Confirming', Params
    PROVE  CInv'
PROOF
<1>1. /\ UNCHANGED <<link, up, client, told, cut>> /\ faults' = faults
      /\ UNCHANGED <<flash, fw>>
  BY DEF Params, ParamsUpdated, bounds
<1>2. \/ /\ dev' = [dev EXCEPT !.cb = FALSE, !.state = "WAIT_FOR_HOST"]
         /\ tx' = Notify(tx, SyncCfm) /\ dev.state = "WAIT_FOR_DEVICE"
      \/ dev' = [dev EXCEPT !.cb = FALSE] /\ tx' = tx
  BY DEF Params, ParamsUpdated
<1>3. /\ dev'.app = dev.app /\ dev'.timer = dev.timer /\ dev'.reset = dev.reset
      /\ dev'.closing = dev.closing /\ dev'.commit_cfm = dev.commit_cfm
      /\ dev'.stage = dev.stage /\ dev'.sum = dev.sum /\ dev'.valid = dev.valid
      /\ dev'.upgraded = dev.upgraded
      /\ dev'.state = "WAIT_FOR_DEVICE" => dev.state = "WAIT_FOR_DEVICE"
  BY <1>2 DEF Types, Ram
<1>4. New' = New /\ Ops({"run"})' = Ops({"run"})
  BY <1>1, <1>3, SameOps DEF New, flash
<1>5. Mild
  BY <1>1, <1>3, <1>4 DEF Mild, flash
<1>6. Loaded'
  BY <1>1, <1>3, <1>4 DEF CInv, Loaded, Used
<1>7. OldAnswers' /\ Within(tx, Honest)'
  BY <1>1, <1>2, <1>3, <1>5, NoticedNotes
<1> QED BY <1>1, <1>5, <1>6, <1>7, NoticedMildly

(***************************************************************************)
(* What was held back since an earlier connection comes first in this one. *)
(***************************************************************************)
LEMMA SendHeldCommits ==
    ASSUME Types, IInv, TInv, CInv, Confirming', SendHeld
    PROVE  CInv'
PROOF
<1> DEFINE x == [tx EXCEPT !.held = None, !.done = FALSE]
<1>1. /\ link /\ link' = link /\ UNCHANGED <<up, client, told, cut>> /\ UNCHANGED server
      /\ tx.done /\ tx' = Notify(x, tx.held) /\ faults' = faults /\ cl' = cl
      /\ OldAnswers /\ Loaded /\ Within(tx, Honest)
  BY DEF SendHeld, Resend, bounds, client, CInv
<1>2. Mild /\ Loaded' /\ Fine' = Fine /\ Honest \subseteq Honest'
  BY <1>1, SameServer, MildHonest, FineMessages DEF server
<1>3. \A S : Within(tx, S) /\ None \in S => Within(tx', S)
  BY ResentQueue
<1>4. None \in Honest /\ None \in Fine /\ None \in Message
  BY HonestMessages, FineMessages, Messages
<1>5. Within(tx, Honest)'
  <2>1. Within(tx', Honest)
    BY <1>1, <1>3, <1>4
  <2>2. Within(tx', Honest')
    BY <1>2, <2>1, Widened
  <2> QED BY <2>2 DEF Within
<1>6. /\ x \in Queue /\ x.q = tx.q /\ x.used = tx.used /\ x.held = None
      /\ tx.held \in Message /\ tx.q \in Seq(Message)
  BY <1>4 DEF Types, Queue
<1> HIDE DEF x
<1>7. OldAnswers'
  <2>1. CASE cl.state = "SYNC_REQ"
    <3>1. \A i \in 2 .. Len(tx.q) : tx.q[i] \in Fine
      BY <1>1, <2>1 DEF OldAnswers
    <3>2. CASE tx.held \in Fine
      <4>1. Rest(x, Fine)
        BY <1>4, <1>6, <3>1 DEF Rest
      <4>2. Rest(tx', Fine)
        BY <1>1, <1>6, <3>2, <4>1, NotifyRest
      <4> QED BY <1>1, <1>2, <2>1, <4>2 DEF OldAnswers, Rest
    <3>3. CASE tx.held \notin Fine
      <4>1. tx.q = <<>> /\ tx.used < TxBuffers
        BY <1>1, <2>1, <3>3, OtaLinkAssumption DEF OldAnswers
      <4>2. tx'.q = Append(tx.q, tx.held) /\ tx'.held = None
        BY <1>1, <1>6, <4>1 DEF Notify, Queue
      <4>3. Len(tx'.q) = 1
        BY <1>6, <4>1, <4>2
      <4> QED BY <1>1, <1>2, <1>4, <2>1, <4>2, <4>3 DEF OldAnswers
    <3> QED BY <3>2, <3>3
  <2>2. CASE cl.state = "START_REQ"
    <3>1. Within(tx', Fine)
      BY <1>1, <1>3, <1>4, <2>2 DEF OldAnswers
    <3> QED BY <1>1, <1>2, <2>2, <3>1 DEF OldAnswers, Within
  <2>3. CASE cl.state \notin {"SYNC_REQ", "START_REQ"}
    BY <1>1, <2>3 DEF OldAnswers
  <2> QED BY <2>1, <2>2, <2>3
<1> QED BY <1>1, <1>2, <1>5, <1>7, NoticedMildly

(* What the firmware has to do for a new application *)
LEMMA NewHead ==
    ASSUME Types, IInv, New, fw # <<>>
    PROVE  /\ Head(fw).t \in {"key", "run", "set"}
           /\ Head(fw).t = "run" => fw = <<Op("run", dev.app)>>
PROOF
<1>1. fw \in {<<Op("key", 0)>>, <<Op("run", dev.app)>>, <<Op("set", Other)>>}
  BY DEF IInv, Flash
<1>2. ASSUME NEW op, fw = <<op>>
      PROVE  Head(fw) = op
  BY <1>2
<1>3. Op("key", 0).t = "key" /\ Op("run", dev.app).t = "run" /\ Op("set", Other).t = "set"
  BY DEF Op
<1> QED BY <1>1, <1>2, <1>3

(***************************************************************************)
(* A request that is not a commit has been done, or has failed.            *)
(***************************************************************************)
LEMMA RequestDone ==
    ASSUME Types, IInv, TInv, CInv, Confirming',
           UNCHANGED <<link, up, client, resume, once, committed, told, cut>>,
           faults' \in {faults, faults + 1},
           fw # <<>>, Head(fw).t # "run",
           \/ fw' = Tail(fw)
           \/ Head(fw).t = "chunk" /\ fw' = Tail(fw) \o <<Op("hash", dev.part)>>,
           \/ store' = store
           \/ /\ Head(fw).t \in {"set", "chunk"}
              /\ store' = [store EXCEPT ![Head(fw).s] = store'[Head(fw).s]],
           dev'.app = dev.app, dev'.timer = dev.timer, dev'.reset = dev.reset,
           dev'.closing = dev.closing, dev'.commit_cfm = dev.commit_cfm,
           dev'.valid = dev.valid, dev'.upgraded = dev.upgraded,
           dev'.state = "WAIT_FOR_DEVICE" => dev.state = "WAIT_FOR_DEVICE",
           \/ tx' = tx
           \/ link /\ tx' \in {Notify(tx, ErrorInd), Notify(tx, BytesReq(1))}
    PROVE  CInv'
PROOF
<1>1. /\ Head(fw) \in Request /\ Head(fw) = fw[1] /\ 1 \in 1 .. Len(fw) /\ Len(fw) \in Nat
      /\ Len(Tail(fw)) = Len(fw) - 1
      /\ \A i \in 1 .. Len(Tail(fw)) :
            Tail(fw)[i] = fw[i + 1] /\ i + 1 \in 1 .. Len(fw)
  BY HeadOp
<1>2. /\ Other \in Stores /\ Other # dev.app /\ store \in [Stores -> Int]
      /\ committed \in Stores
  BY Requests DEF Types
<1>3. Head(fw).t \in {"set", "chunk"} =>
        Head(fw).s = Other /\ dev.app = committed
  <2>1. CASE Head(fw).t = "set"
    BY <1>1, <2>1, Whole
  <2>2. CASE Head(fw).t = "chunk"
    <3>1. ~New
      BY <2>2, NewHead
    <3> QED BY <1>1, <2>2, <3>1 DEF IInv, Flash
  <2> QED BY <2>1, <2>2
<1>4. store'[committed] = store[committed] /\ store'[dev.app] = store[dev.app]
  BY <1>2, <1>3
<1>5. New' = New
  BY <1>4 DEF New
<1>6. Ops({"run"})' <=> Ops({"run"})
  <2>1. CASE fw' = Tail(fw)
    <3>1. Ops({"run"})' => Ops({"run"})
      BY <2>1, TailOps
    <3>2. ASSUME NEW i \in 1 .. Len(fw), fw[i].t = "run"
          PROVE  Ops({"run"})'
      <4>1. i # 1
        BY <1>1, <3>2
      <4>2. i - 1 \in 1 .. Len(fw') /\ fw'[i - 1] = fw[i]
        BY <1>1, <2>1, <4>1
      <4> QED BY <3>2, <4>2 DEF Ops
    <3> QED BY <3>1, <3>2 DEF Ops
  <2>2. CASE Head(fw).t = "chunk" /\ fw' = Tail(fw) \o <<Op("hash", dev.part)>>
    <3>1. ~Ops({"run"})
      <4>1. ~New
        BY <2>2, NewHead
      <4> QED BY <4>1 DEF IInv, Flash, Ops
    <3>2. Op("hash", dev.part) \in Request /\ Op("hash", dev.part).t = "hash"
      BY DEF Op, Request, Works, Types, Ram
    <3>3. Ops({"run"})' => Ops({"run"}) \/ Op("hash", dev.part).t \in {"run"}
      BY <2>2, <3>2, TailFollowed
    <3> QED BY <3>1, <3>2, <3>3
  <2> QED BY <2>1, <2>2
<1>7. Mild
  BY <1>4, <1>5, <1>6 DEF Mild
<1>8. Loaded'
  BY <1>5 DEF CInv, Loaded, Used
<1>9. link => ~PreStart
  BY QuietStart
<1>10. OldAnswers' /\ Within(tx, Honest)'
  BY <1>7, <1>9, NoticedNotes
<1> QED BY <1>7, <1>8, <1>10, NoticedMildly

LEMMA FaultCommits ==
    ASSUME Types, IInv, TInv, CInv, Confirming', FirmwareFault
    PROVE  CInv'
PROOF
<1>1. /\ UNCHANGED <<link, up, client, flash, told, cut>> /\ faults' = faults + 1
      /\ fw # <<>> /\ Head(fw).t \in {"set", "chunk", "hash"} /\ fw' = Tail(fw)
      /\ dev' = [dev EXCEPT !.trial = FALSE,
                            !.state = IF Head(fw).t = "chunk" THEN "ABORTED" ELSE @]
      /\ link /\ tx' = Notify(tx, ErrorInd)
  BY DEF FirmwareFault, Fault, StoreFails
<1>2. /\ dev'.app = dev.app /\ dev'.timer = dev.timer /\ dev'.reset = dev.reset
      /\ dev'.closing = dev.closing /\ dev'.commit_cfm = dev.commit_cfm
      /\ dev'.valid = dev.valid /\ dev'.upgraded = dev.upgraded
      /\ dev'.state = "WAIT_FOR_DEVICE" => dev.state = "WAIT_FOR_DEVICE"
  BY <1>1 DEF Types, Ram
<1> QED BY <1>1, <1>2, RequestDone DEF flash

(* The commit is done: what the host was told is true. *)
LEMMA AppCommits ==
    ASSUME Types, IInv, TInv, CInv, Confirming',
           UNCHANGED <<client, up, link, resume, once, bounds, told, cut>>,
           fw # <<>>, Head(fw).t = "run", AppCommitted(Head(fw).s),
           fw' = Tail(fw) \o <<Op("set", dev.cs)>>
    PROVE  CInv'
PROOF
<1>1. /\ Counted /\ Confirming /\ Within(tx, Honest) /\ OldAnswers
      /\ Trying /\ Running /\ Asked /\ Loaded /\ Truth /\ Guarding
  BY DEF CInv
<1>2. /\ New /\ committed' = dev.app /\ dev'.app = dev.app
      /\ store' = store /\ tx' = tx /\ cl' = cl /\ wr' = wr /\ faults' = faults
  BY AppCommittedKeeps DEF AppCommitted, client, bounds
<1>3. /\ dev'.state = dev.state /\ dev'.reset = FALSE /\ dev'.valid = FALSE
      /\ dev'.closing = dev.closing /\ dev'.commit_cfm = dev.commit_cfm
  BY DEF AppCommitted, initStateVariables, Types, Ram
<1>4. New' = New /\ store'[committed'] = Chunks
  BY <1>2 DEF New, IInv, Flash
<1>5. Ops({"run"}) /\ resume = "start"
  <2>1. Ops({"run"})
    BY HeadOp
  <2> QED BY <1>1, <2>1 DEF Running
<1>6. ~Ops({"run"})'
  <2>1. fw = <<Op("run", dev.app)>>
    BY <1>2, NewHead
  <2>2. fw' = <<Op("set", dev.cs)>>
    BY <2>1
  <2>3. Op("set", dev.cs).t = "set"
    BY DEF Op
  <2> QED BY <2>2, <2>3 DEF Ops
<1>7. Tried' = Tried /\ Done' /\ Fine' = Fine
      /\ \A k : Out(k)' <=> Out(k)
  BY <1>2, <1>4, FineMessages DEF Tried, Done, Out
<1>8. Counted'
  BY <1>1, <1>2 DEF Counted
<1>9. Within(tx, Honest)'
  <2>1. Honest \subseteq Honest'
    BY <1>4, <1>5, <1>7 DEF Honest
  <2>2. Within(tx, Honest')
    BY <1>1, <2>1, Widened
  <2> QED BY <1>2, <2>2 DEF Within
<1>10. OldAnswers'
  BY <1>1, <1>2, <1>3, <1>7 DEF OldAnswers, Within
<1>11. Trying' /\ Running' /\ Asked'
  BY <1>1, <1>2, <1>3, <1>4, <1>5, <1>6, <1>7 DEF Trying, Running, Asked
<1>12. Loaded' /\ Truth'
  BY <1>2, <1>3, <1>4 DEF Loaded, Truth
<1>13. Guarding'
  BY <1>2, <1>4 DEF Guarding, Astray, TrialGuarded
<1> QED BY <1>8, <1>9, <1>10, <1>11, <1>12, <1>13 DEF CInv

LEMMA ConfirmCommits ==
    ASSUME Types, IInv, TInv, CInv, Confirming', Confirm
    PROVE  CInv'
PROOF
<1>1. /\ fw # <<>> /\ UNCHANGED <<client, up, link, resume, once>>
      /\ UNCHANGED <<bounds, told, cut>> /\ faults' = faults
  BY ConfirmCases DEF Confirm, bounds
<1>2. CASE Head(fw).t = "run" /\ AppCommitted(Head(fw).s)
           /\ fw' = Tail(fw) \o <<Op("set", dev.cs)>>
  BY <1>1, <1>2, AppCommits
<1> DEFINE Alike ==
        /\ dev'.app = dev.app /\ dev'.timer = dev.timer /\ dev'.reset = dev.reset
        /\ dev'.closing = dev.closing /\ dev'.commit_cfm = dev.commit_cfm
        /\ dev'.valid = dev.valid /\ dev'.upgraded = dev.upgraded
        /\ dev'.state = "WAIT_FOR_DEVICE" => dev.state = "WAIT_FOR_DEVICE"
<1>3. CASE Head(fw).t = "key" /\ fw' = Tail(fw) /\ KeyRead
  <2>1. Alike /\ UNCHANGED <<store, committed, tx>>
    BY <1>3 DEF KeyRead, Types, Ram
  <2> QED BY <1>1, <1>3, <2>1, RequestDone
<1>4. CASE Head(fw).t = "set" /\ fw' = Tail(fw) /\ StoreIdSet(Head(fw).s)
  <2>1. dev' = dev \/ dev' = [dev EXCEPT !.cs = dev.app]
    BY <1>4 DEF StoreIdSet
  <2>2. Alike
    BY <2>1 DEF Types, Ram
  <2>3. /\ committed' = committed
        /\ tx' = tx \/ (link /\ tx' = Notify(tx, BytesReq(1)))
    BY <1>4 DEF StoreIdSet
  <2>4. store' = [store EXCEPT ![Head(fw).s] = store'[Head(fw).s]]
    BY <1>4 DEF StoreIdSet, Types
  <2> QED BY <1>1, <1>4, <2>2, <2>3, <2>4, RequestDone
<1>5. CASE /\ Head(fw).t = "chunk" /\ ChunkWritten(Head(fw).s)
           /\ \/ fw' = Tail(fw)
              \/ dev.last /\ fw' = Tail(fw) \o <<Op("hash", dev.part)>>
  <2>1. dev' = dev /\ committed' = committed /\ tx' = tx /\ Alike
    BY <1>5 DEF ChunkWritten
  <2>2. store' = [store EXCEPT ![Head(fw).s] = store'[Head(fw).s]]
    BY <1>5 DEF ChunkWritten, Types
  <2> QED BY <1>1, <1>5, <2>1, <2>2, RequestDone
<1>6. CASE Head(fw).t = "hash" /\ fw' = Tail(fw) /\ StoreHashed(Head(fw).s)
  <2>1. Alike /\ UNCHANGED <<store, committed, tx>>
    BY <1>6 DEF StoreHashed, Types, Ram
  <2> QED BY <1>1, <1>6, <2>1, RequestDone
<1> HIDE DEF Alike
<1> QED BY <1>2, <1>3, <1>4, <1>5, <1>6, ConfirmCases

-----------------------------------------------------------------------------
(* Connections and restarts *)

LEMMA LinkDownNotes ==
    ASSUME NEW r, LinkDown(r)
    PROVE  ~link' /\ tx'.q = <<>> /\ tx'.held = IF r THEN None ELSE tx.held
BY DEF LinkDown, Quiet

(* Apart, what was told and held back remains, and what is in NVM. *)
LEMMA ApartCommits ==
    ASSUME ~link', tx'.q = <<>>, tx'.held \in Honest', Counted', Confirming',
           Trying', Running', New' => ~dev'.valid, Truth', Guarding'
    PROVE  CInv'
PROOF
<1>1. Within(tx, Honest)'
  BY DEF Within
<1> QED BY <1>1 DEF CInv, OldAnswers, Asked, Loaded

(***************************************************************************)
(* The connection is gone, or was, and no restart was waiting for that.    *)
(***************************************************************************)
LEMMA StaysCommits ==
    ASSUME Types, IInv, IInv', CInv, Confirming', ~link', ~dev.reset,
           UNCHANGED <<flash, fw, told, cut>>, faults' \in {faults, faults + 1},
           tx'.q = <<>>, tx'.held = tx.held,
           dev' \in {dev, [dev EXCEPT !.busy = FALSE, !.closing = FALSE]}
    PROVE  CInv'
PROOF
<1>1. /\ Counted /\ Within(tx, Honest)
      /\ Trying /\ Running /\ Loaded /\ Truth /\ Guarding
  BY DEF CInv
<1>2. /\ dev'.app = dev.app /\ dev'.timer = dev.timer /\ dev'.reset = dev.reset
      /\ dev'.valid = dev.valid /\ dev'.commit_cfm = dev.commit_cfm
      /\ dev'.closing => dev.closing
  BY DEF Types, Ram
<1>3. /\ UNCHANGED <<resume, store, committed, once>> /\ New' = New
      /\ Ops({"run"})' = Ops({"run"})
  BY <1>2, SameOps DEF flash, New
<1>4. Tried' = Tried /\ Done' = Done /\ once = 0
  BY <1>3 DEF Tried, Done, IInv, Flash
<1>5. tx'.held \in Honest'
  <2>1. Honest' = Honest
    BY <1>2, <1>3, <1>4 DEF Honest
  <2> QED BY <1>1, <2>1 DEF Within
<1>6. Counted'
  BY <1>1 DEF Counted
<1>7. Trying'
  <2>1. ~Out("TRANSFER_COMPLETE_RES")'
    <3>1. up' = None /\ wr'.pend = None
      BY DEF IInv, Apart, Client
    <3> QED BY <3>1, MessageFields DEF Out
  <2> QED BY <1>1, <1>2, <1>3, <1>4, <2>1 DEF Trying
<1>8. Running' /\ Truth'
  BY <1>1, <1>2, <1>3 DEF Running, Truth
<1>9. Guarding'
  <2> SUFFICES ASSUME faults' <= 1
               PROVE  (Astray' => faults' = 1 /\ resume' = "post" /\ once' = 0)
                      /\ TrialGuarded'
    BY DEF Guarding
  <2>1. faults <= 1
    BY <1>1 DEF Counted
  <2>2. Astray' = Astray
    BY <1>2, <1>3 DEF Astray
  <2>3. TrialGuarded => TrialGuarded'
    BY <1>2, <1>3 DEF TrialGuarded
  <2>4. Astray => faults' = 1
    BY <1>1, <2>1 DEF Guarding, Counted
  <2> QED BY <1>1, <1>3, <2>1, <2>2, <2>3, <2>4 DEF Guarding
<1>10. New' => ~dev'.valid
  BY <1>1, <1>2, <1>3 DEF Loaded
<1> QED BY <1>5, <1>6, <1>7, <1>8, <1>9, <1>10, ApartCommits

(***************************************************************************)
(* What is booted: a trial only at its resume point; and an old            *)
(* application at that point was astray before, or lost its trial.         *)
(***************************************************************************)
LEMMA BootsWhat ==
    ASSUME Types, IInv, CInv, NEW kept \in {0, once}, Boot(kept), Restarted
    PROVE  /\ once' = 0 /\ ~Ops({"run"})' /\ committed' = committed
           /\ store'[committed] = store[committed]
           /\ dev'.timer = (resume' = "post") /\ ~dev'.reset /\ ~dev'.valid
           /\ ~dev'.closing /\ ~dev'.commit_cfm
           /\ dev'.app # committed => kept # 0
           /\ kept # 0 => New' /\ resume = "post"
           /\ kept = once /\ resume = "post" /\ ~New /\ ~New' /\ faults <= 1 =>
                faults = 1
PROOF
<1>1. /\ once' = 0 /\ fw' = <<Op("key", 0)>> /\ committed' = committed
      /\ dev' = Booted(IF kept # 0 THEN kept ELSE committed, resume' = "post")
  BY DEF Boot
<1>2. /\ dev'.timer = (resume' = "post") /\ ~dev'.reset /\ ~dev'.valid
      /\ ~dev'.closing /\ ~dev'.commit_cfm
      /\ dev'.app = IF kept # 0 THEN kept ELSE committed
  BY <1>1 DEF Booted
<1>3. ~Ops({"run"})'
  <2>1. \A i \in 1 .. Len(fw') : fw'[i].t = "key"
    BY <1>1, Requests
  <2> QED BY <2>1 DEF Ops
<1>4. kept # 0 => New' /\ resume = "post"
  <2> SUFFICES ASSUME kept # 0 PROVE New' /\ resume = "post"
    OBVIOUS
  <2>1. ~New /\ dev.app = committed /\ once = Other /\ Other # dev.app
    BY Requests DEF IInv, Flash
  <2>2. dev'.app = Other
    BY <1>2, <2>1
  <2>3. store'[dev'.app] # Orig
    BY <2>1, <2>2 DEF Restarted
  <2> QED BY <2>3 DEF New, CInv, Trying
<1>5. ASSUME kept = once, resume = "post", ~New, ~New', faults <= 1
      PROVE  faults = 1
  <2>1. once = 0
    BY <1>4, <1>5
  <2>2. Astray
    BY <1>5, <2>1 DEF Astray
  <2> QED BY <1>5, <2>2 DEF CInv, Guarding
<1> QED BY <1>1, <1>2, <1>3, <1>4, <1>5 DEF Restarted

LEMMA BootCommits ==
    ASSUME Types, IInv, IInv', CInv, Confirming', Restarted,
           NEW kept \in {0, once}, Boot(kept),
           ~link', tx'.q = <<>>, tx'.held = None, told' = told, cut' \in BOOLEAN,
           cut' \/ (cut' = cut /\ (Ops({"run"}) => dev.reset)),
           resume' = "post" => cut' \/ New',
           \/ faults' = faults + 1
           \/ /\ faults' = faults
              /\ faults <= 1 /\ resume' = "post" /\ ~New' => faults = 1,
           faults' <= 1 /\ kept # 0 => resume' = "post"
    PROVE  CInv'
PROOF
<1>1. Counted /\ Truth
  BY DEF CInv
<1>2. /\ once' = 0 /\ ~Ops({"run"})' /\ committed' = committed
      /\ store'[committed] = store[committed]
      /\ dev'.timer = (resume' = "post") /\ ~dev'.reset /\ ~dev'.valid
      /\ ~dev'.closing /\ ~dev'.commit_cfm
      /\ dev'.app # committed => kept # 0
  BY BootsWhat
<1>3. tx'.held \in Honest'
  BY HonestMessages
<1>4. Counted'
  BY <1>1 DEF Counted
<1>5. Trying'
  <2>1. ~Out("TRANSFER_COMPLETE_RES")'
    <3>1. up' = None /\ wr'.pend = None
      BY DEF IInv, Apart, Client
    <3> QED BY <3>1, MessageFields DEF Out
  <2> QED BY <1>2, <2>1 DEF Trying, Tried
<1>6. Running'
  BY <1>2 DEF Running
<1>7. Truth'
  BY <1>1, <1>2 DEF Truth
<1>8. Guarding'
  <2> SUFFICES ASSUME faults' <= 1
               PROVE  (Astray' => faults' = 1 /\ resume' = "post" /\ once' = 0)
                      /\ TrialGuarded'
    BY DEF Guarding
  <2>1. Astray' => resume' = "post" /\ ~New'
    BY <1>2 DEF Astray
  <2>2. resume' = "post" /\ ~New' => faults' = 1
    BY <1>1 DEF Counted
  <2>3. TrialGuarded'
    BY <1>2 DEF TrialGuarded
  <2> QED BY <1>2, <2>1, <2>2, <2>3
<1> QED BY <1>2, <1>3, <1>4, <1>5, <1>6, <1>7, <1>8, ApartCommits

(***************************************************************************)
(* The connection ends: a restart that waited for that follows its resume  *)
(* point, and a new application that was given up runs no longer.          *)
(***************************************************************************)
LEMMA ServerDownCommits ==
    ASSUME Types, IInv, IInv', CInv, Confirming', Restarted,
           LinkDown(dev.reset), ServerDisconnected,
           UNCHANGED <<told, cut>>, faults' \in {faults, faults + 1}
    PROVE  CInv'
PROOF
<1>1. ~link' /\ tx'.q = <<>> /\ tx'.held = IF dev.reset THEN None ELSE tx.held
  BY LinkDownNotes
<1>2. Counted /\ Trying
  BY DEF CInv
<1>3. CASE ~dev.reset
  <2>1. /\ dev' = [dev EXCEPT !.busy = FALSE, !.closing = FALSE]
        /\ UNCHANGED <<flash, fw>>
    BY <1>3 DEF ServerDisconnected
  <2> QED BY <1>1, <1>3, <2>1, StaysCommits
<1>4. CASE dev.reset
  <2>1. resume' = resume /\ store' = store /\ Boot(once)
    BY <1>4 DEF ServerDisconnected
  <2>2. tx'.held = None /\ cut' \in BOOLEAN
    BY <1>1, <1>2, <1>4 DEF Counted
  <2>3. New => resume = "start"
    BY <1>2, <1>4 DEF Trying
  <2>4. /\ once # 0 => New' /\ resume = "post"
        /\ resume = "post" /\ ~New /\ ~New' /\ faults <= 1 => faults = 1
    BY <2>1, BootsWhat
  <2>5. resume' = "post" => cut' \/ New'
    BY <1>2, <2>1, <2>3, <2>4 DEF Trying, Tried
  <2>6. \/ faults' = faults + 1
        \/ /\ faults' = faults
           /\ faults <= 1 /\ resume' = "post" /\ ~New' => faults = 1
    BY <2>1, <2>3, <2>4
  <2> QED BY <1>1, <1>4, <2>1, <2>2, <2>4, <2>5, <2>6, BootCommits
<1> QED BY <1>3, <1>4

(* A panic at the end of a connection, or while a store is erased apart *)
LEMMA PanicCommits ==
    ASSUME Types, IInv, IInv', TInv, CInv, Confirming', Restarted, ServerPanics
    PROVE  CInv'
PROOF
<1>1. /\ Boot(once) /\ resume' = resume /\ cut' = TRUE /\ told' = told
      /\ faults' = faults /\ LinkDown(TRUE)
  BY DEF ServerPanics, EraseUnattended, WriteWhileClosing, Restarts, bounds
<1>2. ~link' /\ tx'.q = <<>> /\ tx'.held = None
  BY <1>1, LinkDownNotes
<1>3. /\ once # 0 => New' /\ resume = "post"
      /\ resume = "post" /\ ~New /\ ~New' /\ faults <= 1 => faults = 1
      /\ dev'.app # committed => once # 0
  BY <1>1, BootsWhat
<1>4. New /\ resume = "post" => New'
  <2> SUFFICES ASSUME New, resume = "post" PROVE New'
    OBVIOUS
  <2>1. ~dev.closing
    BY DEF CInv, Trying
  <2>2. fw # <<>> /\ Head(fw).t = "set" /\ ~link
    BY <2>1 DEF ServerPanics, EraseUnattended, WriteWhileClosing
  <2>3. Head(fw) = fw[1] /\ 1 \in 1 .. Len(fw)
    BY <2>2, HeadOp
  <2>4. dev.app = committed /\ once = 0
    BY <2>2, <2>3, Whole
  <2>5. store[committed] # Orig /\ dev'.app = committed
    BY <1>3, <2>4 DEF New
  <2> QED BY <2>5 DEF New, Restarted
<1>5. faults <= 1 /\ resume' = "post" /\ ~New' => faults = 1
  BY <1>1, <1>3, <1>4
<1> QED BY <1>1, <1>2, <1>3, <1>5, BootCommits

(* The commit timer of an interrupted trial runs out: it is over. *)
LEMMA TimeoutCommits ==
    ASSUME Types, IInv, IInv', CInv, Confirming', Restarted, CommitTimesOut
    PROVE  CInv'
PROOF
<1>1. /\ dev.timer /\ Boot(once) /\ resume' = "start" /\ cut' = cut /\ told' = told
      /\ faults' = faults /\ LinkDown(TRUE)
  BY DEF CommitTimesOut, CommitTimeout, Restarts, bounds
<1>2. ~link' /\ tx'.q = <<>> /\ tx'.held = None
  BY <1>1, LinkDownNotes
<1>3. ~Ops({"run"}) /\ cut' \in BOOLEAN
  BY <1>1 DEF CInv, Running, Counted
<1>4. faults <= 1 => once = 0
  <2> SUFFICES ASSUME faults <= 1, once # 0 PROVE FALSE
    OBVIOUS
  <2>1. Astray
    BY <1>1 DEF IInv, Flash, Astray
  <2> QED BY <2>1 DEF CInv, Guarding
<1> QED BY <1>1, <1>2, <1>3, <1>4, BootCommits

LEMMA PowerCutCommits ==
    ASSUME Types, IInv, IInv', CInv, Confirming', Restarted, ServerPowerCut
    PROVE  CInv'
PROOF
<1>1. /\ resume' = resume /\ cut' = TRUE /\ told' = told
      /\ faults' = faults + 1 /\ LinkDown(TRUE)
  BY DEF ServerPowerCut, PowerCut, Restarts, Fault
<1>2. PICK kept \in {0, once} : Boot(kept)
  BY DEF ServerPowerCut, PowerCut
<1>3. ~link' /\ tx'.q = <<>> /\ tx'.held = None
  BY <1>1, LinkDownNotes
<1>4. kept # 0 => resume = "post"
  BY <1>2, BootsWhat
<1> QED BY <1>1, <1>2, <1>3, <1>4, BootCommits

LEMMA EndsCommits ==
    ASSUME Types, IInv, TInv, CInv, Confirming', Ends
    PROVE  CInv'
PROOF
<1>1. IInv' /\ Restarted
  BY EndsKeeps
<1>2. Counted /\ Trying
  BY DEF CInv
<1>3. CASE LinkLost \/ Closed
  <2>1. /\ LinkDown(dev.reset) /\ ServerDisconnected /\ UNCHANGED <<told, cut>>
        /\ faults' \in {faults, faults + 1}
    BY <1>3 DEF LinkLost, Closed, Disconnect, Fault
  <2> QED BY <1>1, <2>1, ServerDownCommits
<1>4. CASE ClientPowerCut
  <2>1. UNCHANGED <<told, cut>> /\ faults' = faults + 1
    BY <1>4 DEF ClientPowerCut, Fault
  <2>2. CASE link
    <3>1. LinkDown(dev.reset) /\ ServerDisconnected
      BY <1>4, <2>2 DEF ClientPowerCut
    <3> QED BY <1>1, <2>1, <3>1, ServerDownCommits
  <2>3. CASE ~link
    <3>1. ~link' /\ tx' = tx /\ UNCHANGED <<flash, fw, dev>>
      BY <1>4, <2>3 DEF ClientPowerCut, server, flash
    <3>2. ~dev.reset /\ tx.q = <<>>
      BY <1>2, <2>3 DEF Trying, IInv, Apart
    <3> QED BY <1>1, <2>1, <3>1, <3>2, StaysCommits
  <2> QED BY <2>2, <2>3
<1> QED BY <1>1, <1>3, <1>4, PanicCommits, TimeoutCommits, PowerCutCommits
        DEF Ends, Unasked

LEMMA GiveUpCommits ==
    ASSUME Types, IInv, CInv, Confirming', GiveUp
    PROVE  CInv'
PROOF
<1>1. /\ ~link /\ ~link' /\ tx' = tx /\ UNCHANGED <<flash, fw, dev, told, cut>>
      /\ faults' = faults
  BY DEF GiveUp, ReconnectionFails, server, flash, bounds
<1>2. ~dev.reset /\ tx.q = <<>>
  BY <1>1 DEF CInv, Trying, IInv, Apart
<1> QED BY <1>1, <1>2, GiveUpKeeps, StaysCommits

(***************************************************************************)
(* A connection begins where the firmware has done what it was asked, so   *)
(* that a host that was told of a commit was told the truth.               *)
(***************************************************************************)
LEMMA ConnectCommits ==
    ASSUME Prompt, Types, IInv, TInv, CInv, Confirming', Connect
    PROVE  CInv'
PROOF
<1>1. /\ ~link /\ link' /\ fw = <<>> /\ UNCHANGED <<up, tx, wr, fw>>
      /\ UNCHANGED <<resume, store, committed, once, faults, told, cut>>
      /\ dev' = initStateVariables(
                    [dev EXCEPT !.state = IF dev.cs = 0
                                          THEN "PRE_FAIL" ELSE "WAIT_FOR_HOST"])
      /\ cl' = [cl EXCEPT !.start = "timer",
                          !.state = IF @ = "WAIT_POST_TRANSFER_RECONNECTION"
                                    THEN "IDLE" ELSE @]
  BY DEF Connect, ServerConnected, ClientConnected, flash
<1>2. /\ Counted /\ Within(tx, Honest)
      /\ Trying /\ Loaded /\ Truth /\ Guarding
  BY DEF CInv
<1>3. /\ up = None /\ wr.pend = None /\ None.t = "none" /\ tx.q = <<>>
      /\ cl.state \in {"IDLE", "WAIT_POST_TRANSFER_RECONNECTION"} /\ ~dev.closing
      /\ ~dev.reset
  BY <1>1, <1>2, MessageFields DEF IInv, Apart, Client, Trying
<1>4. cl'.state = "IDLE" /\ PreStart'
  BY <1>1, <1>3 DEF Types, Relayer, PreStart
<1>5. \A t : t # "none" => ~Out(t)' /\ up'.t # t /\ wr'.pend.t # t
  BY <1>1, <1>3 DEF Out
<1>6. /\ dev'.app = dev.app /\ dev'.timer = dev.timer /\ ~dev'.reset /\ ~dev'.valid
      /\ ~dev'.closing /\ dev'.commit_cfm = dev.commit_cfm
      /\ dev'.stage = "id" /\ dev'.sum = "none"
  <2> DEFINE st == IF dev.cs = 0 THEN "PRE_FAIL" ELSE "WAIT_FOR_HOST"
             d == [dev EXCEPT !.state = st]
  <2>1. dev' = initStateVariables(d) /\ d = [dev EXCEPT !.state = st]
    BY <1>1
  <2> HIDE DEF st, d
  <2>2. /\ d.app = dev.app /\ d.timer = dev.timer /\ d.closing = dev.closing
        /\ d.commit_cfm = dev.commit_cfm /\ DOMAIN d = DOMAIN dev
    BY <2>1 DEF Types, Ram
  <2>3. dev' = [d EXCEPT !.valid = FALSE, !.got = 0, !.stage = "id",
                         !.reset = FALSE, !.sum = "none"]
    BY <2>1 DEF initStateVariables
  <2> QED BY <1>3, <2>2, <2>3 DEF Types, Ram
<1>7. /\ New' = New /\ Tried' = Tried /\ Done' = Done
      /\ ~Ops({"run"})' /\ ~Ops({"run"})
  BY <1>1, <1>6 DEF New, Tried, Done, Ops
<1>8. Counted'
  BY <1>1, <1>2 DEF Counted
<1>9. Within(tx, Honest)'
  <2>1. Honest' = Honest
    BY <1>1, <1>3, <1>6, <1>7 DEF Honest
  <2> QED BY <1>1, <1>2, <2>1 DEF Within
<1>10. OldAnswers' /\ Asked'
  BY <1>4, <1>5 DEF OldAnswers, Asked, Late
<1>11. Trying' /\ Running'
  BY <1>1, <1>2, <1>5, <1>6, <1>7 DEF Trying, Running
<1>12. Loaded'
  BY <1>1, <1>6 DEF Loaded, Used
<1>13. Truth'
  BY <1>1, <1>2, <1>7 DEF Truth
<1>14. Guarding'
  <2> SUFFICES ASSUME faults' <= 1
               PROVE  /\ Astray' => /\ faults' = 1 /\ resume' = "post" /\ once' = 0
                                    /\ link' => Led'
                      /\ TrialGuarded'
    BY DEF Guarding
  <2>1. Astray' = Astray
    BY <1>1, <1>6, <1>7 DEF Astray
  <2>2. Led'
    BY <1>4, <1>5 DEF Led
  <2>3. TrialGuarded'
    <3>1. dev.app # committed => dev.timer
      BY <1>1, <1>2, <1>3 DEF Guarding, TrialGuarded
    <3> QED BY <1>1, <1>6, <3>1 DEF TrialGuarded
  <2> QED BY <1>1, <1>2, <2>1, <2>2, <2>3 DEF Guarding
<1> QED BY <1>8, <1>9, <1>10, <1>11, <1>12, <1>13, <1>14 DEF CInv
-----------------------------------------------------------------------------
(* The invariant *)

LEMMA StartsHonest ==
    ASSUME Init
    PROVE  CInv
PROOF
<1>1. /\ link = FALSE /\ up = None /\ tx = Quiet /\ cl = Idle
      /\ wr = [busy |-> FALSE, pend |-> None]
      /\ resume = "start" /\ store = [s \in Stores |-> Orig]
      /\ committed = 1 /\ once = 0 /\ fw = <<Op("key", 0)>> /\ dev = Booted(1, FALSE)
      /\ faults = 0 /\ told = FALSE /\ cut = FALSE
  BY DEF Init, ServerInit, ClientInit
<1>2. /\ tx.q = <<>> /\ tx.held = None /\ None.t = "none" /\ wr.pend = None
      /\ dev.app = 1 /\ ~dev.timer /\ ~dev.reset
  BY <1>1, MessageFields DEF Quiet, Booted
<1>3. ~New
  BY <1>1, <1>2 DEF New, Stores
<1>4. ~Ops({"run"})
  <2>1. \A i \in 1 .. Len(fw) : fw[i].t = "key"
    <3>1. Op("key", 0).t = "key"
      BY DEF Op
    <3> QED BY <1>1, <3>1
  <2> QED BY <2>1 DEF Ops
<1>5. Counted /\ Confirming /\ OldAnswers /\ Asked /\ Running /\ Truth
  BY <1>1, <1>2, <1>4 DEF Counted, Confirming, OldAnswers, Asked, Running, Truth
<1>6. Within(tx, Honest)
  BY <1>2, Messages DEF Within, Honest
<1>7. Trying /\ Loaded
  BY <1>1, <1>2, <1>3 DEF Trying, Loaded
<1>8. Guarding
  BY <1>1, <1>2, <1>3 DEF Guarding, Astray, TrialGuarded
<1> QED BY <1>5, <1>6, <1>7, <1>8 DEF CInv

LEMMA StutterCommits ==
    ASSUME CInv, UNCHANGED vars
    PROVE  CInv'
PROOF
<1>1. /\ UNCHANGED <<link, up, tx, cl, wr, faults, told, cut>>
      /\ UNCHANGED <<resume, store, committed, once, fw, dev>>
  BY DEF vars, server, client
<1>2. /\ New' = New /\ Tried' = Tried /\ Done' = Done /\ PreStart' = PreStart
      /\ (\A t : Out(t)' = Out(t)) /\ (\A K : Ops(K)' = Ops(K))
      /\ GivenUp' = GivenUp
  BY <1>1 DEF New, Tried, Done, PreStart, Out, Ops, GivenUp, Over, Handing, Asking
<1>3. /\ Within(tx, Honest)' = Within(tx, Honest)
      /\ Within(tx, Fine)' = Within(tx, Fine) /\ Fine' = Fine
  BY <1>1, <1>2 DEF Within, Honest, Fine, SyncCfm
<1>4. Counted' /\ Confirming' /\ OldAnswers'
  BY <1>1, <1>3 DEF CInv, Counted, Confirming, OldAnswers
<1>5. Trying' /\ Running' /\ Asked'
  BY <1>1, <1>2 DEF CInv, Trying, Running, Asked
<1>6. Loaded' /\ Truth'
  BY <1>1, <1>2 DEF CInv, Loaded, Used, Truth, Parting
<1>7. Guarding'
  <2>1. Astray' = Astray /\ Led' = Led /\ TrialGuarded' = TrialGuarded
    BY <1>1, <1>2 DEF Astray, Led, TrialGuarded
  <2> QED BY <1>1, <2>1 DEF CInv, Guarding
<1> QED BY <1>3, <1>4, <1>5, <1>6, <1>7 DEF CInv

LEMMA StepCommits ==
    ASSUME Prompt, Types, IInv, TInv, CInv, [Next]_vars
    PROVE  CInv'
PROOF
<1>1. Confirming'
  BY StepKeeps, ConfirmingStep DEF CInv
<1>2. CASE Serve \/ Relay \/ Begin \/ Confirm
  BY <1>1, <1>2, ServeCommits, RelayCommits, BeginCommits, ConfirmCommits
<1>3. CASE Params \/ SendHeld \/ GiveUp \/ Connect
  BY <1>1, <1>3, ParamsCommits, SendHeldCommits, GiveUpCommits, ConnectCommits
<1>4. CASE FirmwareFault \/ UserAborts \/ UserDeclines
  BY <1>1, <1>4, FaultCommits, UserCommits
<1>5. CASE Ends
  BY <1>1, <1>5, EndsCommits
<1>6. CASE UNCHANGED vars
  BY <1>6, StutterCommits
<1> QED BY <1>2, <1>3, <1>4, <1>5, <1>6 DEF Next, System, Ends, Unasked

(***************************************************************************)
(* What the resume point, the notifications under way and the host's       *)
(* place say of one another, across connections and restarts.              *)
(***************************************************************************)
THEOREM UpgradeHonest ==
    ASSUME Prompt
    PROVE  Spec => [](Types /\ IInv /\ TInv /\ CInv)
PROOF
<1>1. Init => Types /\ IInv /\ TInv /\ CInv
  BY Starts, StartsApart, StartsHonest
<1>2. (Types /\ IInv /\ TInv /\ CInv) /\ [Next]_vars =>
        (Types /\ IInv /\ TInv /\ CInv)'
  BY StepKeeps, StepSteps, StepCommits
<1> QED BY <1>1, <1>2, PTL DEF Spec

(***************************************************************************)
(* A host that UPGRADE_HOST_COMPLETE_IND has told of the commit was told   *)
(* the truth: what StoreUpdate_RunApp asked for is done or will be, however*)
(* the connection ended, unless the server restarted by accident.          *)
(***************************************************************************)
THEOREM CommitsAsTold ==
    ASSUME Prompt
    PROVE  Spec => []CompleteMeansCommitted
PROOF
<1>1. ASSUME CInv
      PROVE  CompleteMeansCommitted
  BY <1>1 DEF CInv, Truth, Ops, CompleteMeansCommitted
<1> QED BY <1>1, UpgradeHonest, PTL

(***************************************************************************)
(* After at most one fault or intervention a hub on trial is rolled back   *)
(* by hostCommitTimeoutHandler or at the end of the connection, or its     *)
(* commit is with the firmware.                                            *)
(***************************************************************************)
THEOREM TrialsGuarded ==
    ASSUME Prompt
    PROVE  Spec => [](faults <= 1 => TrialGuarded)
PROOF
<1>1. ASSUME CInv
      PROVE  faults <= 1 => TrialGuarded
  BY <1>1 DEF CInv, Guarding
<1> QED BY <1>1, UpgradeHonest, PTL
=============================================================================
