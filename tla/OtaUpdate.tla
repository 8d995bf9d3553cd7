------------------------------ MODULE OtaUpdate ------------------------------
(***************************************************************************)
(* A hub relaying its image to another hub over the air: the client and    *)
(* the server on the link between them, with lost connections, power cuts  *)
(* of either hub, a firmware that fails, and a user who gives up.          *)
(***************************************************************************)
EXTENDS OtaServer, OtaClient

CONSTANTS MaxSessions,      \* connections that are made
          MaxFaults,        \* faults and interventions
          Prompt            \* the firmware has done what it was asked before
                            \* the next connection is made

ASSUME OtaUpdateAssumption ==
    /\ MaxSessions \in Nat \ {0}
    /\ MaxFaults \in Nat
    /\ Prompt \in BOOLEAN

VARIABLES sessions,     \* connections made
          faults,       \* faults and interventions so far
          told,         \* the host has been told that the upgrade is complete
          cut           \* the server restarted unasked during this upgrade

bounds == <<sessions, faults>>
vars == <<link, up, tx, server, client, sessions, faults, told, cut>>

Init ==
    /\ link = FALSE /\ up = None /\ tx = Quiet
    /\ ServerInit /\ ClientInit
    /\ sessions = 0 /\ faults = 0 /\ told = FALSE /\ cut = FALSE

(* What the server held back outlives the connection, but not a restart. *)
LinkDown(restart) ==
    /\ link' = FALSE /\ up' = None
    /\ tx' = [Quiet EXCEPT !.held = IF restart THEN None ELSE tx.held]

Connect ==
    /\ ~link /\ sessions < MaxSessions
    /\ Prompt => fw = <<>>
    /\ link' = TRUE /\ sessions' = sessions + 1
    /\ ServerConnected /\ ClientConnected
    /\ UNCHANGED <<up, tx, faults, told, cut>>

(* Both sides hear of it, each with all of its handlers. *)
Disconnect ==
    /\ link /\ LinkDown(dev.reset)
    /\ ServerDisconnected /\ ClientDisconnected
    /\ UNCHANGED <<sessions, told, cut>>

(* One of the two asked for it. *)
Closed == (dev.closing \/ cl.closing) /\ Disconnect /\ UNCHANGED faults

Fault == faults < MaxFaults /\ faults' = faults + 1

LinkLost == Fault /\ Disconnect

(* The server restarts; a client that was connected sees the link die. *)
Restarts ==
    /\ LinkDown(TRUE)
    /\ IF link THEN ClientDisconnected ELSE UNCHANGED client

ServerPowerCut ==
    /\ Fault /\ PowerCut /\ Restarts
    /\ cut' = TRUE /\ UNCHANGED <<sessions, told>>

ServerPanics ==
    /\ EraseUnattended \/ WriteWhileClosing
    /\ Restarts
    /\ cut' = TRUE /\ UNCHANGED <<bounds, told>>

CommitTimesOut ==
    /\ CommitTimeout /\ Restarts
    /\ UNCHANGED <<bounds, told, cut>>

ClientPowerCut ==
    /\ Fault
    /\ cl' = Idle /\ wr' = [busy |-> FALSE, pend |-> None]
    /\ IF link THEN LinkDown(dev.reset) /\ ServerDisconnected
       ELSE UNCHANGED <<link, up, tx, server>>
    /\ UNCHANGED <<sessions, told, cut>>

FirmwareFault ==
    /\ Fault /\ StoreFails
    /\ UNCHANGED <<client, sessions, told, cut>>

(***************************************************************************)
(* The host is a phone, and its user aborts the upgrade or declines to     *)
(* commit it.                                                              *)
(***************************************************************************)
UserAborts ==
    /\ Fault /\ link /\ ~wr.busy /\ cl.state # "IDLE"
    /\ cl' = [cl EXCEPT !.state = "ABORTING_DISCONNECT"]
    /\ Write(<<Req("ABORT_REQ")>>)
    /\ UNCHANGED <<link, tx, server, sessions, told, cut>>

UserDeclines ==
    /\ Fault /\ up = Req("COMMIT_CFM")
    /\ up' = Msg("COMMIT_CFM", 1)
    /\ UNCHANGED <<link, tx, server, client, sessions, told, cut>>

(***************************************************************************)
(* The server hears that a packet has been completed before the host can   *)
(* have acted on it: that takes another connection interval.               *)
(***************************************************************************)
Serve == ~tx.done /\ ServerStep /\ UNCHANGED <<client, bounds, told, cut>>

Relay ==
    /\ ~tx.done /\ ClientStep
    /\ told' = CASE cl'.state = "DISCONNECT" -> TRUE
                 [] cl'.state = "DATA_REQ" /\ cl.state = "START_REQ" -> FALSE
                 [] OTHER -> told
    /\ cut' = (cut /\ ~(cl'.state = "DATA_REQ" /\ cl.state = "START_REQ"))
    /\ UNCHANGED <<server, bounds>>

Begin ==
    /\ StartUpgrade /\ UNCHANGED <<server, bounds, told, cut>>

Confirm == Confirmed /\ UNCHANGED <<client, bounds, told, cut>>
Params == ParamsUpdated /\ UNCHANGED <<client, bounds, told, cut>>
SendHeld == Resend /\ UNCHANGED <<server, client, bounds, told, cut>>
GiveUp == ReconnectionFails /\ UNCHANGED <<server, bounds, told, cut>>

(* The two hubs, and what their radios and firmware owe them. *)
System ==
    \/ Serve \/ Relay \/ Begin \/ Confirm \/ Params \/ SendHeld
    \/ GiveUp \/ Closed \/ ServerPanics

Next ==
    \/ System \/ Connect \/ CommitTimesOut \/ LinkLost \/ ServerPowerCut
    \/ ClientPowerCut \/ FirmwareFault \/ UserAborts \/ UserDeclines

Fairness ==
    /\ WF_vars(Serve) /\ WF_vars(Relay) /\ WF_vars(Begin)
    /\ WF_vars(Confirm) /\ WF_vars(Params) /\ WF_vars(SendHeld)
    /\ WF_vars(GiveUp) /\ WF_vars(Closed) /\ WF_vars(ServerPanics)
    /\ WF_vars(CommitTimesOut)

Spec == Init /\ [][Next]_vars /\ Fairness

-----------------------------------------------------------------------------
(* Every variable holds a value of the kind the code gives it. *)
TypeOK ==
    /\ link \in BOOLEAN
    /\ resume \in {"start", "post"}
    /\ store \in [Stores -> {Orig} \cup 0 .. Chunks]
    /\ committed \in Stores /\ once \in Stores \cup {0}
    /\ dev.app \in Stores /\ dev.cs \in Stores \cup {0}
    /\ cl.off \in 0 .. Len(File)

(***************************************************************************)
(* The store the hub boots from holds a whole image, whatever was          *)
(* interrupted: a transfer erases the other store only, and the old image  *)
(* goes after the new one has been made the one to boot.                   *)
(***************************************************************************)
CommittedIsBootable == Complete(committed)

(***************************************************************************)
(* "assume failure until CS store keys can be read": no transfer begins    *)
(* before the server knows which store is the committed one.               *)
(***************************************************************************)
FailureUntilKeyRead == dev.cs = 0 => dev.state = "PRE_FAIL"

(***************************************************************************)
(* What is set to run once has been received whole and hashed: the         *)
(* signature cannot pass before the firmware has written and hashed every  *)
(* chunk.                                                                  *)
(***************************************************************************)
TrialIsVerified == once # 0 => store[once] = Chunks

(***************************************************************************)
(* A hub on trial is on its way somewhere: a timer will roll it back, the  *)
(* end of the connection will, or the commit is with the firmware.         *)
(***************************************************************************)
TrialGuarded ==
    dev.app # committed =>
        dev.timer \/ dev.reset \/ \E i \in 1 .. Len(fw) : fw[i].t = "run"

(***************************************************************************)
(* A host that has been told the upgrade is complete was told the truth,   *)
(* as soon as the firmware has done what it was asked, unless the server   *)
(* restarted by accident.                                                  *)
(***************************************************************************)
CompleteMeansCommitted ==
    told /\ ~cut =>
        \/ store[committed] = Chunks
        \/ \E i \in 1 .. Len(fw) : fw[i].t = "run"

(***************************************************************************)
(* The packet under way is the one the server's parser is waiting for:     *)
(* neither side counts octets the other has not.                           *)
(***************************************************************************)
PieceInStep ==
    up.t = "DATA" /\ dev.state = "IN_PROGRESS" =>
        LET piece == File[up.v]
        IN  IF dev.stage = "unknown" THEN piece \in {"part", "foot"}
            ELSE piece = dev.stage

(***************************************************************************)
(* Neither hub keeps the mesh stopped when the connection is gone, but for *)
(* a client that waits for the server's trial boot.                        *)
(***************************************************************************)
MeshRunsWhenApart ==
    ~link => /\ ~dev.busy
             /\ cl.mesh \/ cl.state = "WAIT_POST_TRANSFER_RECONNECTION"

(***************************************************************************)
(* An upgrade does not hang: the client comes back to idle, whatever gets  *)
(* lost or fails on the way.                                               *)
(***************************************************************************)
UpgradeEnds == cl.state # "IDLE" ~> cl.state = "IDLE"

(***************************************************************************)
(* The two stores and the boot choices implement the abstract two stages.  *)
(***************************************************************************)
ImageOf(s) == IF store[s] = Orig THEN "old" ELSE "new"

Stages == INSTANCE TwoStage WITH running <- ImageOf(dev.app),
                                 committed <- ImageOf(committed)
TwoStageSpec == Stages!Spec
=============================================================================
