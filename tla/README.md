# Verification of the CSR1024 mesh hub firmware

The repository is the firmware of a Bluetooth mesh hub: a CSR1024 chip that is a
CSRmesh device, a GATT bridge and the radio of an ESP32 *gateway* it is wired to. The
project checks the parts where the firmware's own logic lies: the UART link to the
gateway in both directions, what the hub forwards over it, what it remembers of its
mesh across restarts, its connections as a GATT bridge, and the upgrade of its firmware
over the air, from both ends.

Paths below are relative to `src/application/`.

## 1. The system

The firmware is event-driven and single-threaded. The chip's scheduler calls one
handler at a time (a timer's callback, a UART byte, a pin's edge, a message of the
mesh or Bluetooth stack) and the handler runs to its end. So every model here has one
action per handler. What interleaves is the order of the handlers, the gateway, the
mesh and the loss of power, which alone can come between two steps of a handler.

| Component | State it keeps | Operations | Talks to |
|---|---|---|---|
| **UART transmit** `csr_mesh_light/ONESECOND.c`, `uart_queue.c`, `app_hw.c` | ring of 20 packets, its two pointers, the state of the packet last sent, its slot, the timeout's timer id | `copyToTXPacketBuffer`, `mainUartTxHandler` every 50 ms, the 500 ms timeout, the edge of `PIN_ESP_ACK`, the 25 ms pulse of `PIN_TX_FLAG`, the association frame | gateway (wire and two pins); the timer pool all components share |
| **UART receive** `csr_mesh_light/main_app.c` | a 15-byte buffer, a count, "header seen" | `appUserReadIndCallback` for each byte, the 75 ms pulse of `PIN_CSR_ACK` | gateway; calls `ProcessRxData` |
| **Gateway commands** `mesh_common/mesh/handlers/extension_model/` | two filters, records of requests | `ProcessRxData`: reset, set groups, set filters, send a mesh message, ask for groups or battery, version | receive side, mesh stack, ring |
| **Report forwarding** same file and `ONESECOND.c` | a record per kind of report, the last transaction id, a shared count | `GroupModelEventHandler`, `BatteryModelEventHandler`, `Group_Set_UartTxHandler`; `extendedMsgHandler` forwards data messages at once | mesh stack, timer pool, ring |
| **Association and store** `csr_mesh_light/app_mesh_handler.c`, `mesh_common/.../core_mesh_handler.c`, `mesh_common/components/nvm_manager/` | association state, bearer state, TTL, groups; in NVM with a sanity word and a version | opening the store, `readPersistentStore`, `AppMeshInit`, `appProcessMeshEvent`, `RemoveAssociation`, `HandleGroupSetMsg`, the advertising timer | mesh stack (network keys), NVM, the GATT bridge |
| **Connection and advertising handlers** `mesh_common/mesh/handlers/{connection,advertisement,scan}/` | `app_state`, the advert timer, the connected device, `otau_in_progress` | `handleConnNotify`, `handleBondNotify`, `handleCmConnectionUpdated`, `AppSetState`, `GattTriggerConnectableAdverts` | connection manager, mesh stack (start, stop, bearer state), parameter update |
| **Connection parameters** `mesh_common/peripheral/conn_param_update.c` | the timer, the set asked for, retries, a callback | two kinds of request, two timers, `Cfm` and `Ind` of the stack, `handleServerAccessed` | connection handler, OTA server (callback), connection manager |
| **Connection manager** `mesh_common/components/connection_manager/` | devices and their states, the client's read and write under way, bonds | links, access to the attributes, discovery, security | Bluetooth stack; panics on a device it does not know |
| **OTA server** `mesh_common/server/gaia/`, `mesh/handlers/otau/` | transfer state, place in the file, sum of hashes, resume point in NVM, two application stores | GAIA commands, `handleOtauFileTransfer`, store confirmations, commit timer, trial boot | host by writes and notifications, firmware's store requests, connection parameters, mesh (stopped meanwhile) |
| **OTA relay (client)** `mesh_common/client/gaia/`, `mesh/handlers/otau_client/` | state of the upgrade, offset in its own image, a write kept for later | answers to each notification, reconnection after the transfer | server, connection manager, mesh |
| **GATT services, drivers, models compiled out** | | see `PROJECT.json` | |

Only `ENABLE_EXTENSION_MODEL` is defined (`csr_mesh_light/user_config.h`), so the other
model handlers (light, power, data, ...) are not in the program.

### What is hard about it

* **The transmit link** has no sequence numbers, neither in packets nor in the
  acknowledgement, which is an edge of a pin. A timeout races the edge; a packet in
  doubt is sent again from its slot, which the writer may have reached; nothing checks
  that the ring has room; three timers are taken per transmission from a pool of 20
  and nobody looks whether the pool gave them.
* **The receive link** has no time limit between bytes and one header test, decides
  about a frame one byte early, and must get back in step by itself.
* **The reports** of different kinds and devices share one count, one transaction id
  and one packet-building handler.
* **The store** is written item by item; power may go between any two.
* **The bridge**: connections, bearer events of the mesh, association and the timers of
  adverts and parameters come in any order, and several of these handlers panic in a
  state they do not expect. A request to the host for parameters cannot be taken back.
* **The upgrade** is a protocol of two state machines over a link with one write under
  way and few buffers, against flash that does what it is asked in its own time. A lost
  link, a power cut or a failure may hit any step; a hub that boots a half-written
  image, or erases the one it runs, is lost.

What makes each component correct is stated below next to the properties. All hazards
found, with their lines and the property that covers them or the reason that none
does, are in `PROJECT.json` ("hazards").

## 2. Modules

| Module | Models | Abstracts |
|---|---|---|
| `PacketStream` | what the transmit link promises: packets reach the gateway in order, none skipped, while the gateway is prompt and the backlog fits | the link altogether |
| `UartTx` | ring, loop, timeout, edge, pulses, shared pool | a packet is the number of the call that queued it; a pointer is a slot's index; 20 slots become `PACKET_TOTAL_NUMBER` |
| `UartTxProofs` | theorems about `UartTx` | |
| `UartRx` | assembly of frames byte by byte, the early check, resets, the gateway's retries | 15 bytes of 256 values become `LEN` bytes of `Radix` values |
| `GroupReport` | the reports, the shared count and calls, the pool | a record is the number of the event that filled it |
| `GroupReportProofs` | theorems about `GroupReport` | |
| `MeshStore` | NVM item by item, start-up, association, restarts, updates | an item's value is one of the few the properties tell apart |
| `UartRxProofs`, `MeshStoreProofs` | theorems about these two | |
| `TwoStage` | what an upgrade promises: old or new image, the new one first on trial, committed only while it runs | how it is transferred |
| `OtaLink` | the link of an upgrade: one write under way, notifications and their buffers, the one kept for later; the file as a sequence of packets | a packet is its kind and index in the file |
| `OtaServer` | the server: commands, parser, stores, confirmations, trial boot, commit, resets | a store holds the old image or the number of chunks written; a hash is right if the store was complete |
| `OtaClient` | the relaying client: all its answers, the write kept when one is under way, the start and the reconnection | its own image is the file |
| `OtaUpdate` | both together, with connections, losses, power cuts, failing stores and a user who aborts or declines | |
| `OtaUpdateProofs` | theorems about `OtaUpdate`: the applications, the mesh, the refinement | |
| `OtaTransferProofs` | theorems about its transfer, on top of those: packets, chunks, the parser | |
| `OtaCommitProofs` | theorems about its end, on top of those: what the host is told, the trial and the commit | |
| `ConnParam`, `ConnHandler` | the functions of `conn_param_update.c` and of the connection and advertisement handlers, as operators on their data | an interval is its number; durations are left out, the order of timers is free |
| `Bridge` | the hub as a bridge: connections, adverts, bearers, parameters, the start of an upgrade | reads and writes of a host are one action |
| `BridgeProofs` | theorems about `Bridge` | |
| `MCUartTx`, `MCUartRx`, `MCGroupReport`, `MCMeshStore`, `MCOtaUpdate`, `MCBridge` | instances for TLC | |

### UartTx

`u_queue`, `g_writePtr`, `g_readPtr`, `gotTxAckFromESP` and `prevTXBuff` are the code's.
`ackTimer` is "`tId_UART_TX_ACK` is a running timer"; `loopTimer`, `loopPulse` and
`assocPulse` are the other timers the code takes; `others` counts those of the rest of
the application, and `Free` what the pool has left. `put`, `got`, `cur`, `out`,
`overrun`, `refused` are history: they number packets and remember that the writer
lapped the reader or that `TimerCreate` failed.

`mainUartTxHandler` is the disjunction of its three outcomes. A transmission takes its
timers in the code's order (pulse, timeout, loop), so a pool with one or two left
refuses the later ones: the link then waits without a timeout, or stops. The gateway
and the wire are external: a frame arrives or is lost, an edge comes back or is lost,
`MaxAcks` edges may be under way, and with `PromptAcks` none outlives the timeout.

Assumptions about time, all from constants of the code: a frame of 15 bytes at 230
kbaud is shorter than 1 ms and the pulse lasts 25 ms, so both are over when the loop
runs 50 ms later. The pin event is on the rising edge only (`iot_hw.c:373`). The
gateway does not acknowledge the association frame, which is 14 bytes long.

### UartRx

The callback is `appUserReadIndCallback(b)`: one disjunct per branch that stores the
byte, each followed by one of the outcomes of the rest of the callback. `packetRX =
LEN - 1` is the code's test for 14 of 15 bytes; the checksum it is compared with is
what `DataRX` holds in its last place *then*. The gateway sends a frame, waits for the
answer and sends it again if there was none; a byte may be lost or damaged; a command
may reset the chip, which forgets everything and is deaf for a while.

### GroupReport

Each event fills its record; a group report whose id repeats the last one schedules
nothing. `calls` is the number of running timers of `Group_Set_UartTxHandler`. The
packet takes what the last set record says (`Reports`), as in the code.

### MeshStore

A handler changes RAM and puts its writes in `todo`; `Nvm_Write` performs one; nothing
else happens until `todo` is empty, except a `Restart`, which drops it. The stack's
network keys are the item "network". The start is three steps: the store is opened and
its sanity word checked, `readPersistentStore`, the rest of `AppMeshInit`.

### The upgrade: OtaLink, OtaServer, OtaClient, OtaUpdate

Two hubs: one relays the image it runs to another. A hub is built as client and server;
the relay is in the Debug build only (`GAIA_OTAU_RELAY_SUPPORT`), and a phone speaks the
same protocol with a Release hub, which is why the user's abort and refusal are here.

`up` is the write under way, `tx` the server's notifications: those on their way (`q`),
the one kept because the firmware had no buffer (`held`), buffers `used`, and `done`
when the firmware has said that it has one again. A server action is a command the
server takes (`Takes`), confirmed first and, if it is a control command, acknowledged
(`Acked`). `fw` is the sequence of store requests the firmware has not confirmed;
`Confirmed` takes its head, does it and does what the server's handler of the
confirmation does. What the code requests while handling another confirmation comes
behind (`Then`). `dev` is the server's RAM, and `Booted` what a reset makes of it.

`cl` is the client's RAM; `wr` its one write and the one kept for later. Every client
action takes the head of `tx.q` and writes the answer of the code's handler for it.
`OtaUpdate` composes both, and adds what only the two sides together know: a connection
that ends is noticed by both (`Disconnect`), each with all its handlers; a restart of
either hub ends it. `told` and `cut` are history: what the host has been told, and
whether the server restarted unasked.

Two panics are actions of the server because the upgrade meets them: a store erased
with nobody connected (`EraseUnattended`), and a write that arrives while the hub hangs
up (`WriteWhileClosing`). Both end in a reset.

### ConnParam, ConnHandler, Bridge

The data of both modules is the record `app`. `cp.tid` is the timer the parameter module
knows of, and `cp.stray` counts running timers it has overwritten the id of. The
operators are the code's functions; `Bridge` has the events. `stored` is the bearer
state in NVM, `applied` what the stack has been given. `bridge` is the CS user key's
bit that says what RemoveAssociation does with the GATT bearer. `panic` records which
check of the code failed; the reset that follows is a start like that of a power cycle,
and a behaviour ends there.

Nothing is assumed of host and mesh but what the stack enforces (one parameter request
unanswered at a time, no access without a connection). `cp.req` is the interval the host
has been asked for. When the connection ends, the code takes nothing back: the request
becomes one of `cp.late`, whose answer may come at any later time and is handled like
any other (`LateRefusal`; that a late request was accepted changes nothing). A bearer
event comes to connected, free and idle hubs alike.

## 3. Runs

| Run | Shows | Bounds |
|---|---|---|
| `UartTx_prompt` | refinement of `PacketStream` with liveness; SUCCESS means received; four spare timers suffice; the inductive invariant | 3 slots, 7 packets: the ring wraps twice and overruns |
| `UartTx_late` | with late edges and a pool one timer short: never backwards, in turn unless overrun, waits only with a timeout, everything transmitted in the end | 3 slots, 6 packets, 2 edges under way |
| `UartRx_link` | in step without faults; second try succeeds; back in step after faults | 4 bytes of 5 values, 12 frames of every kind, 2 faults |
| `UartRx_resync` | *violated*: not back in step with header values among the data | 2 such frames, 1 lost byte |
| `UartRx_early` | *violated*: a damaged frame is executed | 1 fault |
| `GroupReport_reports` | packets bounded, three repetitions, reports get out unless hidden | 4 events, 3 ids, pool of 4 with 1 taken by others |
| `MeshStore_power` | store and RAM agree, defaults are complete, an unassociated hub advertises; without cut handlers network, state and groups agree | 3 restarts, 2 firmware versions |
| `MeshStore_sanity` | *violated*: first start cut short leaves a store that passes for complete | 1 restart |
| `OtaUpdate_relay` | the store that boots is whole, what is tried is verified, a trial is guarded, the host is told the truth, both sides count the same packets, the mesh runs again, the upgrade ends; refinement of `TwoStage` | 2 chunks, 2 packets of signature, 1 buffer, 3 connections, 1 fault; 24,144 states |
| `OtaUpdate_early` | *violated*: an upgrade is let begin before the configuration store has been read | 1 connection, no fault |
| `Bridge_host` | bearers restored, a hub that can be found stays so, what can take the application out of a connection, an upgrade waiting for parameters answered | 2 connections, 3 events, a fast and a slow interval; 1,687,995 states |
| `Bridge_refused` | *violated*: a request for parameters that has no device resets the hub | 1 connection, no event |

Why the bounds are enough: a ring of three slots has a full, an empty and a wrapped
state, and the proofs are for any size; four bytes are a header, a command, data and a
checksum; a second fault can hit the recovery from the first; four events are two
overlapping repetitions and two more that restart them; with three restarts one can
hit the recovery from another's cut, and the third what follows. Two chunks and two
packets of signature have a first and a last one; one buffer makes every second
notification wait; the three connections are that of the transfer, that of the commit
and one after a fault in either. Two connections show what the first leaves to the
second, such as the late answer to a request, and three events are what the worst case
needs: the bearer turned on while the hub is idle, turned off while it is connected, and
the connection lost.

### Assumptions that are parameters

Some hazards are real and outside what the code can promise. The modules have them as
constants, so that a run states what is assumed, and one can see what happens without:

| Constant | Assumes | Without it |
|---|---|---|
| `PromptAcks` (UartTx) | no edge outlives the 500 ms timeout | `SuccessMeansReceived` fails; `UartTx_late` has the rest |
| `Prompt` (OtaUpdate) | the firmware has done what it was asked before the next connection | an upgrade may begin before the configuration store has been read and erase the running application, and a hash of an interrupted transfer may enter the sum of the next: `CommittedIsBootable`, `TrialIsVerified`, `PieceInStep`, `TypeOK` and `CompleteMeansCommitted` fail; `MeshRunsWhenApart` holds anyway |

`CHECK_DEADLOCK FALSE` is set where a bound on packets or events ends the behaviour.

### Fairness

`UartTx`: running timers expire (weak fairness of the loop, the timeout and the pulse);
the link is lossy but not dead (strong fairness of an arrival and of an edge noticed
while waited for). `UartRx`: the gateway goes on sending and retrying, timers expire,
the chip comes up again. `GroupReport`: timers expire. `MeshStore`: handlers run to
their end when power stays, and the stack reports the end of an association it started.
`OtaUpdate`: each side acts on what it has received, the firmware confirms, a kept
notification is sent again, a disconnection asked for happens, the retries of the
reconnection end, the commit timer fires; faults and connections need not come.
`Bridge`: timers fire, a disconnection asked for happens, and the host answers each
request of the connection, one way or the other; the late answer to one of a former
connection need not come. Nothing is assumed of events that need not come.

### What the violations show

* `UartRx_resync`: after a lost byte the hub takes a data byte for a header. With such
  a byte at the same place of every retry it stays out of step for good. The comment
  at `main_app.c:494` says the problem with such bytes is fixed; it is only while
  nothing is lost.
* `UartRx_early`: `packetRX` is already the number of bytes, not an index, so the test
  at `main_app.c:455` is one byte early. A frame is checked against the checksum of
  the frame before: a good one is answered on its second try (`SecondTrySucceeds`), a
  damaged one may be executed.
* `MeshStore_sanity`: `nvmReadSanity` (`nvm_access.c:165`) writes the word that
  `app_mesh_handler.c:621` wants written last.
* `OtaUpdate_early`: the state meant to refuse a host until the configuration store has
  been read (`gaia_otau.c:1255`, "assume failure") is overwritten by the `SYNC_REQ` that
  opens every upgrade.
* `Bridge_refused`: a `SYNC_REQ` over a fast connection calls `StopConnParamsUpdate`
  while a request is unanswered. The refusal arms the module's timers again, and the
  request they lead to is for no device: `HALConnectionParamUpdateReq` panics in
  `CMGetConnId` (`cm_private.c:848`), where `cm_hal.c:1425` promises `cm_status_failed`,
  and the hub restarts in the middle of the upgrade. A refusal that comes after the
  connection does the same.

More, not given runs of their own: `RemoveAssociation` removes the network before
it stores the association state, so a power loss in between leaves a hub that takes
itself for associated (the reason for `~cut` in `AssociatedHasNetwork`); and a change
of the NVM version turns promiscuous mode back on in an associated hub
(`app_mesh_handler.c:685-691`). A power cut of a hub on trial boots the old application
at the resume point of the new one; it goes through the commit and tells the host that
the upgrade is complete (the reason for `~cut` in `CompleteMeansCommitted`).
`RequestConnParamsUpdateOnce` asks twice for each set, not once as its comment says
(`conn_param_update.c:487`).

Once a battery report came, group reports no longer get out: `Group_Set_UartTxHandler`
(`ONESECOND.c:325-351`) fills the packet from each record whose opcode is set, the
battery's last, and no code clears an opcode, although every mesh opcode received is to
be passed on (`extension_model_handler.c:139`). `EventuallyReported` exempts such a
report as `Hidden`.

`Bridge` has three more ways to go wrong, which its properties delimit. A hub whose GATT
bearer is off is idle; if the mesh turns the bearer on again (`core_mesh_handler.c:233`)
it sends adverts but stays in state idle, so that a connection does not stop the advert
timer, although `advertisement_handler.c:387` speaks of a device that is not connected.
If the mesh then turns the bearer off, the timer makes the connected application idle,
and the end of the connection panics: `ConnectedUntilAdvert` says that this is the only
way. `RemoveAssociation` of an idle hub turns the bearer on and sends no advert, so the
hub stays silent until the mesh or a restart wakes it: `StaysFindable` says that this is
the only way. And a read or write that arrives while the hub hangs up finds the device
in a state in which the connection manager panics (`cm_server.c:250`).

## 4. Proofs

`UartTxProofs` proves for every ring size, pool, number of packets and edges:
`TypeCorrect`, `TimersCorrect`, `PinReleasedCorrect`, `HeadroomCorrect`,
`TransmitsInTurnCorrect`, `SuccessMeansReceivedCorrect`, `NeverBackwardsCorrect` and
`ImplementsStream`. None of these invariants is inductive.
The strengthening `IInv` adds: what each slot holds as a function of the write pointer
and the number of packets queued (`RingOK`); that the packet last sent came from the
slot behind the read pointer (`SentOK`), without which a retransmission could be of
anything; that without overrun the pointers' distance is the backlog (`BacklogOK`);
that with a prompt gateway at most one answer is under way and stands for the packet
last sent (`LinkOK`); and which timers can be running together (`TimersOK`). Each step
has a lemma. `ImplementsStream` follows: a queued packet is `Put`, an arrival is a
delivery of the next packet, a repeated one (a stutter) or, past a limit, a later one.

`GroupReportProofs` proves `TypeCorrect`, `PacketsBoundedCorrect` and
`GroupThreeTimesCorrect` for every set of ids, pool and number of events. The
strengthening is `Counted`: a count at or below 2 has that many packets behind it and
a call to continue it, a count of 50 has three.

`UartRxProofs` proves `TypeCorrect`, `AssemblyInStep` and `AnsweredBySecondTry` for
every frame length and set of byte values. The strengthening says that a frame is being
assembled exactly when its header has been seen (`Filling`), that the bytes still
needed outlast the answer pulse (`OnePulse`), and that on a second try the checksum of
the first is in its place (`SecondTry`).

`MeshStoreProofs` proves all the safety invariants of `MeshStore` for every number of
restarts and versions. They are about the store at rest, and are proved of the store
that the pending writes lead to: `Ends(s, i, v, w)` says that the writes `s` take item
`i` from `v` to `w`. `Versioned` orders the version behind the defaults, `Mirrored` ties
what will be stored to RAM, and `Clean` to the network as long as nothing was cut.

`BridgeProofs` proves for every set of intervals and number of connections and events,
without any assumption about host and mesh: `TypeCorrect`, `BearersAreRight`,
`StaysFindableCorrect` and `ConnectedUntilAdvertCorrect`. None is inductive alone: that
the bearers are put off while a host is connected depends on the application knowing its
device. `Agree` says as much as always holds between application and connection manager:
a free hub has no device and advertises if its state says so, and a connected one has its
device even when the advert timer has made it idle. A panic ends that, but not `Link`,
which keeps the bearers right there, too.

`OtaUpdateProofs` proves for every file, number of buffers, connections and faults, from
`Prompt`: `BootsWhole`, `TriesVerified` and `ImplementsTwoStages`, the refinement of
`TwoStage`; and without it `MeshResumes`. The server alone would not keep
them if commands came in another order: a commit twice, say, erases the running
application. So the invariant (`UpgradeInOrder`) is about both sides and the link:

* `Apart`: without a connection nothing is under way and nobody waits;
* `Client`: which of the commands that must not be repeated are under way or can still
  come, and that the packets of the file come in order;
* `Flash`: an old application is the committed one and all requests are for the other
  store; a new one never passes the version test, the old one stays whole until the
  commit, and one request at most is out;
* `Transfer`: a transfer has been given up, has not erased yet, is writing, or has been
  written and is being hashed, each with what the server's parser and the firmware's
  requests then are; a valid signature needs a complete store;
* `Opening`, `Stale`: how a connection starts, and why a completion kept since an
  earlier one is not taken for one of this: it comes before the first answer.

Each action has a lemma that it keeps all six.

`OtaTransferProofs` adds, from `Prompt`: `TransferInStep`, `PacketsInStep`
(`PieceInStep`) and `UpgradeTypes` (`TypeOK`, whose bound on a store needs that no chunk
is written twice). Neither side numbers its packets: what keeps them in step is that one
thing at a time entitles the client to the next one. So the invariant (`TInv`) says

* of the client, that a request out, an answer under way and a packet sent exclude one
  another (`Turn`), and what it has sent and what the parser waits for (`Sent`, `Acks`,
  `Controls`);
* of the link, that acknowledgements and confirmations come in the order of their
  requests, two at most for one (`Buffered`, `Twos`), and what may be left of an earlier
  connection (`OldNotes`);
* of the server, that a commit resets the parser only when nothing is handed out
  (`Committing`), and what the firmware has yet to write (`Work`).

`OtaCommitProofs` adds, from `Prompt`: `CommitsAsTold` (`CompleteMeansCommitted`) and
`TrialsGuarded` (`TrialGuarded`, after at most one fault). Both are about the second
connection of an upgrade, and the server forgets what it has sent, the host what it has
heard. What ties them is the resume point in NVM, which survives both. The invariant
(`CInv`, theorem `UpgradeHonest`) says

* of the resume point, that it is "post" only of a trial that runs or will be booted,
  unless a restart came in between (`Trying`), and "start" while a commit is with the
  firmware (`Running`);
* of the notifications, that each is true whenever it arrives (`Honest`); that what an
  earlier connection left comes before the first answer of this one (`OldAnswers`); and
  that no write is confirmed twice, so the client's kept packet is not lost (`Confirming`);
* of the host, that it asks for what it was told it may ask for (`Asked`), and that once
  told of a commit that is not done yet it is on its way out and cannot abort it (`Truth`);
* of the server, that what it has verified is of this upgrade (`Loaded`), and that after
  one fault an old application with a commit timer, or at the resume point of a trial
  that was cut, is led through a commit and not through another transfer (`Guarding`).

The assumptions are those named in the modules (`RingAssumption`: at least two slots;
`TimerAssumption`, `TidAssumption`, `SoundAssumption`, `OtaLinkAssumption`,
`BridgeAssumption`, ...); TLC evaluates them in the runs.

Model-checked only: everything temporal with fairness (`StreamSpec`'s liveness,
`EventuallyTransmitted`, `EventuallyAnswered`, `EventuallyReported`, `StaysReachable`,
`UpgradeEnds`, `UpgradeAnswered`), which is beyond the prover.

`TrialsGuarded` is about one fault, as the run is. Two break the property: a power cut of the trial leaves
the old application at the resume point of the new one with the commit timer armed; the
user aborts, which does not stop the timer; a new transfer is verified, and the timer of
the old one resets the hub into the new application without a resume point, hence
without a timer.

## 5. Not modelled

* The rest of the gateway's commands: the filters of `ProcessRxData`, the mesh requests
  it makes and the forwarding of data messages. Each is a mapping of one frame to one
  call of the mesh stack, which is not in the repository; what the UART side owes them
  is in `UartRx` and `UartTx`.
* The connection manager's service discovery, bonding and white list, the scanning of
  the relay and its announcements over the mesh: the relay's upgrade is modelled from
  the connection on.
* The mesh control service, whose reassembly of a message in two parts outlives the
  connection, and the GATT service's service-changed indication.
* The radio scheduler that `Nvm_Write` and an upgrade turn off and on.
* `UartTx` and `GroupReport` on one ring and one pool: each has the other as demand for
  packets and timers (`others`).
* Within the handlers: that the pool refuses the timer of `PIN_CSR_ACK`'s pulse
  (`main_app.c:462`), which would leave the pin high; a start of the mesh stack that
  fails (`app_mesh_handler.c:779-828`); a store request that fails while nobody is
  connected, which panics like the erasure that is modelled; the model id a group is set
  for: the groups are one value.
* Left out for good: pin and register drivers, the models compiled out (only
  `ENABLE_EXTENSION_MODEL` is defined), the UART byte queue nobody calls, and the
  vendored stack, whose events the models take as inputs.
