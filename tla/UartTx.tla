------------------------------- MODULE UartTx -------------------------------
(***************************************************************************)
(* The transmit side of the UART link from the CSR1024 (the hub) to the    *)
(* ESP32 (the gateway): the ring of packets the mesh handlers fill          *)
(* (uart_queue.c), the stop-and-wait loop that empties it (ONESECOND.c)     *)
(* and the acknowledgement pin (app_hw.c).                                  *)
(*                                                                         *)
(* The firmware calls one handler at a time and runs it to completion, so   *)
(* each handler is one action.  A packet is the number of the call that     *)
(* queued it; a pointer into u_queue is the index of its slot.              *)
(***************************************************************************)
EXTENDS Integers

CONSTANTS
    PACKET_TOTAL_NUMBER,   \* slots of the packet ring
    MAX_APP_TIMERS,        \* timers the application's pool holds
    OtherMax,              \* bound: timers the rest of the application holds
    MaxPackets,            \* bound: packets queued in one behaviour
    MaxAcks,               \* bound: acknowledgement edges under way
    PromptAcks             \* the gateway's answer takes less than 500 ms

ASSUME RingAssumption == PACKET_TOTAL_NUMBER \in Nat /\ PACKET_TOTAL_NUMBER >= 2
ASSUME TimerAssumption == MAX_APP_TIMERS \in Nat \ {0} /\ OtherMax \in Nat
ASSUME BoundAssumption == MaxPackets \in Nat /\ MaxAcks \in Nat \ {0}
ASSUME AckAssumption == PromptAcks \in BOOLEAN

READY   == 0
SUCCESS == 1
TIMEOUT == 2
WAITING == 3

VARIABLES
    u_queue,           \* packet held by each slot, 0 if never written
    g_writePtr,        \* slot written next
    g_readPtr,         \* slot read next
    gotTxAckFromESP,   \* state of the packet last transmitted
    prevTXBuff,        \* slot of the packet last transmitted
    loopTimer,         \* a call of mainUartTxHandler is scheduled
    ackTimer,          \* tId_UART_TX_ACK is a running timer
    loopPulse,         \* the loop's timer that lowers PIN_TX_FLAG is running
    assocPulse,        \* and that of AppHandleAssociationComplete
    pinTx,             \* level of PIN_TX_FLAG
    others,            \* timers held by the rest of the application
    wire,              \* packet on its way to the gateway, 0 if none
    acks,              \* rising edges of PIN_ESP_ACK on their way back
    put, got,          \* packets queued, packets taken from the ring
    cur, out,          \* packet last transmitted, newest packet received
    overrun,           \* the writer has lapped the reader
    refused            \* TimerCreate has returned TIMER_INVALID

ring  == <<u_queue, g_writePtr, g_readPtr>>
timer == <<loopTimer, ackTimer, loopPulse, assocPulse, others, refused>>
link  == <<wire, acks, out>>
vars  == <<ring, gotTxAckFromESP, prevTXBuff, timer, pinTx, link, put, got, cur, overrun>>

Slot    == 0 .. PACKET_TOTAL_NUMBER - 1
\* Mutant of Advance: wraps one slot too late.
AdvanceTooFar(p) == IF p + 1 > PACKET_TOTAL_NUMBER THEN 0 ELSE p + 1

\* A slot pointer advanced by one packet, wrapped at the end of u_queue.
Advance(p) == IF p + 1 >= PACKET_TOTAL_NUMBER THEN 0 ELSE p + 1

\* Timers of the pool that are free.
One(running) == IF running THEN 1 ELSE 0
Free == MAX_APP_TIMERS
        - (others + One(loopTimer) + One(ackTimer) + One(loopPulse) + One(assocPulse))

Init ==
    /\ u_queue = [s \in Slot |-> 0]
    /\ g_writePtr = 0 /\ g_readPtr = 0
    /\ gotTxAckFromESP = READY
    /\ prevTXBuff = 0
    /\ loopTimer = TRUE          \* AppInit arms the loop on an empty pool
    /\ ackTimer = FALSE /\ loopPulse = FALSE /\ assocPulse = FALSE
    /\ pinTx = 0
    /\ others = 0
    /\ wire = 0 /\ acks = 0
    /\ put = 0 /\ got = 0 /\ cur = 0 /\ out = 0
    /\ overrun = FALSE /\ refused = FALSE

-----------------------------------------------------------------------------
\* Mutant: the pointer is advanced before the packet is written.
copyAfterAdvance ==
    /\ put < MaxPackets
    /\ u_queue' = [u_queue EXCEPT ![Advance(g_writePtr)] = put + 1]
    /\ g_writePtr' = Advance(g_writePtr)
    /\ put' = put + 1
    /\ overrun' = (overrun \/ Advance(g_writePtr) = g_readPtr)
    /\ UNCHANGED <<g_readPtr, gotTxAckFromESP, prevTXBuff, timer, pinTx, link, got, cur>>

\* A handler queues a packet.  Nothing checks that the ring has room: a write
\* that brings the write pointer onto the read pointer makes it look empty.
copyToTXPacketBuffer ==
    /\ put < MaxPackets
    /\ u_queue' = [u_queue EXCEPT ![g_writePtr] = put + 1]
    /\ g_writePtr' = Advance(g_writePtr)
    /\ put' = put + 1
    /\ overrun' = (overrun \/ Advance(g_writePtr) = g_readPtr)
    /\ UNCHANGED <<g_readPtr, gotTxAckFromESP, prevTXBuff, timer, pinTx, link, got, cur>>

\* The loop's 50 ms timer expires.  A frame is on the wire for less than 1 ms
\* and a pulse lasts 25 ms, so those of the previous call are over by then.
LoopFires == loopTimer /\ wire = 0 /\ ~loopPulse

\* Transmit the packet in slot s: sendTxData, createUartTxAckTimeout, and the
\* loop's own timer, in this order.  The timer that has just expired is free
\* again; the results of the three TimerCreate calls are not looked at.
SendAndWait(s) ==
    LET free == Free + 1 IN
    /\ prevTXBuff' = s
    /\ gotTxAckFromESP' = WAITING
    /\ pinTx' = 1
    /\ wire' = u_queue[s]
    /\ cur' = u_queue[s]
    /\ loopPulse' = (free >= 1)
    /\ ackTimer' = (free >= 2)
    /\ loopTimer' = (free >= 3)
    /\ refused' = (refused \/ free < 3)
    /\ UNCHANGED <<u_queue, g_writePtr, assocPulse, others, acks, out, put, overrun>>

\* Mutant of SendNext: a packet that timed out is not sent again.
SendNextAfterTimeout ==
    /\ LoopFires
    /\ gotTxAckFromESP \in {READY, SUCCESS, TIMEOUT}
    /\ g_readPtr # g_writePtr
    /\ SendAndWait(g_readPtr)
    /\ g_readPtr' = Advance(g_readPtr)
    /\ got' = got + 1

\* mainUartTxHandler, previous packet done with, another one in the ring.
SendNext ==
    /\ LoopFires
    /\ gotTxAckFromESP \in {READY, SUCCESS}
    /\ g_readPtr # g_writePtr
    /\ SendAndWait(g_readPtr)
    /\ g_readPtr' = Advance(g_readPtr)
    /\ got' = got + 1

\* Mutant of Resend: the slot at the read pointer is sent, not prevTXBuff.
ResendAtReadPtr ==
    /\ LoopFires
    /\ gotTxAckFromESP = TIMEOUT
    /\ SendAndWait(g_readPtr)
    /\ UNCHANGED <<g_readPtr, got>>

\* mainUartTxHandler, no acknowledgement within the timeout.
Resend ==
    /\ LoopFires
    /\ gotTxAckFromESP = TIMEOUT
    /\ SendAndWait(prevTXBuff)
    /\ UNCHANGED <<g_readPtr, got>>

\* Mutant of Idle: returns without arming the next call.
IdleForever ==
    /\ LoopFires
    /\ \/ gotTxAckFromESP = WAITING
       \/ gotTxAckFromESP \in {READY, SUCCESS} /\ g_readPtr = g_writePtr
    /\ loopTimer' = FALSE
    /\ UNCHANGED <<ring, gotTxAckFromESP, prevTXBuff, ackTimer, loopPulse, assocPulse,
                   others, refused, pinTx, link, put, got, cur, overrun>>

\* mainUartTxHandler with nothing to do: it only re-arms itself, with the
\* timer that has just expired.
Idle ==
    /\ LoopFires
    /\ \/ gotTxAckFromESP = WAITING
       \/ gotTxAckFromESP \in {READY, SUCCESS} /\ g_readPtr = g_writePtr
    /\ loopTimer' = (Free + 1 >= 1)
    /\ refused' = (refused \/ Free + 1 < 1)
    /\ UNCHANGED <<ring, gotTxAckFromESP, prevTXBuff, ackTimer, loopPulse, assocPulse,
                   others, pinTx, link, put, got, cur, overrun>>

mainUartTxHandler == SendNext \/ Resend \/ Idle

\* Mutants of timerCallbackWaitUartTxAck: it leaves the packet's state as it is,
\* or takes the packet for received.
TimeoutUnnoticed ==
    /\ ackTimer
    /\ wire = 0
    /\ PromptAcks => acks = 0
    /\ ackTimer' = FALSE
    /\ UNCHANGED <<ring, gotTxAckFromESP, prevTXBuff, loopTimer, loopPulse, assocPulse, others,
                   refused, pinTx, link, put, got, cur, overrun>>

TimeoutIsSuccess ==
    /\ ackTimer
    /\ wire = 0
    /\ PromptAcks => acks = 0
    /\ gotTxAckFromESP' = SUCCESS
    /\ ackTimer' = FALSE
    /\ UNCHANGED <<ring, prevTXBuff, loopTimer, loopPulse, assocPulse, others, refused,
                   pinTx, link, put, got, cur, overrun>>

\* No acknowledgement within 500 ms: the frame has left the wire long before,
\* and with a prompt gateway no edge is under way either.
timerCallbackWaitUartTxAck ==
    /\ ackTimer
    /\ wire = 0
    /\ PromptAcks => acks = 0
    /\ gotTxAckFromESP' = TIMEOUT
    /\ ackTimer' = FALSE
    /\ UNCHANGED <<ring, prevTXBuff, loopTimer, loopPulse, assocPulse, others, refused,
                   pinTx, link, put, got, cur, overrun>>

\* Mutant of HandlePIOChangedEvent: the timeout keeps running.
AckKeepsTimeout ==
    /\ acks > 0
    /\ acks' = acks - 1
    /\ gotTxAckFromESP' = IF ackTimer THEN SUCCESS ELSE gotTxAckFromESP
    /\ UNCHANGED <<ring, prevTXBuff, timer, pinTx, wire, out, put, got, cur, overrun>>

\* A rising edge of PIN_ESP_ACK: it counts only while the timeout is running.
HandlePIOChangedEvent ==
    /\ acks > 0
    /\ acks' = acks - 1
    /\ IF ackTimer
         THEN ackTimer' = FALSE /\ gotTxAckFromESP' = SUCCESS
         ELSE UNCHANGED <<ackTimer, gotTxAckFromESP>>
    /\ UNCHANGED <<ring, prevTXBuff, loopTimer, loopPulse, assocPulse, others, refused,
                   pinTx, wire, out, put, got, cur, overrun>>

\* timerCallbackUartTxedPinToLow: the 25 ms timer of a transmission expires,
\* PIN_TX_FLAG goes low.  One action for each of the timers it is given to.
LoopPulseExpires ==
    /\ loopPulse
    /\ loopPulse' = FALSE
    /\ pinTx' = 0
    /\ UNCHANGED <<ring, gotTxAckFromESP, prevTXBuff, loopTimer, ackTimer, assocPulse, others,
                   refused, link, put, got, cur, overrun>>

AssocPulseExpires ==
    /\ assocPulse
    /\ assocPulse' = FALSE
    /\ pinTx' = 0
    /\ UNCHANGED <<ring, gotTxAckFromESP, prevTXBuff, loopTimer, ackTimer, loopPulse, others,
                   refused, link, put, got, cur, overrun>>

timerCallbackUartTxedPinToLow == LoopPulseExpires \/ AssocPulseExpires

\* Mutant of AppHandleAssociationComplete: no timer lowers PIN_TX_FLAG.
AssociationLeavesPinHigh ==
    /\ ~assocPulse
    /\ pinTx' = 1
    /\ UNCHANGED <<ring, gotTxAckFromESP, prevTXBuff, timer, link, put, got, cur, overrun>>

\* Association completes: a frame of its own is sent past the ring and the
\* acknowledgement; two associations are seconds apart.
AppHandleAssociationComplete ==
    /\ ~assocPulse
    /\ pinTx' = 1
    /\ assocPulse' = (Free >= 1)
    /\ refused' = (refused \/ Free < 1)
    /\ UNCHANGED <<ring, gotTxAckFromESP, prevTXBuff, loopTimer, ackTimer, loopPulse, others,
                   link, put, got, cur, overrun>>

\* The rest of the application takes and returns timers of the pool.
OtherTimerCreate ==
    /\ others < OtherMax /\ Free >= 1
    /\ others' = others + 1
    /\ UNCHANGED <<ring, gotTxAckFromESP, prevTXBuff, loopTimer, ackTimer, loopPulse, assocPulse,
                   refused, pinTx, link, put, got, cur, overrun>>

OtherTimerExpires ==
    /\ others > 0
    /\ others' = others - 1
    /\ UNCHANGED <<ring, gotTxAckFromESP, prevTXBuff, loopTimer, ackTimer, loopPulse, assocPulse,
                   refused, pinTx, link, put, got, cur, overrun>>

-----------------------------------------------------------------------------
\* The gateway.  It raises PIN_ESP_ACK for a packet whose checksum is right;
\* beyond MaxAcks the pin is still high and there is no new edge.
EspReceive ==
    /\ wire # 0
    /\ out' = wire
    /\ wire' = 0
    /\ acks' = IF acks < MaxAcks THEN acks + 1 ELSE acks
    /\ UNCHANGED <<ring, gotTxAckFromESP, prevTXBuff, timer, pinTx, put, got, cur, overrun>>

\* A packet arrives damaged, or an edge is missed.
LoseFrame ==
    /\ wire # 0
    /\ wire' = 0
    /\ UNCHANGED <<ring, gotTxAckFromESP, prevTXBuff, timer, pinTx, acks, out, put, got, cur, overrun>>

LoseAck ==
    /\ acks > 0
    /\ acks' = acks - 1
    /\ UNCHANGED <<ring, gotTxAckFromESP, prevTXBuff, timer, pinTx, wire, out, put, got, cur, overrun>>

Next ==
    \/ copyToTXPacketBuffer
    \/ mainUartTxHandler
    \/ timerCallbackWaitUartTxAck
    \/ HandlePIOChangedEvent
    \/ timerCallbackUartTxedPinToLow
    \/ AppHandleAssociationComplete
    \/ OtherTimerCreate
    \/ OtherTimerExpires
    \/ EspReceive
    \/ LoseFrame
    \/ LoseAck

Spec == Init /\ [][Next]_vars

\* Timers that run expire.  The link is lossy but not dead: a packet
\* transmitted again and again gets through, and so does an edge that comes
\* back while the hub waits for it.
Fairness ==
    /\ WF_vars(mainUartTxHandler)
    /\ WF_vars(timerCallbackWaitUartTxAck)
    /\ WF_vars(LoopPulseExpires)
    /\ SF_vars(EspReceive)
    /\ SF_vars(ackTimer /\ HandlePIOChangedEvent)

FairSpec == Spec /\ Fairness

-----------------------------------------------------------------------------
\* The type invariant: what each variable ranges over.
TypeOK ==
    /\ u_queue \in [Slot -> Nat]
    /\ g_writePtr \in Slot /\ g_readPtr \in Slot /\ prevTXBuff \in Slot
    /\ gotTxAckFromESP \in {READY, SUCCESS, TIMEOUT, WAITING}
    /\ loopTimer \in BOOLEAN /\ ackTimer \in BOOLEAN
    /\ loopPulse \in BOOLEAN /\ assocPulse \in BOOLEAN
    /\ pinTx \in {0, 1}
    /\ others \in 0 .. OtherMax
    /\ wire \in Nat /\ acks \in 0 .. MaxAcks
    /\ put \in Nat /\ got \in Nat /\ cur \in Nat /\ out \in Nat
    /\ overrun \in BOOLEAN /\ refused \in BOOLEAN

\* The link cannot get stuck waiting, nor give up waiting early: the state is
\* WAITING exactly while the acknowledgement timeout runs, across expiries,
\* edges and retransmissions in any order, unless the pool refused a timer.
WaitingIsTimed == ~refused => (gotTxAckFromESP = WAITING <=> ackTimer)

\* mainUartTxHandler keeps itself alive, unless the pool refused a timer.
LoopAlive == ~refused => loopTimer

\* Four timers over what the rest of the application holds are enough for the
\* UART code never to be refused one, in any overlap of its uses.
HeadroomSuffices == OtherMax + 4 <= MAX_APP_TIMERS => ~refused

\* PIN_TX_FLAG high means that a timer that lowers it is running, even when the
\* loop and the association frame overlap their pulses.
PinReleased == ~refused /\ pinTx = 1 => loopPulse \/ assocPulse

\* The acknowledgement edges carry no packet number.  With a prompt gateway one
\* nevertheless stands for the packet last transmitted, so SUCCESS, which lets
\* the loop move on, means that the gateway has that packet.
SuccessMeansReceived ==
    PromptAcks /\ (gotTxAckFromESP = SUCCESS \/ acks > 0) => out = cur

\* Without overrun the packet transmitted, the first time or again from its
\* slot behind the read pointer, is the oldest the link is not done with: the
\* slot has not been reused under the retransmission.
TransmitsInTurn ==
    ~overrun => cur = got /\ (gotTxAckFromESP \in {TIMEOUT, WAITING} => u_queue[prevTXBuff] = got)

\* Not even overrun, late edges or retransmission from an overwritten slot
\* make the link transmit or the gateway receive an older packet again after a
\* newer one.
NeverBackwards == [][cur' >= cur /\ out' >= out]_vars

\* The link is an implementation of the packet stream it promises: its steps
\* queue a packet, deliver the next one, or leave the stream as it is.
Stream == INSTANCE PacketStream WITH Slots <- PACKET_TOTAL_NUMBER
StreamSafety == Stream!Safety

\* With its liveness: what is queued without overrun reaches the gateway.
StreamSpec == Stream!Spec

\* Whatever the delay of the edges, every packet queued is transmitted in the
\* end, unless the ring overruns or the pool refused a timer.
EventuallyTransmitted ==
    \A p \in 1 .. MaxPackets : put >= p ~> (cur >= p \/ overrun \/ refused)

-----------------------------------------------------------------------------
(***************************************************************************)
(* The inductive invariant, part by part.                                  *)
(***************************************************************************)
Behind(p) == IF p = 0 THEN PACKET_TOTAL_NUMBER - 1 ELSE p - 1

\* Read from the write pointer on, the ring holds the last packets queued, the
\* oldest first; the slots that were never written hold 0.
RingOK ==
    /\ g_writePtr <= put
    /\ \A s \in Slot :
          u_queue[s] =
            IF s < g_writePtr THEN put - g_writePtr + 1 + s
            ELSE IF put - PACKET_TOTAL_NUMBER - g_writePtr + 1 + s > 0
                 THEN put - PACKET_TOTAL_NUMBER - g_writePtr + 1 + s
                 ELSE 0

\* The packet last transmitted was in the slot behind the read pointer, which
\* now holds that packet or a later one.
SentOK ==
    /\ gotTxAckFromESP = READY => g_readPtr = 0 /\ got = 0 /\ cur = 0
    /\ gotTxAckFromESP # READY =>
          prevTXBuff = Behind(g_readPtr) /\ cur >= 1 /\ cur <= u_queue[prevTXBuff]

\* Until it overruns, the distance between the pointers is the backlog.
BacklogOK ==
    ~overrun =>
      /\ cur = got
      /\ put - got = IF g_readPtr <= g_writePtr THEN g_writePtr - g_readPtr
                     ELSE g_writePtr + PACKET_TOTAL_NUMBER - g_readPtr

\* What is on the wire is the packet last transmitted; with a prompt gateway
\* at most one answer is under way, and it answers that packet.
LinkOK ==
    /\ wire \in {0, cur} /\ out <= cur
    /\ PromptAcks =>
          /\ wire # 0 => gotTxAckFromESP = WAITING /\ acks = 0
          /\ acks > 0 => gotTxAckFromESP = WAITING /\ acks = 1 /\ out = cur
          /\ gotTxAckFromESP = SUCCESS => out = cur
          /\ ~overrun => out >= cur - 1

TimersOK ==
    /\ ackTimer => gotTxAckFromESP = WAITING
    /\ WaitingIsTimed /\ LoopAlive /\ PinReleased /\ HeadroomSuffices

IInv == TypeOK /\ RingOK /\ SentOK /\ BacklogOK /\ LinkOK /\ TimersOK
=============================================================================
