---------------------------- MODULE UartTxProofs ----------------------------
(***************************************************************************)
(* Proofs about UartTx for every ring size, timer pool and bound: the       *)
(* inductive invariant, the safety properties the runs check, and that the  *)
(* link implements the safety of PacketStream.                              *)
(***************************************************************************)
EXTENDS UartTx, TLAPS

USE RingAssumption, TimerAssumption, BoundAssumption, AckAssumption
    DEF RingAssumption, TimerAssumption, BoundAssumption, AckAssumption

-----------------------------------------------------------------------------
(***************************************************************************)
(* Pointers of the ring.                                                    *)
(***************************************************************************)

\* Advancing a slot pointer, and stepping it back, stays inside u_queue and
\* the two are inverse to each other.
LEMMA AdvanceInSlot ==
    ASSUME NEW p \in Slot
    PROVE  /\ Advance(p) \in Slot
           /\ Behind(p) \in Slot
           /\ Behind(Advance(p)) = p
BY DEF Slot, Advance, Behind

\* No slot holds a packet that has not been queued.
LEMMA HoldsQueued ==
    ASSUME TypeOK, RingOK, NEW s \in Slot
    PROVE  u_queue[s] <= put
<1>1. /\ s \in Int /\ 0 <= s /\ s < PACKET_TOTAL_NUMBER
      /\ g_writePtr \in Int /\ 0 <= g_writePtr /\ put \in Nat
  BY DEF Slot, TypeOK
<1>2. u_queue[s] = IF s < g_writePtr THEN put - g_writePtr + 1 + s
                   ELSE IF put - PACKET_TOTAL_NUMBER - g_writePtr + 1 + s > 0
                        THEN put - PACKET_TOTAL_NUMBER - g_writePtr + 1 + s
                        ELSE 0
  BY DEF RingOK
<1>3. QED BY <1>1, <1>2

\* The slot at the read pointer of a ring that does not look empty holds a
\* later packet than the slot behind it; if the ring has not overrun, it holds
\* the packet after the last one taken.
LEMMA NextIsNewer ==
    ASSUME TypeOK, RingOK, SentOK, BacklogOK, g_readPtr # g_writePtr
    PROVE  /\ u_queue[g_readPtr] > cur
           /\ u_queue[g_readPtr] <= put
           /\ ~overrun => u_queue[g_readPtr] = got + 1
<1>1. CASE gotTxAckFromESP = READY
  BY <1>1 DEF TypeOK, Slot, RingOK, SentOK, BacklogOK
<1>2. CASE gotTxAckFromESP # READY
  <2>1. Behind(g_readPtr) \in Slot
    BY AdvanceInSlot DEF TypeOK
  <2>2. /\ g_writePtr \in Slot /\ g_readPtr \in Slot
        /\ put \in Nat /\ got \in Nat /\ cur \in Nat
    BY DEF TypeOK
  <2>3. u_queue[g_readPtr] > u_queue[Behind(g_readPtr)] /\ u_queue[g_readPtr] <= put
    <3>1. CASE g_readPtr = 0
      BY <1>2, <2>1, <2>2, <3>1 DEF Slot, Behind, RingOK, SentOK
    <3>2. CASE g_readPtr # 0
      BY <1>2, <2>1, <2>2, <3>2 DEF Slot, Behind, RingOK, SentOK
    <3>3. QED BY <3>1, <3>2
  <2>4. ~overrun => u_queue[g_readPtr] = got + 1
    BY <2>2 DEF Slot, RingOK, BacklogOK
  <2>5. QED
    <3>1. cur <= u_queue[Behind(g_readPtr)] BY <1>2 DEF SentOK
    <3>2. u_queue[Behind(g_readPtr)] \in Nat /\ u_queue[g_readPtr] \in Nat
      BY <2>1, <2>2 DEF TypeOK
    <3>3. QED BY <2>2, <2>3, <2>4, <3>1, <3>2
<1>3. QED BY <1>1, <1>2

\* Without overrun the slot of the packet being sent still holds that packet.
LEMMA SlotNotReused ==
    ASSUME TypeOK, RingOK, SentOK, BacklogOK, ~overrun, gotTxAckFromESP # READY
    PROVE  u_queue[prevTXBuff] = got
<1>1. Behind(g_readPtr) \in Slot
  BY AdvanceInSlot DEF TypeOK
<1>2. /\ g_writePtr \in Slot /\ g_readPtr \in Slot
      /\ put \in Nat /\ got \in Nat /\ cur \in Nat
  BY DEF TypeOK
<1>3. CASE g_readPtr = 0
  BY <1>1, <1>2, <1>3 DEF Slot, Behind, RingOK, SentOK, BacklogOK
<1>4. CASE g_readPtr # 0
  BY <1>1, <1>2, <1>4 DEF Slot, Behind, RingOK, SentOK, BacklogOK
<1>5. QED BY <1>3, <1>4

-----------------------------------------------------------------------------
(***************************************************************************)
(* Type correctness.                                                        *)
(***************************************************************************)

\* The initial state is of the right type.
LEMMA InitTypeOK == Init => TypeOK
<1> SUFFICES ASSUME Init PROVE TypeOK
  OBVIOUS
<1>1. 0 \in Slot /\ [s \in Slot |-> 0] \in [Slot -> Nat]
  BY DEF Slot
<1>2. 0 \in 0 .. OtherMax /\ 0 \in 0 .. MaxAcks
  OBVIOUS
<1>3. QED BY <1>1, <1>2 DEF Init, TypeOK

\* Every handler, and the gateway, keeps the variables in their types.
LEMMA NextTypeOK == TypeOK /\ [Next]_vars => TypeOK'
<1> SUFFICES ASSUME TypeOK, [Next]_vars PROVE TypeOK'
  OBVIOUS
<1> USE DEF TypeOK, ring, timer, link
<1>1. CASE copyToTXPacketBuffer
  <2>1. g_writePtr' \in Slot
    BY AdvanceInSlot, <1>1 DEF copyToTXPacketBuffer
  <2>2. put' \in Nat /\ u_queue' \in [Slot -> Nat]
    BY <1>1 DEF copyToTXPacketBuffer
  <2>3. QED BY <1>1, <2>1, <2>2 DEF copyToTXPacketBuffer
<1>2. CASE SendNext
  BY AdvanceInSlot, <1>2 DEF SendNext, SendAndWait, WAITING
<1>3. CASE Resend
  BY <1>3 DEF Resend, SendAndWait, WAITING
<1>4. CASE Idle
  BY <1>4 DEF Idle
<1>5. CASE timerCallbackWaitUartTxAck
  BY <1>5 DEF timerCallbackWaitUartTxAck, TIMEOUT
<1>6. CASE HandlePIOChangedEvent
  <2>1. acks' \in 0 .. MaxAcks
    BY <1>6 DEF HandlePIOChangedEvent
  <2>2. ackTimer' \in BOOLEAN /\ gotTxAckFromESP' \in {READY, SUCCESS, TIMEOUT, WAITING}
    BY <1>6 DEF HandlePIOChangedEvent
  <2>3. QED BY <1>6, <2>1, <2>2 DEF HandlePIOChangedEvent
<1>7. CASE LoopPulseExpires
  BY <1>7 DEF LoopPulseExpires
<1>8. CASE AssocPulseExpires
  BY <1>8 DEF AssocPulseExpires
<1>9. CASE AppHandleAssociationComplete
  BY <1>9 DEF AppHandleAssociationComplete
<1>10. CASE OtherTimerCreate
  BY <1>10 DEF OtherTimerCreate
<1>11. CASE OtherTimerExpires
  BY <1>11 DEF OtherTimerExpires
<1>12. CASE EspReceive
  BY <1>12 DEF EspReceive
<1>13. CASE LoseFrame
  BY <1>13 DEF LoseFrame
<1>14. CASE LoseAck
  BY <1>14 DEF LoseAck
<1>15. CASE UNCHANGED vars
  BY <1>15 DEF vars
<1>16. QED
  BY <1>1, <1>2, <1>3, <1>4, <1>5, <1>6, <1>7, <1>8, <1>9, <1>10, <1>11, <1>12, <1>13, <1>14, <1>15 DEF Next, mainUartTxHandler, timerCallbackUartTxedPinToLow

\* Every variable of the transmit side stays within its type, for every ring
\* size, timer pool and bound.
THEOREM TypeCorrect == Spec => []TypeOK
<1>1. Init => TypeOK BY InitTypeOK
<1>2. TypeOK /\ [Next]_vars => TypeOK' BY NextTypeOK
<1>3. QED BY <1>1, <1>2, PTL DEF Spec

-----------------------------------------------------------------------------
(***************************************************************************)
(* The inductive invariant.                                                 *)
(***************************************************************************)

\* The initial state satisfies the inductive invariant: nothing queued, nothing sent.
LEMMA InitIInv == Init => IInv
<1> SUFFICES ASSUME Init PROVE IInv
  OBVIOUS
<1>1. TypeOK
  BY InitTypeOK
<1>2. RingOK
  BY DEF Init, RingOK, Slot
<1>3. SentOK /\ BacklogOK /\ LinkOK /\ TimersOK
  BY DEF Init, SentOK, BacklogOK, LinkOK, TimersOK, WaitingIsTimed, LoopAlive, PinReleased,
         HeadroomSuffices, READY, SUCCESS, WAITING
<1>4. QED BY <1>1, <1>2, <1>3 DEF IInv

\* A packet queued: the ring moves on by one slot.
LEMMA CopyStep == IInv /\ TypeOK' /\ copyToTXPacketBuffer => IInv'
<1> SUFFICES ASSUME IInv, TypeOK', copyToTXPacketBuffer PROVE IInv'
  OBVIOUS
<1> USE DEF IInv
<1>1. RingOK'
  <2>1. /\ g_writePtr' = Advance(g_writePtr) /\ put' = put + 1
        /\ u_queue' = [u_queue EXCEPT ![g_writePtr] = put + 1]
    BY DEF copyToTXPacketBuffer
  <2>2. g_writePtr \in Slot /\ put \in Nat /\ u_queue \in [Slot -> Nat]
    BY DEF TypeOK
  <2>3. g_writePtr' <= put'
    BY <2>1, <2>2 DEF RingOK, Slot, Advance
  <2>4. ASSUME NEW s \in Slot
        PROVE  u_queue'[s] =
                 IF s < g_writePtr' THEN put' - g_writePtr' + 1 + s
                 ELSE IF put' - PACKET_TOTAL_NUMBER - g_writePtr' + 1 + s > 0
                      THEN put' - PACKET_TOTAL_NUMBER - g_writePtr' + 1 + s
                      ELSE 0
    <3>1. u_queue'[s] = IF s = g_writePtr THEN put + 1 ELSE u_queue[s]
      BY <2>1, <2>2
    <3>2. u_queue[s] = IF s < g_writePtr THEN put - g_writePtr + 1 + s
                       ELSE IF put - PACKET_TOTAL_NUMBER - g_writePtr + 1 + s > 0
                            THEN put - PACKET_TOTAL_NUMBER - g_writePtr + 1 + s
                            ELSE 0
      BY DEF RingOK
    <3>3. s \in Int /\ 0 <= s /\ s < PACKET_TOTAL_NUMBER
      BY DEF Slot
    <3>4. g_writePtr \in Int /\ 0 <= g_writePtr /\ g_writePtr < PACKET_TOTAL_NUMBER
          /\ g_writePtr <= put
      BY <2>2 DEF Slot, RingOK
    <3>5. CASE g_writePtr + 1 >= PACKET_TOTAL_NUMBER
      BY <2>1, <2>2, <3>1, <3>2, <3>3, <3>4, <3>5 DEF Advance
    <3>6. CASE g_writePtr + 1 < PACKET_TOTAL_NUMBER
      BY <2>1, <2>2, <3>1, <3>2, <3>3, <3>4, <3>6 DEF Advance
    <3>7. QED BY <3>4, <3>5, <3>6
  <2>5. QED BY <2>3, <2>4 DEF RingOK
<1>2. SentOK'
  <2>1. ASSUME NEW s \in Slot PROVE u_queue[s] <= u_queue'[s]
    <3>1. u_queue'[s] = IF s = g_writePtr THEN put + 1 ELSE u_queue[s]
      BY DEF copyToTXPacketBuffer, TypeOK
    <3>2. u_queue[s] \in Nat /\ put \in Nat
      BY DEF TypeOK
    <3>3. u_queue[s] <= put
      BY HoldsQueued
    <3>4. QED BY <3>1, <3>2, <3>3
  <2>2. prevTXBuff \in Slot /\ cur \in Nat /\ u_queue \in [Slot -> Nat]
        /\ u_queue' \in [Slot -> Nat]
    BY DEF TypeOK
  <2>3. QED BY <2>1, <2>2 DEF copyToTXPacketBuffer, SentOK, Behind
<1>3. BacklogOK'
  <2>1. /\ g_writePtr \in Int /\ 0 <= g_writePtr /\ g_writePtr < PACKET_TOTAL_NUMBER
        /\ g_readPtr \in Int /\ 0 <= g_readPtr /\ g_readPtr < PACKET_TOTAL_NUMBER
        /\ put \in Nat /\ got \in Nat
    BY DEF TypeOK, Slot
  <2>2. SUFFICES ASSUME ~overrun' PROVE BacklogOK'
    BY DEF BacklogOK
  <2>3. ~overrun /\ Advance(g_writePtr) # g_readPtr
    BY <2>2 DEF copyToTXPacketBuffer
  <2>4. QED BY <2>1, <2>3 DEF copyToTXPacketBuffer, BacklogOK, Advance
<1>4. LinkOK'
  BY DEF copyToTXPacketBuffer, LinkOK, link, timer
<1>5. TimersOK'
  BY DEF copyToTXPacketBuffer, TimersOK, WaitingIsTimed, LoopAlive, PinReleased,
         HeadroomSuffices, timer
<1>6. QED BY <1>1, <1>2, <1>3, <1>4, <1>5

\* A transmission: what SendAndWait does to the timers, from any state in which
\* the loop fires without an acknowledgement timeout running.
LEMMA SendTimers ==
    ASSUME IInv, LoopFires, ~ackTimer, NEW s \in Slot, SendAndWait(s)
    PROVE  TimersOK'
<1>1. others \in 0 .. OtherMax
  BY DEF IInv, TypeOK
<1>2. One(loopTimer) = 1 /\ One(loopPulse) = 0 /\ One(ackTimer) = 0 /\ One(assocPulse) \in {0, 1}
  BY DEF LoopFires, One
<1>3. OtherMax + 4 <= MAX_APP_TIMERS => Free + 1 >= 3
  BY <1>1, <1>2 DEF Free
<1>4. Free \in Int
  BY <1>1, <1>2 DEF Free
<1>5. QED
  BY <1>3, <1>4 DEF IInv, TimersOK, SendAndWait, WaitingIsTimed, LoopAlive, PinReleased,
                   HeadroomSuffices, TypeOK

\* The next packet is taken from the ring and transmitted.
LEMMA SendNextStep == IInv /\ TypeOK' /\ SendNext => IInv'
<1> SUFFICES ASSUME IInv, TypeOK', SendNext PROVE IInv'
  OBVIOUS
<1> USE DEF IInv
<1>1. g_readPtr \in Slot /\ g_readPtr # g_writePtr /\ SendAndWait(g_readPtr)
  BY DEF TypeOK, SendNext
<1>2. /\ u_queue[g_readPtr] > cur
      /\ ~overrun => u_queue[g_readPtr] = got + 1
  BY <1>1, NextIsNewer
<1>3. RingOK'
  BY <1>1 DEF SendAndWait, RingOK
<1>4. SentOK'
  <2>1. prevTXBuff' = Behind(g_readPtr')
    BY <1>1, AdvanceInSlot DEF SendAndWait, SendNext
  <2>2. cur' >= 1 /\ cur' <= u_queue'[prevTXBuff']
    BY <1>1, <1>2 DEF SendAndWait, TypeOK
  <2>3. QED BY <1>1, <2>1, <2>2 DEF SendAndWait, SentOK, WAITING, READY, Behind
<1>5. BacklogOK'
  BY <1>1, <1>2 DEF SendNext, SendAndWait, BacklogOK, TypeOK, Slot, Advance
<1>6. LinkOK'
  BY <1>1, <1>2 DEF SendNext, SendAndWait, LoopFires, LinkOK, SentOK, BacklogOK, TypeOK,
                    READY, SUCCESS, TIMEOUT, WAITING
<1>7. TimersOK'
  <2>1. LoopFires /\ ~ackTimer
    BY DEF SendNext, TimersOK, READY, SUCCESS, WAITING
  <2>2. QED BY <1>1, <2>1, SendTimers
<1>8. QED BY <1>3, <1>4, <1>5, <1>6, <1>7

\* The last packet is transmitted again from its slot.
LEMMA ResendStep == IInv /\ TypeOK' /\ Resend => IInv'
<1> SUFFICES ASSUME IInv, TypeOK', Resend PROVE IInv'
  OBVIOUS
<1> USE DEF IInv
<1>1. /\ gotTxAckFromESP = TIMEOUT /\ SendAndWait(prevTXBuff) /\ prevTXBuff \in Slot
      /\ g_readPtr' = g_readPtr /\ got' = got
  BY DEF TypeOK, Resend
<1>2. /\ u_queue[prevTXBuff] >= cur
      /\ ~overrun => u_queue[prevTXBuff] = got
      /\ u_queue[prevTXBuff] \in Nat
  BY <1>1, SlotNotReused DEF SentOK, TypeOK, READY, TIMEOUT
<1>3. RingOK'
  BY <1>1 DEF SendAndWait, RingOK
<1>4. SentOK'
  BY <1>1, <1>2 DEF SendAndWait, SentOK, TypeOK, Behind, READY, WAITING, TIMEOUT
<1>5. BacklogOK'
  BY <1>1, <1>2 DEF SendAndWait, BacklogOK, TypeOK
<1>6. LinkOK'
  BY <1>1, <1>2 DEF Resend, SendAndWait, LoopFires, LinkOK, SentOK, BacklogOK, TypeOK,
                    READY, SUCCESS, TIMEOUT, WAITING
<1>7. TimersOK'
  <2>1. LoopFires /\ ~ackTimer
    BY <1>1 DEF Resend, TimersOK, TIMEOUT, WAITING
  <2>2. QED BY <1>1, <2>1, SendTimers
<1>8. QED BY <1>3, <1>4, <1>5, <1>6, <1>7

\* The loop has nothing to send: only its own timer is at stake, and it takes
\* the one that has just expired.
LEMMA IdleStep == IInv /\ TypeOK' /\ Idle => IInv'
<1> SUFFICES ASSUME IInv, TypeOK', Idle PROVE IInv'
  OBVIOUS
<1> USE DEF IInv
<1>1. RingOK' /\ SentOK' /\ BacklogOK' /\ LinkOK'
  BY DEF Idle, RingOK, SentOK, BacklogOK, LinkOK, ring, link, Behind
<1>2. TimersOK'
  <2>1. OtherMax + 4 <= MAX_APP_TIMERS => Free + 1 >= 1
    BY DEF Idle, LoopFires, Free, One, TypeOK
  <2>2. Free \in Int
    BY DEF Free, One, TypeOK
  <2>3. QED
    BY <2>1, <2>2 DEF Idle, TimersOK, WaitingIsTimed, LoopAlive, PinReleased, HeadroomSuffices,
                      TypeOK
<1>3. QED BY <1>1, <1>2

\* The acknowledgement timeout and the acknowledgement edge: the only steps
\* that leave the state WAITING.
LEMMA AckStep ==
    IInv /\ TypeOK' /\ (timerCallbackWaitUartTxAck \/ HandlePIOChangedEvent) => IInv'
<1> SUFFICES ASSUME IInv, TypeOK', timerCallbackWaitUartTxAck \/ HandlePIOChangedEvent
             PROVE  IInv'
  OBVIOUS
<1> USE DEF IInv, timerCallbackWaitUartTxAck, HandlePIOChangedEvent
<1>1. RingOK' /\ BacklogOK'
  BY DEF RingOK, BacklogOK, ring
<1>2. SentOK'
  BY DEF SentOK, TimersOK, ring, Behind, READY, SUCCESS, TIMEOUT, WAITING
<1>3. LinkOK'
  <2>1. wire \in Nat /\ acks \in Nat /\ cur \in Nat /\ out \in Nat
    BY DEF TypeOK
  <2>2. CASE timerCallbackWaitUartTxAck
    BY <2>1, <2>2 DEF LinkOK, link, SUCCESS, TIMEOUT, WAITING
  <2>3. CASE HandlePIOChangedEvent
    BY <2>1, <2>3 DEF LinkOK, TimersOK, SUCCESS, TIMEOUT, WAITING
  <2>4. QED BY <2>2, <2>3
<1>4. TimersOK'
  BY DEF TimersOK, WaitingIsTimed, LoopAlive, PinReleased, HeadroomSuffices, SUCCESS, TIMEOUT,
         WAITING
<1>5. QED BY <1>1, <1>2, <1>3, <1>4

\* The pulses, the association frame and the timers of the rest of the
\* application: only TimersOK is at stake.
LEMMA PoolStep ==
    ASSUME IInv, TypeOK',
           \/ timerCallbackUartTxedPinToLow \/ AppHandleAssociationComplete
           \/ OtherTimerCreate \/ OtherTimerExpires
    PROVE  IInv'
<1> USE DEF IInv, timerCallbackUartTxedPinToLow, LoopPulseExpires, AssocPulseExpires,
            AppHandleAssociationComplete, OtherTimerCreate, OtherTimerExpires
<1>1. RingOK' /\ SentOK' /\ BacklogOK' /\ LinkOK'
  BY DEF RingOK, SentOK, BacklogOK, LinkOK, ring, link, Behind
<1>2. TimersOK'
  <2>1. CASE timerCallbackUartTxedPinToLow \/ OtherTimerCreate \/ OtherTimerExpires
    BY <2>1 DEF TimersOK, WaitingIsTimed, LoopAlive, PinReleased, HeadroomSuffices
  <2>2. CASE AppHandleAssociationComplete
    <3>1. OtherMax + 4 <= MAX_APP_TIMERS => Free >= 1
      BY <2>2 DEF Free, One, TypeOK
    <3>2. Free \in Int
      BY DEF Free, One, TypeOK
    <3>3. QED
      BY <2>2, <3>1, <3>2 DEF TimersOK, WaitingIsTimed, LoopAlive, PinReleased,
                              HeadroomSuffices, TypeOK
  <2>3. QED BY <2>1, <2>2
<1>3. QED BY <1>1, <1>2

\* The gateway and the losses of the link: only LinkOK is at stake.
LEMMA GatewayStep == IInv /\ TypeOK' /\ (EspReceive \/ LoseFrame \/ LoseAck) => IInv'
<1> SUFFICES ASSUME IInv, TypeOK', EspReceive \/ LoseFrame \/ LoseAck PROVE IInv'
  OBVIOUS
<1> USE DEF IInv, EspReceive, LoseFrame, LoseAck
<1>1. RingOK' /\ SentOK' /\ BacklogOK'
  BY DEF RingOK, SentOK, BacklogOK, ring, Behind
<1>2. TimersOK'
  BY DEF TimersOK, WaitingIsTimed, LoopAlive, PinReleased, HeadroomSuffices, timer
<1>3. LinkOK'
  <2>1. wire \in Nat /\ acks \in 0 .. MaxAcks /\ cur \in Nat /\ out \in Nat
    BY DEF TypeOK
  <2>2. CASE EspReceive
    BY <2>1, <2>2 DEF LinkOK, SUCCESS, WAITING
  <2>3. CASE LoseFrame
    BY <2>1, <2>3 DEF LinkOK
  <2>4. CASE LoseAck
    BY <2>1, <2>4 DEF LinkOK
  <2>5. QED BY <2>2, <2>3, <2>4
<1>4. QED BY <1>1, <1>2, <1>3

\* Every step keeps the inductive invariant, one lemma for each kind of step.
LEMMA NextIInv == IInv /\ [Next]_vars => IInv'
<1> SUFFICES ASSUME IInv, [Next]_vars PROVE IInv'
  OBVIOUS
<1>1. TypeOK'
  BY NextTypeOK DEF IInv
<1>2. CASE Next
  BY <1>1, <1>2, CopyStep, SendNextStep, ResendStep, IdleStep, AckStep, PoolStep, GatewayStep
     DEF Next, mainUartTxHandler
<1>3. CASE UNCHANGED vars
  BY <1>1, <1>3 DEF vars, ring, timer, link, IInv, RingOK, SentOK, BacklogOK, LinkOK, TimersOK,
                    WaitingIsTimed, LoopAlive, PinReleased, HeadroomSuffices, Behind
<1>4. QED BY <1>2, <1>3

\* The inductive invariant holds in every behaviour of the link.
THEOREM Invariance == Spec => []IInv
<1>1. Init => IInv BY InitIInv
<1>2. IInv /\ [Next]_vars => IInv' BY NextIInv
<1>3. QED BY <1>1, <1>2, PTL DEF Spec

-----------------------------------------------------------------------------
(***************************************************************************)
(* What follows from the invariant.                                         *)
(***************************************************************************)

\* Until the pool refuses a timer, the link waits exactly while a timeout runs,
\* and the loop is scheduled.
THEOREM TimersCorrect == Spec => [](WaitingIsTimed /\ LoopAlive)
<1>1. IInv => WaitingIsTimed /\ LoopAlive
  BY DEF IInv, TimersOK
<1>2. QED BY <1>1, Invariance, PTL

\* Until the pool refuses a timer, the pulse of the loop or that of the
\* association frame is there to take PIN_TX_FLAG down again.
THEOREM PinReleasedCorrect == Spec => []PinReleased
<1>1. IInv => PinReleased
  BY DEF IInv, TimersOK
<1>2. QED BY <1>1, Invariance, PTL

\* The loop, its timeout and the two pulses are all the timers of this side:
\* four the rest of the application leaves in the pool rule a refusal out.
THEOREM HeadroomCorrect == Spec => []HeadroomSuffices
<1>1. IInv => HeadroomSuffices
  BY DEF IInv, TimersOK
<1>2. QED BY <1>1, Invariance, PTL

\* Without overrun the link transmits, the first time and again, the oldest
\* packet it is not done with.
THEOREM TransmitsInTurnCorrect == Spec => []TransmitsInTurn
<1>1. IInv => TransmitsInTurn
  BY SlotNotReused DEF IInv, TransmitsInTurn, BacklogOK, READY, TIMEOUT, WAITING
<1>2. QED BY <1>1, Invariance, PTL

\* With a prompt gateway SUCCESS means that the gateway has the packet, although
\* the acknowledgement does not say which packet it answers.
THEOREM SuccessMeansReceivedCorrect == Spec => []SuccessMeansReceived
<1>1. IInv => SuccessMeansReceived
  BY DEF IInv, TypeOK, LinkOK, SuccessMeansReceived
<1>2. QED BY <1>1, Invariance, PTL

\* A step never goes back to an older packet, on the wire or at the gateway.
LEMMA ForwardStep == IInv /\ [Next]_vars => [cur' >= cur /\ out' >= out]_vars
<1> SUFFICES ASSUME IInv, [Next]_vars PROVE cur' >= cur /\ out' >= out
  OBVIOUS
<1>1. cur \in Nat /\ out \in Nat /\ got \in Nat /\ g_readPtr \in Slot /\ prevTXBuff \in Slot
      /\ u_queue \in [Slot -> Nat]
  BY DEF IInv, TypeOK
<1>2. CASE SendNext
  <2>1. u_queue[g_readPtr] > cur
    BY <1>2, NextIsNewer DEF IInv, SendNext
  <2>2. QED BY <1>1, <1>2, <2>1 DEF SendNext, SendAndWait
<1>3. CASE Resend
  <2>1. u_queue[prevTXBuff] >= cur
    BY <1>1, <1>3 DEF IInv, SentOK, Resend, READY, TIMEOUT
  <2>2. QED BY <1>1, <1>3, <2>1 DEF Resend, SendAndWait
<1>4. CASE EspReceive
  <2>1. wire = cur /\ out <= cur
    BY <1>4 DEF IInv, LinkOK, EspReceive
  <2>2. QED BY <1>1, <1>4, <2>1 DEF EspReceive
<1>5. CASE ~(SendNext \/ Resend \/ EspReceive)
  <2>1. cur' = cur /\ out' = out
    BY <1>5 DEF Next, vars, link, mainUartTxHandler, timerCallbackUartTxedPinToLow,
                copyToTXPacketBuffer, Idle, timerCallbackWaitUartTxAck, HandlePIOChangedEvent,
                LoopPulseExpires, AssocPulseExpires, AppHandleAssociationComplete,
                OtherTimerCreate, OtherTimerExpires, LoseFrame, LoseAck
  <2>2. QED BY <1>1, <2>1
<1>6. QED BY <1>2, <1>3, <1>4, <1>5

\* Neither overrun nor late edges nor a retransmission from an overwritten slot
\* make the stream go back to an older packet.
THEOREM NeverBackwardsCorrect == Spec => NeverBackwards
<1>1. IInv /\ [Next]_vars => [cur' >= cur /\ out' >= out]_vars
  BY ForwardStep
<1>2. QED BY <1>1, Invariance, PTL DEF Spec, NeverBackwards

-----------------------------------------------------------------------------
(***************************************************************************)
(* The link implements the packet stream.                                   *)
(***************************************************************************)

\* The initial state of the link is that of an empty stream.
LEMMA StreamInit == Init => Stream!Init
BY DEF Init, Stream!Init

\* Queueing a packet is Put: the overrun flag rises only with the ring full of
\* packets that the gateway has not received.
LEMMA StreamPut == IInv /\ copyToTXPacketBuffer => Stream!Put
<1> SUFFICES ASSUME IInv, copyToTXPacketBuffer PROVE Stream!Put
  OBVIOUS
<1>1. put' = put + 1 /\ out' = out /\ overrun' = (overrun \/ Advance(g_writePtr) = g_readPtr)
  BY DEF copyToTXPacketBuffer, link
<1>2. CASE overrun \/ Advance(g_writePtr) # g_readPtr
  <2>1. overrun' = overrun
    BY <1>1, <1>2 DEF IInv, TypeOK
  <2>2. QED BY <1>1, <2>1 DEF Stream!Put
<1>3. CASE ~overrun /\ Advance(g_writePtr) = g_readPtr
  <2>1. /\ g_writePtr \in Int /\ 0 <= g_writePtr /\ g_writePtr < PACKET_TOTAL_NUMBER
        /\ put \in Nat /\ got \in Nat /\ out \in Nat /\ out <= got
    BY <1>3 DEF IInv, TypeOK, Slot, LinkOK, BacklogOK
  <2>2. put - got = PACKET_TOTAL_NUMBER - 1
    BY <1>3, <2>1 DEF IInv, BacklogOK, Advance
  <2>3. put - out >= PACKET_TOTAL_NUMBER - 1
    BY <2>1, <2>2
  <2>4. overrun' = TRUE
    BY <1>1, <1>3
  <2>5. QED BY <1>1, <2>3, <2>4 DEF Stream!Put
<1>4. QED BY <1>2, <1>3

\* What the gateway receives is the next packet, the same again, or, past a
\* limit, a later one.
LEMMA StreamDeliver == IInv /\ EspReceive => Stream!Deliver \/ UNCHANGED Stream!vars
<1> SUFFICES ASSUME IInv, EspReceive PROVE Stream!Deliver \/ UNCHANGED Stream!vars
  OBVIOUS
<1>1. /\ out' = cur /\ wire = cur /\ put' = put /\ overrun' = overrun
      /\ cur \in Nat /\ out \in Nat /\ put \in Nat /\ out <= cur /\ wire # 0
  BY DEF IInv, TypeOK, LinkOK, EspReceive
<1>2. cur <= put
  <2>1. gotTxAckFromESP # READY
    BY <1>1 DEF IInv, SentOK
  <2>2. prevTXBuff \in Slot /\ cur <= u_queue[prevTXBuff] /\ u_queue[prevTXBuff] \in Nat
    BY <2>1 DEF IInv, SentOK, TypeOK
  <2>3. u_queue[prevTXBuff] <= put
    BY <2>2, HoldsQueued DEF IInv
  <2>4. QED BY <1>1, <2>2, <2>3
<1>3. CASE cur = out
  BY <1>1, <1>3 DEF Stream!vars
<1>4. CASE cur # out /\ (overrun \/ ~PromptAcks)
  <2>1. cur \in out + 1 .. put
    BY <1>1, <1>2, <1>4
  <2>2. QED BY <1>1, <1>4, <2>1 DEF Stream!Deliver, Stream!DeliverLater
<1>5. CASE cur # out /\ ~overrun /\ PromptAcks
  <2>1. cur = out + 1
    BY <1>1, <1>5 DEF IInv, LinkOK
  <2>2. QED BY <1>1, <1>2, <2>1 DEF Stream!Deliver, Stream!DeliverNext
<1>6. QED BY <1>3, <1>4, <1>5

\* Every step of the link is a step of the stream or leaves it as it is.
LEMMA StreamStep == IInv /\ [Next]_vars => [Stream!Next]_(Stream!vars)
<1> SUFFICES ASSUME IInv, [Next]_vars PROVE Stream!Next \/ UNCHANGED Stream!vars
  OBVIOUS
<1>1. CASE copyToTXPacketBuffer
  BY <1>1, StreamPut DEF Stream!Next
<1>2. CASE EspReceive
  BY <1>2, StreamDeliver DEF Stream!Next
<1>3. CASE ~(copyToTXPacketBuffer \/ EspReceive)
  BY <1>3 DEF Stream!vars, Next, vars, link, mainUartTxHandler, timerCallbackUartTxedPinToLow,
              SendNext, Resend, SendAndWait, Idle, timerCallbackWaitUartTxAck,
              HandlePIOChangedEvent, LoopPulseExpires, AssocPulseExpires,
              AppHandleAssociationComplete, OtherTimerCreate, OtherTimerExpires, LoseFrame, LoseAck
<1>4. QED BY <1>1, <1>2, <1>3

\* For every ring size, pool and delay of the acknowledgements, the transmit
\* side of the UART link implements the safety part of the packet stream.
THEOREM ImplementsStream == Spec => StreamSafety
<1>1. Init => Stream!Init BY StreamInit
<1>2. IInv /\ [Next]_vars => [Stream!Next]_(Stream!vars) BY StreamStep
<1>3. QED BY <1>1, <1>2, Invariance, PTL DEF Spec, StreamSafety, Stream!Safety
=============================================================================
