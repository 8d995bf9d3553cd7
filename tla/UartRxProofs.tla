---------------------------- MODULE UartRxProofs ----------------------------
(***************************************************************************)
(* Proofs about UartRx for every frame length, set of bytes and bound: the *)
(* hub's assembly of frames is in step with the gateway's sending of them, *)
(* one pulse is under way at most, and on a faultless link no frame needs a *)
(* third try.                                                               *)
(***************************************************************************)
EXTENDS UartRx, TLAPS

USE LenAssumption, ByteAssumption, FramesAssumption, RxBoundAssumption
    DEF LenAssumption, ByteAssumption, FramesAssumption, RxBoundAssumption

-----------------------------------------------------------------------------
(***************************************************************************)
(* The inductive invariant.                                                 *)
(***************************************************************************)

\* A frame is being assembled exactly when its header has been seen, except that
\* a byte may have been dropped into the place of a header.
Filling ==
    /\ firstFFfound => packetRX > 0 /\ DataRX[0] \in Header
    /\ ~firstFFfound => packetRX = 0 \/ (packetRX = 1 /\ DataRX[0] \notin Header)

\* The bytes it takes at least until a frame is checked the next time.
Need == IF ~firstFFfound THEN LEN - 1
        ELSE IF packetRX < LEN - 1 THEN LEN - 1 - packetRX ELSE LEN

\* The pin is high for the time of a pulse.  The gateway starts no frame in that
\* time, and what is left of the one it sends is too short for another answer.
OnePulse ==
    /\ pulses \in 0 .. 1 /\ (pinAck = 1 <=> pulses = 1)
    /\ pulses = 1 => espPos = 0 \/ espPos + Need > LEN

\* On a faultless link the second try finds the checksum of the first in its place,
\* and is answered when its last byte but one is in.
SecondTry ==
    clean /\ tries > 0 =>
        /\ tries = 1
        /\ DataRX[LEN - 1] = frame[LEN - 1]
        /\ espPos >= LEN - 1 => ackSeen

IInv ==
    /\ TypeOK /\ Filling /\ OnePulse /\ InStep /\ SecondTry
    /\ clean => ~booting

\* The places of a frame, and a place counted modulo its length.
LEMMA PosFacts ==
    /\ 0 \in Pos /\ LEN - 1 \in Pos /\ LEN - 2 \in Pos
    /\ \A p \in Pos : p \in Int /\ p >= 0 /\ p < LEN
    /\ \A p \in 0 .. LEN : p % LEN = IF p = LEN THEN 0 ELSE p
<1>1. \A p \in 0 .. LEN : p % LEN = IF p = LEN THEN 0 ELSE p
  OBVIOUS
<1>2. QED BY <1>1 DEF Pos

\* The initial states.
LEMMA InitIInv == Init => IInv
<1> SUFFICES ASSUME Init PROVE IInv
  OBVIOUS
<1>1. Zeroed \in [Pos -> Byte] /\ packetRX \in Pos
  BY PosFacts DEF Init, Zeroed, Byte
<1>2. TypeOK
  <2>1. DataRX \in [Pos -> Byte] /\ packetRX \in Pos /\ frame \in Frames
    BY <1>1 DEF Init
  <2>2. pinAck \in {0, 1} /\ pulses \in 0 .. 1 /\ espPos \in 0 .. LEN
        /\ tries \in 0 .. MaxTries /\ faults \in 0 .. MaxFaults
    BY DEF Init
  <2>3. QED BY <2>1, <2>2, Zenon DEF Init, TypeOK
<1>3. Filling /\ OnePulse /\ SecondTry
  BY DEF Init, Filling, OnePulse, Need, SecondTry
<1>4. InStep
  BY PosFacts DEF Init, InStep
<1>5. QED BY <1>2, <1>3, <1>4 DEF Init, IInv

-----------------------------------------------------------------------------
(***************************************************************************)
(* A byte arrives.                                                          *)
(***************************************************************************)

\* What the callback does once the byte is in the buffer keeps the assembly and
\* the pulse in order, if no answer is due while a pulse is under way.
LEMMA ReceivedOK ==
    ASSUME TypeOK, Filling, OnePulse, MaySend, espPos' = espPos + 1,
           NEW data \in [Pos -> Byte], NEW n \in 0 .. LEN,
           NEW found \in BOOLEAN, NEW done \in BOOLEAN,
           found => n > 0 /\ data[0] \in Header,
           ~found => n = 0 \/ (n = 1 /\ data[0] \notin Header),
           pulses = 1 => espPos > 0 /\ n # LEN - 1 /\ (found => n = LEN \/ espPos > n),
           Received(data, n, found, done)
    PROVE  /\ DataRX' \in [Pos -> Byte] /\ packetRX' \in Pos
           /\ firstFFfound' \in BOOLEAN /\ accepted' \in BOOLEAN
           /\ pinAck' \in {0, 1} /\ booting' \in BOOLEAN /\ ackSeen' \in BOOLEAN
           /\ Filling' /\ OnePulse'
<1>1. /\ espPos \in Int /\ 0 <= espPos /\ espPos < LEN
      /\ pulses \in {0, 1} /\ n \in Int /\ 0 <= n /\ n <= LEN /\ LEN \in Int /\ LEN >= 3
  BY DEF TypeOK, MaySend, OnePulse
<1>2. CASE Collect(data, n, found, done)
  <2>1. /\ n # LEN - 1 /\ DataRX' = data /\ accepted' = done
        /\ UNCHANGED <<pinAck, pulses, booting, ackSeen>>
    BY <1>2 DEF Collect
  <2>2. CASE n >= LEN
    <3>1. packetRX' = 0 /\ firstFFfound' = FALSE
      BY <1>2, <2>2 DEF Collect
    <3>2. OnePulse'
      BY <1>1, <2>1, <3>1 DEF OnePulse, Need
    <3>3. QED BY <2>1, <3>1, <3>2, PosFacts DEF TypeOK, Filling
  <2>3. CASE ~(n >= LEN)
    <3>1. packetRX' = n /\ firstFFfound' = found
      BY <1>2, <2>3 DEF Collect
    <3>2. n \in Pos
      BY <1>1, <2>3 DEF Pos
    <3>3. OnePulse'
      BY <1>1, <2>1, <2>3, <3>1 DEF OnePulse, Need
    <3>4. Filling'
      BY <2>1, <3>1 DEF Filling
    <3>5. QED BY <2>1, <3>1, <3>2, <3>3, <3>4 DEF TypeOK
  <2>4. QED BY <2>2, <2>3
<1>3. CASE Reject(data, n, found, done)
  <2>1. /\ n = LEN - 1 /\ DataRX' = data /\ packetRX' = n /\ firstFFfound' = found
        /\ accepted' = done /\ UNCHANGED <<pinAck, pulses, booting, ackSeen>>
    BY <1>3 DEF Reject
  <2>2. OnePulse'
    BY <1>1, <2>1 DEF OnePulse
  <2>3. Filling'
    BY <2>1 DEF Filling
  <2>4. QED BY <2>1, <2>2, <2>3, PosFacts DEF TypeOK
<1>4. CASE Accept(data, n, found)
  <2>1. /\ n = LEN - 1 /\ DataRX' = data /\ packetRX' = n /\ firstFFfound' = found
        /\ accepted' = TRUE /\ pinAck' = 1 /\ pulses' = pulses + 1 /\ ackSeen' = TRUE
        /\ booting' = booting
    BY <1>4 DEF Accept
  <2>2. pulses = 0 /\ found
    BY <1>1, <2>1
  <2>3. OnePulse'
    BY <1>1, <2>1, <2>2 DEF OnePulse, Need
  <2>4. Filling'
    BY <2>1, <2>2 DEF Filling
  <2>5. QED BY <2>1, <2>3, <2>4, PosFacts DEF TypeOK
<1>5. CASE AcceptReset(data, n)
  <2>1. /\ DataRX' = Zeroed /\ packetRX' = 0 /\ firstFFfound' = FALSE /\ accepted' = FALSE
        /\ pinAck' = 0 /\ pulses' = 0 /\ ackSeen' = TRUE /\ booting' = TRUE
    BY <1>5 DEF AcceptReset
  <2>2. Zeroed \in [Pos -> Byte]
    BY DEF Zeroed, Byte
  <2>3. Filling' /\ OnePulse'
    BY <2>1 DEF Filling, OnePulse
  <2>4. QED BY <2>1, <2>2, <2>3, PosFacts
<1>6. QED BY <1>2, <1>3, <1>4, <1>5 DEF Received

\* Any byte may come, at any point of a frame.
LEMMA ByteOK ==
    ASSUME TypeOK, Filling, OnePulse, MaySend, espPos' = espPos + 1,
           NEW b \in Byte, Arrives(b)
    PROVE  /\ DataRX' \in [Pos -> Byte] /\ packetRX' \in Pos
           /\ firstFFfound' \in BOOLEAN /\ accepted' \in BOOLEAN
           /\ pinAck' \in {0, 1} /\ booting' \in BOOLEAN /\ ackSeen' \in BOOLEAN
           /\ Filling' /\ OnePulse'
<1>1. /\ espPos \in Int /\ 0 <= espPos /\ espPos < LEN /\ pulses \in {0, 1}
      /\ packetRX \in Int /\ 0 <= packetRX /\ packetRX < LEN /\ LEN \in Int /\ LEN >= 3
  BY PosFacts DEF TypeOK, MaySend, OnePulse
<1>2. pulses = 1 => espPos > 0 /\ espPos + Need > LEN
  BY <1>1 DEF OnePulse, MaySend
<1>3. CASE booting
  <2>1. UNCHANGED <<hub, pinAck, pulses, booting, ackSeen>>
    BY <1>3 DEF Arrives
  <2>2. Need' = Need
    BY <2>1 DEF Need, hub
  <2>3. OnePulse'
    BY <1>1, <1>2, <2>1, <2>2 DEF OnePulse, Need
  <2>4. Filling'
    BY <2>1 DEF Filling, hub
  <2>5. QED BY <2>1, <2>3, <2>4 DEF TypeOK, hub
<1>4. CASE ~booting /\ StartsFrame(b)
  <2>1. Received([DataRX EXCEPT ![0] = b], 1, TRUE, FALSE)
    BY <1>4 DEF Arrives, appUserReadIndCallback, Appends
  <2>2. [DataRX EXCEPT ![0] = b] \in [Pos -> Byte] /\ [DataRX EXCEPT ![0] = b][0] = b
    BY PosFacts DEF TypeOK
  <2>3. b \in Header /\ ~firstFFfound
    BY <1>4 DEF StartsFrame
  <2>4. pulses = 1 => espPos > 0 /\ 1 # LEN - 1 /\ espPos > 1
    BY <1>1, <1>2, <2>3 DEF Need
  <2>5. 1 \in 0 .. LEN /\ 1 > 0
    BY <1>1
  <2> DEFINE data == [DataRX EXCEPT ![0] = b]
  <2> HIDE DEF data
  <2>6. \A found \in BOOLEAN, done \in BOOLEAN :
           found = TRUE /\ Received(data, 1, found, done) =>
           /\ DataRX' \in [Pos -> Byte] /\ packetRX' \in Pos
           /\ firstFFfound' \in BOOLEAN /\ accepted' \in BOOLEAN
           /\ pinAck' \in {0, 1} /\ booting' \in BOOLEAN /\ ackSeen' \in BOOLEAN
           /\ Filling' /\ OnePulse'
    BY ReceivedOK, <2>2, <2>3, <2>4, <2>5 DEF data
  <2>7. QED BY <2>1, <2>6, Zenon DEF data
<1>5. CASE ~booting /\ Appends(b)
  <2> DEFINE data == [DataRX EXCEPT ![packetRX] = b]
  <2>1. Received(data, packetRX + 1, firstFFfound, accepted)
    BY <1>5 DEF Arrives, appUserReadIndCallback, Appends
  <2>2. /\ data \in [Pos -> Byte] /\ packetRX \in Pos
        /\ data[0] = IF packetRX = 0 THEN b ELSE DataRX[0]
    BY PosFacts DEF TypeOK
  <2>3. ~StartsFrame(b) /\ DataRX[0] \in Header
    BY <1>5 DEF Appends
  <2>4. firstFFfound => packetRX + 1 > 0 /\ data[0] \in Header
    BY <1>1, <2>2 DEF Filling
  <2>5. ~firstFFfound => packetRX = 0 /\ b \notin Header
    BY <2>3 DEF Filling, StartsFrame
  <2>6. pulses = 1 => /\ espPos > 0 /\ packetRX + 1 # LEN - 1
                      /\ firstFFfound => packetRX + 1 = LEN \/ espPos > packetRX + 1
    <3>1. CASE firstFFfound
      BY <1>1, <1>2, <3>1 DEF Need
    <3>2. CASE ~firstFFfound
      BY <1>1, <1>2, <2>5, <3>2
    <3>3. QED BY <3>1, <3>2
  <2>7. ~firstFFfound => packetRX + 1 = 1 /\ data[0] \notin Header
    BY <2>2, <2>5
  <2>8. packetRX + 1 \in 0 .. LEN /\ firstFFfound \in BOOLEAN /\ accepted \in BOOLEAN
    BY <1>1 DEF TypeOK
  <2> HIDE DEF data
  <2>9. QED BY ReceivedOK, <2>1, <2>2, <2>4, <2>6, <2>7, <2>8
<1>6. CASE ~booting /\ ~StartsFrame(b) /\ ~Appends(b)
  <2>1. Received(DataRX, packetRX, firstFFfound, accepted)
    BY <1>6 DEF Arrives, appUserReadIndCallback
  <2>2. ~firstFFfound
    BY <1>1, <1>6 DEF Appends, Filling
  <2>3. pulses = 1 => espPos > 0 /\ packetRX # LEN - 1
    BY <1>1, <1>2, <2>2 DEF Filling
  <2>4. packetRX \in 0 .. LEN /\ DataRX \in [Pos -> Byte]
        /\ firstFFfound \in BOOLEAN /\ accepted \in BOOLEAN
    BY <1>1 DEF TypeOK
  <2>5. QED BY ReceivedOK, <2>1, <2>2, <2>3, <2>4 DEF Filling
<1>7. QED BY <1>3, <1>4, <1>5, <1>6, Zenon

-----------------------------------------------------------------------------
(***************************************************************************)
(* A byte arrives on a link that has been faultless so far.                 *)
(***************************************************************************)

\* In step, the byte goes to its own place: a header first, and then bytes that
\* cannot be taken for one.
LEMMA CleanByte ==
    ASSUME IInv, clean, MaySend, Arrives(frame[espPos])
    PROVE  \E done \in BOOLEAN :
             Received([DataRX EXCEPT ![espPos] = frame[espPos]], espPos + 1, TRUE, done)
<1>1. /\ espPos \in Int /\ 0 <= espPos /\ espPos < LEN /\ LEN \in Int
      /\ packetRX = espPos /\ (firstFFfound <=> espPos > 0) /\ ~booting
  BY PosFacts DEF IInv, TypeOK, MaySend, InStep
<1>2. appUserReadIndCallback(frame[espPos]) /\ accepted \in BOOLEAN
  BY <1>1 DEF Arrives, IInv, TypeOK
<1>3. CASE espPos = 0
  <2>1. StartsFrame(frame[espPos])
    BY <1>1, <1>3, SoundAssumption DEF StartsFrame, IInv, TypeOK
  <2>2. Received([DataRX EXCEPT ![0] = frame[espPos]], 1, TRUE, FALSE)
    BY <1>2, <2>1 DEF appUserReadIndCallback, Appends
  <2>3. espPos + 1 = 1
    BY <1>3
  <2>4. QED BY <1>3, <2>2, <2>3
<1>4. CASE espPos > 0
  <2>1. firstFFfound /\ ~StartsFrame(frame[espPos])
    BY <1>1, <1>4 DEF StartsFrame
  <2>2. Appends(frame[espPos])
    BY <1>1, <2>1 DEF Appends, IInv, Filling
  <2>3. Received([DataRX EXCEPT ![packetRX] = frame[espPos]], packetRX + 1, firstFFfound, accepted)
    BY <1>2, <2>1, <2>2 DEF appUserReadIndCallback
  <2>4. firstFFfound = TRUE
    BY <2>1 DEF IInv, TypeOK
  <2>5. Received([DataRX EXCEPT ![espPos] = frame[espPos]], espPos + 1, TRUE, accepted)
    BY <1>1, <2>3, <2>4, Zenon
  <2>6. QED BY <1>2, <2>5
<1>5. espPos = 0 \/ espPos > 0
  BY <1>1
<1>6. QED BY <1>3, <1>4, <1>5, Zenon

\* After it the two sides are in step again, and a frame sent for the second
\* time is answered once its checksum, there since the first, is looked at.
LEMMA CleanStep ==
    ASSUME IInv, SendByte, clean'
    PROVE  InStep' /\ SecondTry'
<1>1. /\ MaySend /\ clean /\ ~booting' /\ Arrives(frame[espPos]) /\ espPos' = espPos + 1
      /\ frame' = frame /\ tries' = tries
  BY DEF SendByte
<1> DEFINE data == [DataRX EXCEPT ![espPos] = frame[espPos]]
           n    == espPos + 1
<1>2. PICK done \in BOOLEAN : Received(data, n, TRUE, done)
  BY <1>1, CleanByte
<1>3. /\ espPos \in Int /\ 0 <= espPos /\ espPos < LEN /\ LEN \in Int /\ LEN >= 3
      /\ espPos \in Pos /\ tries \in Int /\ espPos' \in 0 .. LEN
  BY <1>1 DEF IInv, TypeOK, MaySend, Pos
<1>4. /\ DataRX \in [Pos -> Byte] /\ frame \in [Pos -> Byte] /\ frame \in Frames
      /\ \A k \in 0 .. espPos - 1 : DataRX[k] = frame[k]
  BY <1>1 DEF IInv, TypeOK, InStep
<1>5. data \in [Pos -> Byte] /\ \A k \in 0 .. espPos : data[k] = frame[k]
  <2>1. \A k \in Pos : data[k] = IF k = espPos THEN frame[espPos] ELSE DataRX[k]
    BY <1>4
  <2>2. \A k \in 0 .. espPos : k \in Pos /\ (k = espPos \/ k \in 0 .. espPos - 1)
    BY <1>3 DEF Pos
  <2>3. QED BY <1>4, <1>3, <2>1, <2>2
<1>6. tries > 0 => tries = 1 /\ data[LEN - 1] = frame[LEN - 1] /\ (espPos >= LEN - 1 => ackSeen)
  <2>1. tries > 0 => tries = 1 /\ DataRX[LEN - 1] = frame[LEN - 1] /\ (espPos >= LEN - 1 => ackSeen)
    BY <1>1 DEF IInv, SecondTry
  <2>2. data[LEN - 1] = IF LEN - 1 = espPos THEN frame[espPos] ELSE DataRX[LEN - 1]
    BY <1>4, PosFacts
  <2>3. QED BY <2>1, <2>2
<1>7. tries > 0 /\ n = LEN - 1 => ChecksumOK(data)
  <2> SUFFICES ASSUME tries > 0, n = LEN - 1 PROVE data = frame
    BY <1>4, SoundAssumption
  <2>1. \A k \in Pos : k \in 0 .. espPos \/ k = LEN - 1
    BY <1>3 DEF Pos
  <2>2. \A k \in Pos : data[k] = frame[k]
    BY <1>5, <1>6, <2>1
  <2> HIDE DEF data
  <2>3. QED BY <1>4, <1>5, <2>2
<1> HIDE DEF data
<1>8. /\ DataRX' = data
      /\ n = LEN => packetRX' = 0 /\ ~firstFFfound'
      /\ n # LEN => packetRX' = n /\ firstFFfound'
      /\ ackSeen \/ (n = LEN - 1 /\ ChecksumOK(data)) => ackSeen'
  <2>1. CASE Collect(data, n, TRUE, done)
    <3>1. n # LEN - 1 /\ DataRX' = data /\ ackSeen' = ackSeen
      BY <2>1 DEF Collect
    <3>2. IF n >= LEN THEN packetRX' = 0 /\ firstFFfound' = FALSE
                      ELSE packetRX' = n /\ firstFFfound' = TRUE
      BY <2>1, Zenon DEF Collect
    <3>3. n >= LEN <=> n = LEN
      BY <1>3
    <3>4. QED BY <3>1, <3>2, <3>3, Zenon
  <2>2. CASE Reject(data, n, TRUE, done)
    <3>1. /\ n = LEN - 1 /\ ~ChecksumOK(data) /\ DataRX' = data /\ ackSeen' = ackSeen
          /\ packetRX' = n /\ firstFFfound' = TRUE
      BY <2>2 DEF Reject
    <3>2. n # LEN
      BY <1>3, <3>1
    <3>3. QED BY <3>1, <3>2, Zenon
  <2>3. CASE Accept(data, n, TRUE)
    <3>1. /\ n = LEN - 1 /\ DataRX' = data /\ ackSeen' = TRUE
          /\ packetRX' = n /\ firstFFfound' = TRUE
      BY <2>3 DEF Accept
    <3>2. n # LEN
      BY <1>3, <3>1
    <3>3. QED BY <3>1, <3>2, Zenon
  <2>4. CASE AcceptReset(data, n)
    BY <1>1, <2>4 DEF AcceptReset
  <2>5. QED BY <1>2, <2>1, <2>2, <2>3, <2>4 DEF Received
<1>9. InStep'
  <2>1. espPos' % LEN = IF n = LEN THEN 0 ELSE n
    BY <1>1, <1>3, PosFacts
  <2>2. packetRX' = espPos' % LEN
    BY <1>8, <2>1
  <2>3. firstFFfound' <=> packetRX' > 0
    <3>1. CASE n = LEN
      BY <1>8, <3>1
    <3>2. CASE n # LEN
      BY <1>3, <1>8, <3>2
    <3>3. QED BY <3>1, <3>2
  <2>4. \A k \in 0 .. espPos' - 1 : DataRX'[k] = frame'[k]
    <3>1. espPos' - 1 = espPos
      BY <1>1, <1>3
    <3>2. DataRX' = data /\ frame' = frame
      BY <1>1, <1>8
    <3>3. QED BY <1>5, <3>1, <3>2
  <2>5. QED BY <2>2, <2>3, <2>4, Zenon DEF InStep
<1>10. SecondTry'
  <2>1. tries > 0 => (espPos + 1 >= LEN - 1 => ackSeen')
    <3> SUFFICES ASSUME tries > 0, espPos + 1 >= LEN - 1 PROVE ackSeen'
      OBVIOUS
    <3>1. espPos >= LEN - 1 \/ n = LEN - 1
      BY <1>3
    <3>2. QED BY <1>6, <1>7, <1>8, <3>1, Zenon
  <2>2. tries > 0 => tries = 1 /\ DataRX'[LEN - 1] = frame'[LEN - 1]
    BY <1>1, <1>6, <1>8
  <2>3. QED BY <1>1, <2>1, <2>2, Zenon DEF SecondTry
<1>11. QED BY <1>9, <1>10

-----------------------------------------------------------------------------
(***************************************************************************)
(* The inductive invariant is preserved.                                    *)
(***************************************************************************)

\* A byte is sent, lost or damaged.
LEMMA SendStep == IInv /\ SendByte => IInv'
<1> SUFFICES ASSUME IInv, SendByte PROVE IInv'
  OBVIOUS
<1>1. /\ MaySend /\ Arrives(frame[espPos]) /\ espPos' = espPos + 1
      /\ UNCHANGED <<frame, tries, faults>> /\ clean' = (clean /\ ~booting')
  BY DEF SendByte
<1>2. espPos + 1 \in 0 .. LEN /\ frame[espPos] \in Byte
  BY <1>1 DEF IInv, TypeOK, MaySend, Pos
<1>3. /\ DataRX' \in [Pos -> Byte] /\ packetRX' \in Pos
      /\ firstFFfound' \in BOOLEAN /\ accepted' \in BOOLEAN
      /\ pinAck' \in {0, 1} /\ booting' \in BOOLEAN /\ ackSeen' \in BOOLEAN
      /\ Filling' /\ OnePulse'
  BY <1>1, <1>2, ByteOK DEF IInv
<1>4. TypeOK'
  BY <1>1, <1>2, <1>3, Zenon DEF IInv, TypeOK, OnePulse
<1>5. CASE clean'
  BY <1>1, <1>3, <1>4, <1>5, CleanStep DEF IInv
<1>6. CASE ~clean'
  BY <1>3, <1>4, <1>6 DEF IInv, InStep, SecondTry
<1>7. QED BY <1>5, <1>6

LEMMA LoseStep == IInv /\ LoseByte => IInv'
<1> SUFFICES ASSUME IInv, LoseByte PROVE IInv'
  OBVIOUS
<1>1. /\ MaySend /\ faults < MaxFaults /\ espPos' = espPos + 1 /\ faults' = faults + 1
      /\ clean' = FALSE /\ UNCHANGED <<hub, pinAck, pulses, booting, frame, tries, ackSeen>>
  BY DEF LoseByte
<1>2. espPos' \in 0 .. LEN /\ faults' \in 0 .. MaxFaults /\ espPos \in Int
  BY <1>1 DEF IInv, TypeOK, MaySend
<1>3. TypeOK'
  BY <1>1, <1>2, Zenon DEF IInv, TypeOK, hub
<1>4. Filling'
  BY <1>1 DEF IInv, Filling, hub
<1>5. OnePulse'
  <2>1. Need' = Need /\ Need \in Int
    BY <1>1 DEF Need, hub, IInv, TypeOK, Pos
  <2>2. QED BY <1>1, <1>2, <2>1 DEF IInv, OnePulse, MaySend
<1>6. QED BY <1>1, <1>3, <1>4, <1>5 DEF IInv, InStep, SecondTry

LEMMA DamageStep == IInv /\ DamageByte => IInv'
<1> SUFFICES ASSUME IInv, DamageByte PROVE IInv'
  OBVIOUS
<1>1. PICK b \in Byte : Arrives(b)
  BY DEF DamageByte
<1>2. /\ MaySend /\ faults < MaxFaults /\ espPos' = espPos + 1 /\ faults' = faults + 1
      /\ clean' = FALSE /\ UNCHANGED <<frame, tries>>
  BY DEF DamageByte
<1>3. espPos' \in 0 .. LEN /\ faults' \in 0 .. MaxFaults
  BY <1>2 DEF IInv, TypeOK, MaySend
<1>4. /\ DataRX' \in [Pos -> Byte] /\ packetRX' \in Pos
      /\ firstFFfound' \in BOOLEAN /\ accepted' \in BOOLEAN
      /\ pinAck' \in {0, 1} /\ booting' \in BOOLEAN /\ ackSeen' \in BOOLEAN
      /\ Filling' /\ OnePulse'
  BY <1>1, <1>2, ByteOK DEF IInv
<1>5. TypeOK'
  BY <1>2, <1>3, <1>4, Zenon DEF IInv, TypeOK, OnePulse
<1>6. QED BY <1>2, <1>4, <1>5 DEF IInv, InStep, SecondTry

\* The next frame starts at its first place, where the hub is; the one under way
\* has been answered.
LEMMA NextFrameStep == IInv /\ NextFrame => IInv'
<1> SUFFICES ASSUME IInv, NextFrame PROVE IInv'
  OBVIOUS
<1>1. /\ espPos = LEN /\ frame' \in Frames /\ espPos' = 0 /\ tries' = 0 /\ ackSeen' = FALSE
      /\ UNCHANGED <<hub, pinAck, pulses, booting, faults, clean>>
  BY DEF NextFrame
<1>2. TypeOK'
  <2>1. espPos' \in 0 .. LEN /\ tries' \in 0 .. MaxTries
    BY <1>1
  <2>2. QED BY <1>1, <2>1, Zenon DEF IInv, TypeOK, hub
<1>3. Filling' /\ OnePulse'
  BY <1>1 DEF IInv, Filling, OnePulse, hub
<1>4. InStep'
  BY <1>1, PosFacts DEF IInv, InStep, hub
<1>5. SecondTry'
  BY <1>1 DEF SecondTry
<1>6. QED BY <1>1, <1>2, <1>3, <1>4, <1>5 DEF IInv

\* A frame that was not answered is tried again, on a faultless link once only.
LEMMA RetryStep == IInv /\ Retry => IInv'
<1> SUFFICES ASSUME IInv, Retry PROVE IInv'
  OBVIOUS
<1>1. /\ espPos = LEN /\ ~ackSeen /\ espPos' = 0
      /\ tries' = IF tries < MaxTries THEN tries + 1 ELSE tries
      /\ UNCHANGED <<hub, pinAck, pulses, booting, frame, ackSeen, faults, clean>>
  BY DEF Retry
<1>2. TypeOK'
  <2>1. espPos' \in 0 .. LEN /\ tries' \in 0 .. MaxTries
    BY <1>1 DEF IInv, TypeOK
  <2>2. QED BY <1>1, <2>1, Zenon DEF IInv, TypeOK, hub
<1>3. Filling' /\ OnePulse'
  BY <1>1 DEF IInv, Filling, OnePulse, hub
<1>4. InStep'
  BY <1>1, PosFacts DEF IInv, InStep, hub
<1>5. SecondTry'
  <2> SUFFICES ASSUME clean PROVE tries' \in {0, 1} /\ DataRX[LEN - 1] = frame[LEN - 1]
    BY <1>1 DEF SecondTry, hub
  <2>1. tries \in Nat /\ ~(tries > 0)
    BY <1>1 DEF IInv, TypeOK, SecondTry
  <2>2. LEN - 1 \in 0 .. espPos - 1
    BY <1>1
  <2>3. QED BY <1>1, <2>1, <2>2 DEF IInv, InStep
<1>6. QED BY <1>1, <1>2, <1>3, <1>4, <1>5 DEF IInv

\* A pulse ends, and the chip has restarted.
LEMMA PulseStep == IInv /\ timerCallbackUartRxedPinToLow => IInv'
<1> SUFFICES ASSUME IInv, timerCallbackUartRxedPinToLow PROVE IInv'
  OBVIOUS
<1>1. pulses > 0 /\ pulses' = pulses - 1 /\ pinAck' = 0 /\ UNCHANGED <<hub, booting, esp>>
  BY DEF timerCallbackUartRxedPinToLow
<1>2. pulses' = 0 /\ pulses' \in 0 .. 1 /\ pinAck' \in {0, 1}
  BY <1>1 DEF IInv, OnePulse
<1>3. TypeOK'
  BY <1>1, <1>2, Zenon DEF IInv, TypeOK, hub, esp
<1>4. OnePulse'
  BY <1>1, <1>2 DEF OnePulse
<1>5. QED BY <1>1, <1>3, <1>4 DEF IInv, Filling, InStep, SecondTry, hub, esp

LEMMA BootStep == IInv /\ AppInit => IInv'
<1> SUFFICES ASSUME IInv, AppInit PROVE IInv'
  OBVIOUS
<1>1. booting' = FALSE /\ UNCHANGED <<hub, pinAck, pulses, esp>>
  BY DEF AppInit
<1>2. TypeOK'
  BY <1>1, Zenon DEF IInv, TypeOK, hub, esp
<1>3. OnePulse'
  BY <1>1 DEF IInv, OnePulse, Need, hub, esp
<1>4. QED BY <1>1, <1>2, <1>3 DEF IInv, Filling, InStep, SecondTry, hub, esp

LEMMA NextIInv == IInv /\ [Next]_vars => IInv'
<1> SUFFICES ASSUME IInv, [Next]_vars PROVE IInv'
  OBVIOUS
<1>1. CASE Next
  BY <1>1, SendStep, LoseStep, DamageStep, NextFrameStep, RetryStep, PulseStep, BootStep, Zenon
     DEF Next
<1>2. CASE UNCHANGED vars
  <2>1. UNCHANGED <<hub, pinAck, pulses, booting, esp>>
    BY <1>2 DEF vars
  <2>2. TypeOK'
    BY <2>1, Zenon DEF IInv, TypeOK, hub, esp
  <2>3. OnePulse'
    BY <2>1 DEF IInv, OnePulse, Need, hub, esp
  <2>4. QED BY <2>1, <2>2, <2>3 DEF IInv, Filling, InStep, SecondTry, hub, esp
<1>3. QED BY <1>1, <1>2

-----------------------------------------------------------------------------
(***************************************************************************)
(* The theorems.                                                            *)
(***************************************************************************)

\* Whatever is lost, damaged or reset, the buffer never overflows and the pin is
\* never held by two pulses at once.
THEOREM TypeCorrect == Spec => []TypeOK
<1>1. IInv => TypeOK
  BY DEF IInv
<1>2. QED BY <1>1, InitIInv, NextIInv, PTL DEF Spec

\* While nothing has been lost, the hub assembles exactly what the gateway sends,
\* whatever values the bytes of the frames have.
THEOREM AssemblyInStep == Spec => []InStep
<1>1. IInv => InStep
  BY DEF IInv
<1>2. QED BY <1>1, InitIInv, NextIInv, PTL DEF Spec

\* Although a frame is judged by the checksum of the one before it, on such a link
\* every frame is answered by its second try.
THEOREM AnsweredBySecondTry == Spec => []SecondTrySucceeds
<1>1. IInv => SecondTrySucceeds
  BY DEF IInv, TypeOK, SecondTry, SecondTrySucceeds
<1>2. QED BY <1>1, InitIInv, NextIInv, PTL DEF Spec
=============================================================================
