------------------------------- MODULE UartRx -------------------------------
(***************************************************************************)
(* The receive side of the UART link: the gateway sends frames of a header,  *)
(* a body and a checksum byte; the hub assembles them byte by byte in        *)
(* appUserReadIndCallback (main_app.c), lets ProcessRxData check and execute *)
(* them, and answers with a pulse on PIN_CSR_ACK.  A frame that is not       *)
(* answered is sent again.                                                  *)
(*                                                                         *)
(* Frames are shorter and bytes have fewer values than in the code; which    *)
(* values are headers, and which command resets the chip, are parameters.   *)
(***************************************************************************)
EXTENDS Integers, FiniteSetsExt

CONSTANTS
    LEN,          \* MAX_LENGTH_RX_DATA_TO_RECEIVE: bytes of a frame
    Radix,        \* number of byte values
    Header,       \* the byte values that start a frame: FF, FE, FD
    Config,       \* the one of them that carries commands to the hub: FE
    Reset,        \* the command bytes after it that reset the chip: 02, 03
    Frames,       \* the frames the gateway sends
    MaxFaults,    \* bound: bytes the link loses or damages
    MaxTries      \* bound: the count of retransmissions stops here

Byte == 0 .. Radix - 1
Pos  == 0 .. LEN - 1

ASSUME LenAssumption == LEN \in Nat /\ LEN >= 3
ASSUME ByteAssumption == Radix \in Nat \ {0} /\ Header \subseteq Byte \ {0}
                         /\ Config \in Header /\ Reset \subseteq Byte
ASSUME FramesAssumption == Frames \subseteq [Pos -> Byte]
ASSUME RxBoundAssumption == MaxFaults \in Nat /\ MaxTries \in Nat

VARIABLES
    DataRX,         \* the frame buffer
    packetRX,       \* bytes of the current frame assembled so far
    firstFFfound,   \* the current frame's header has been seen
    pinAck,         \* level of PIN_CSR_ACK
    pulses,         \* 75 ms timers that will lower it
    booting,        \* the chip restarts, nothing is received
    accepted,       \* history: the frame in DataRX has been executed
    frame,          \* the frame the gateway sends
    espPos,         \* bytes of it sent in this try
    tries,          \* tries that went unanswered
    ackSeen,        \* PIN_CSR_ACK has gone high during this try
    faults,         \* bytes lost or damaged so far
    clean           \* history: no byte lost or damaged, no reset so far

hub  == <<DataRX, packetRX, firstFFfound, accepted>>
esp  == <<frame, espPos, tries, ackSeen, faults, clean>>
vars == <<hub, pinAck, pulses, booting, esp>>

\* The sum of all bytes but the last, in one byte.
genUartCheckSum(data) ==
    FoldSet(LAMBDA k, sum : (sum + data[k]) % Radix, 0, 0 .. LEN - 2)

\* Static data after a reset.
Zeroed == [k \in Pos |-> 0]

Init ==
    /\ DataRX = Zeroed /\ packetRX = 0 /\ firstFFfound = FALSE /\ accepted = FALSE
    /\ pinAck = 0 /\ pulses = 0 /\ booting = FALSE
    /\ frame \in Frames
    /\ espPos = 0 /\ tries = 0 /\ ackSeen = FALSE /\ faults = 0 /\ clean = TRUE

-----------------------------------------------------------------------------
\* ProcessRxData with LEN - 1 bytes assembled: the checksum it compares with is
\* whatever DataRX holds in its last place.
ChecksumOK(data) == genUartCheckSum(data) = data[LEN - 1]
IsReset(data)    == data[0] = Config /\ data[1] \in Reset

\* The gateway's frames start with a header and carry their checksum.
ASSUME SoundAssumption == \A f \in Frames : f[0] \in Header /\ ChecksumOK(f)

\* Mutants of Collect: a complete frame leaves the count, or leaves the search
\* for the next header, as they are.
CollectKeepsCount(data, n, found, done) ==
    /\ n # LEN - 1
    /\ DataRX' = data /\ accepted' = done
    /\ packetRX' = n
    /\ firstFFfound' = (found /\ n < LEN)
    /\ UNCHANGED <<pinAck, pulses, booting, ackSeen>>

CollectKeepsFound(data, n, found, done) ==
    /\ n # LEN - 1
    /\ DataRX' = data /\ accepted' = done
    /\ packetRX' = IF n >= LEN THEN 0 ELSE n
    /\ firstFFfound' = found
    /\ UNCHANGED <<pinAck, pulses, booting, ackSeen>>

\* The rest of the callback, once the byte is in the buffer data with n bytes;
\* done says whether this frame has been executed.
\* Nothing to check yet, or the frame is complete and the next one is awaited.
Collect(data, n, found, done) ==
    /\ n # LEN - 1
    /\ DataRX' = data /\ accepted' = done
    /\ IF n >= LEN THEN packetRX' = 0 /\ firstFFfound' = FALSE
                   ELSE packetRX' = n /\ firstFFfound' = found
    /\ UNCHANGED <<pinAck, pulses, booting, ackSeen>>

\* The check fails: nothing happens, the gateway will time out.
Reject(data, n, found, done) ==
    /\ n = LEN - 1 /\ ~ChecksumOK(data)
    /\ DataRX' = data /\ packetRX' = n /\ firstFFfound' = found /\ accepted' = done
    /\ UNCHANGED <<pinAck, pulses, booting, ackSeen>>

\* The check succeeds: the command is executed and PIN_CSR_ACK goes high.
Accept(data, n, found) ==
    /\ n = LEN - 1 /\ ChecksumOK(data)
    /\ ~IsReset(data)
    /\ DataRX' = data /\ packetRX' = n /\ firstFFfound' = found /\ accepted' = TRUE
    /\ pinAck' = 1 /\ pulses' = pulses + 1
    /\ ackSeen' = TRUE
    /\ UNCHANGED booting

\* The same for a command that resets the chip, which clears everything.
AcceptReset(data, n) ==
    /\ n = LEN - 1 /\ ChecksumOK(data)
    /\ IsReset(data)
    /\ DataRX' = Zeroed /\ packetRX' = 0 /\ firstFFfound' = FALSE /\ accepted' = FALSE
    /\ pinAck' = 0 /\ pulses' = 0
    /\ ackSeen' = TRUE
    /\ booting' = TRUE

Received(data, n, found, done) ==
    \/ Collect(data, n, found, done)
    \/ Reject(data, n, found, done)
    \/ Accept(data, n, found)
    \/ AcceptReset(data, n)

\* Mutant of StartsFrame: any byte with the value of a header starts a frame.
StartsAnywhere(b) == b \in Header

\* appUserReadIndCallback with byte b: a header when none has been seen starts
\* a frame; any byte is appended to a buffer that starts with a header; other
\* bytes are dropped.
StartsFrame(b) == b \in Header /\ ~firstFFfound

\* Mutant of Appends: the last byte of a frame is not taken.
AppendsAllButLast(b) == ~StartsFrame(b) /\ DataRX[0] \in Header /\ packetRX < LEN - 1
Appends(b)           == ~StartsFrame(b) /\ DataRX[0] \in Header /\ packetRX < LEN

appUserReadIndCallback(b) ==
    \/ /\ StartsFrame(b)
       /\ Received([DataRX EXCEPT ![0] = b], 1, TRUE, FALSE)
    \/ /\ Appends(b)
       /\ Received([DataRX EXCEPT ![packetRX] = b], packetRX + 1, firstFFfound, accepted)
    \/ /\ ~StartsFrame(b) /\ ~Appends(b)
       /\ Received(DataRX, packetRX, firstFFfound, accepted)

-----------------------------------------------------------------------------
\* The gateway starts a frame with PIN_CSR_ACK low again.
MaySend == espPos < LEN /\ (espPos = 0 => pinAck = 0)

Arrives(b) ==
    IF booting THEN UNCHANGED <<hub, pinAck, pulses, booting, ackSeen>>
               ELSE appUserReadIndCallback(b)

SendByte ==
    /\ MaySend
    /\ Arrives(frame[espPos])
    /\ espPos' = espPos + 1
    /\ clean' = (clean /\ ~booting')
    /\ UNCHANGED <<frame, tries, faults>>

LoseByte ==
    /\ MaySend /\ faults < MaxFaults
    /\ espPos' = espPos + 1
    /\ faults' = faults + 1 /\ clean' = FALSE
    /\ UNCHANGED <<hub, pinAck, pulses, booting, frame, tries, ackSeen>>

DamageByte ==
    /\ MaySend /\ faults < MaxFaults
    /\ \E b \in Byte \ {frame[espPos]} : Arrives(b)
    /\ espPos' = espPos + 1
    /\ faults' = faults + 1 /\ clean' = FALSE
    /\ UNCHANGED <<frame, tries>>

\* An answered frame is done with; another one is sent again after a timeout.
NextFrame ==
    /\ espPos = LEN /\ ackSeen
    /\ frame' \in Frames
    /\ espPos' = 0 /\ tries' = 0 /\ ackSeen' = FALSE
    /\ UNCHANGED <<hub, pinAck, pulses, booting, faults, clean>>

Retry ==
    /\ espPos = LEN /\ ~ackSeen
    /\ espPos' = 0
    /\ tries' = IF tries < MaxTries THEN tries + 1 ELSE tries
    /\ UNCHANGED <<hub, pinAck, pulses, booting, frame, ackSeen, faults, clean>>

\* A 75 ms timer expires.
timerCallbackUartRxedPinToLow ==
    /\ pulses > 0
    /\ pulses' = pulses - 1
    /\ pinAck' = 0
    /\ UNCHANGED <<hub, booting, esp>>

\* The chip has restarted and reads the UART again, perhaps in mid-frame.
AppInit ==
    /\ booting
    /\ booting' = FALSE
    /\ UNCHANGED <<hub, pinAck, pulses, esp>>

Next ==
    \/ SendByte \/ LoseByte \/ DamageByte \/ NextFrame \/ Retry
    \/ timerCallbackUartRxedPinToLow \/ AppInit

Spec == Init /\ [][Next]_vars

\* The gateway keeps sending and retrying, timers expire, the chip restarts.
FairSpec ==
    /\ Spec
    /\ WF_vars(SendByte) /\ WF_vars(NextFrame) /\ WF_vars(Retry)
    /\ WF_vars(timerCallbackUartRxedPinToLow) /\ WF_vars(AppInit)

-----------------------------------------------------------------------------
\* The type invariant; at most one pulse is under way at any time.
TypeOK ==
    /\ DataRX \in [Pos -> Byte] /\ packetRX \in Pos /\ firstFFfound \in BOOLEAN
    /\ pinAck \in {0, 1} /\ pulses \in 0 .. 1
    /\ booting \in BOOLEAN /\ accepted \in BOOLEAN /\ ackSeen \in BOOLEAN
    /\ frame \in Frames /\ espPos \in 0 .. LEN /\ tries \in 0 .. MaxTries
    /\ faults \in 0 .. MaxFaults /\ clean \in BOOLEAN

\* Without faults and resets the hub and the gateway agree on where a frame starts, even
\* when bytes inside the frames have the value of a header (the comment at
\* main_app.c:494), and the hub assembles exactly what was sent.
InStep ==
    clean =>
      /\ packetRX = espPos % LEN /\ (firstFFfound <=> packetRX > 0)
      /\ \A k \in 0 .. espPos - 1 : DataRX[k] = frame[k]

\* The checksum that decides about a frame is the one stored with the frame
\* before it.  On a faultless link a frame with a right checksum nevertheless
\* gets through, on its second try at the latest.
SecondTrySucceeds == clean => tries <= 1

\* Once the link has stopped losing and damaging bytes, whatever state that and
\* the frames before left the two sides in, the frame under way is executed in the
\* end if only its first byte has the value of a header.
Plain(f) == \A k \in 1 .. LEN - 1 : f[k] \notin Header
EventuallyAnswered == []<>(ackSeen \/ ~Plain(frame))

\* main_app.c:494: a byte of the frame that has the value of a header is no
\* problem.  So any frame is executed in the end.
AnyFrameAnswered == []<>ackSeen

\* ONESECOND.c:176: PIN_CSR_ACK goes high after the checksum is found right, so
\* a frame that was answered, once complete, carries its own checksum.
AnsweredIsIntact == packetRX = 0 /\ accepted => ChecksumOK(DataRX)
=============================================================================
