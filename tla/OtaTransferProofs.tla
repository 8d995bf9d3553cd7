-------------------------- MODULE OtaTransferProofs --------------------------
(***************************************************************************)
(* The transfer of the file, on top of UpgradeInOrder: the packet under    *)
(* way is the one the server's parser waits for, and a store never takes   *)
(* more than the chunks of an image.                                       *)
(*                                                                         *)
(* Neither side numbers the packets.  What keeps them in step is that one  *)
(* thing at a time entitles the client to the next packet: the command     *)
(* that starts the transfer, a packet, a request for packets, an erasure   *)
(* that will be followed by one, or, in the middle of a request of two,    *)
(* the acknowledgement.  Each becomes another or is lost (Turn), and with  *)
(* it goes what the parser expects (Sent).                                 *)
(***************************************************************************)
EXTENDS OtaUpdateProofs

Bytes == "DATA_BYTES_REQ"

\* What a queue of notifications x can hold
Within(x, S) == x.held \in S /\ \A i \in 1 .. Len(x.q) : x.q[i] \in S

Free(x, t) == Within(x, {m \in Message : m.t # t})

Once(x, t) == \A i \in 1 .. Len(x.q) : x.q[i].t = t =>
                x.held.t # t /\ \A j \in 1 .. Len(x.q) : x.q[j].t = t => j = i

Full(x) == x.held # None /\ ~x.done => x.used >= TxBuffers

\* Requests of one packet, and requests of one or two
Ones == {m \in Message : m.t = Bytes => m.v = 1}
Twos == {m \in Message : m.t = Bytes => m.v \in {1, 2}}

\* An acknowledgement behind a request of two would be taken for its first packet's.
AcksFirst(x) == \A i \in 1 .. Len(x.q) : x.q[i] \notin Ones =>
                    x.held.t # "ack" /\ \A j \in i + 1 .. Len(x.q) : x.q[j].t # "ack"

Erasing == ~New /\ Ops({"set"})
More == cl.state = "TRANSFER" /\ cl.left > 0

(***************************************************************************)
(* One thing at a time leads to the next packet.                           *)
(***************************************************************************)
Turn == link =>
    /\ Once(tx, Bytes)
    /\ Erasing => Free(tx, Bytes)
    /\ Out("START_DATA_REQ") \/ Out("DATA") \/ More => Free(tx, Bytes) /\ ~Erasing
    /\ Out("START_DATA_REQ") => ~Out("DATA") /\ ~More
    /\ ~(up.t = "DATA" /\ wr.pend.t = "DATA")

(***************************************************************************)
(* Packet v is the one the parser waits for.                               *)
(***************************************************************************)
Due(v) ==
    \/ dev.stage = "id" /\ v = 1 /\ dev.got = 0
    \/ dev.stage = "len" /\ v = 2 /\ dev.got = 0
    \/ dev.stage = "body" /\ ((v = 3 /\ dev.got = 0) \/ v = 4)
    \/ dev.stage = "unknown" /\ ((v = 5 /\ dev.got = 0) \/ v = 7 + Chunks)
    \/ dev.stage = "phdr" /\ v = 6 /\ dev.got = 0
    \/ dev.stage = "data" /\ v = 7 + dev.got /\ dev.got < Chunks
    \/ dev.stage = "flen" /\ v = 8 + Chunks
    \/ dev.stage = "sig" /\ v = 9 + Chunks + dev.got /\ dev.got < Sigs

Sent == link =>
    /\ \A m \in {up, wr.pend} : m.t = "DATA" => Due(m.v) /\ (Handing => m.v = cl.off)
    /\ Handing /\ (~Free(tx, Bytes) \/ Erasing) => Due(cl.off + 1)
    /\ ~Started => dev.got = 0
    /\ Handing /\ Out("START_DATA_REQ") => cl.off = 0
    /\ cl.state = "START_REQ" => cl.off = 0
    /\ Handing /\ ~Within(tx, Ones) => dev.stage = "body" /\ cl.off = 2
    /\ More => dev.stage = "body" /\ cl.left = 1 /\ cl.off = 3

(***************************************************************************)
(* The acknowledgements: in a request of two the first packet's calls for  *)
(* the second, so there must not be another.  That needs that the commands *)
(* before the transfer have been served (Controls, OldNotes) and that what *)
(* is held back is behind what is under way (Buffered).                    *)
(***************************************************************************)
Acks == link /\ Handing =>
    /\ AcksFirst(tx)
    /\ More /\ Out("DATA") => Free(tx, "ack")

Buffered ==
    cl.state \in {"SYNC_REQ", "START_REQ", "DATA_REQ", "TRANSFER"} => Full(tx)

Controls == link =>
    /\ wr.pend.t # "SYNC_REQ"
    /\ ~(up.t = "START_REQ" /\ wr.pend.t = "START_REQ")
    /\ PreStart /\ cl.state # "START_REQ" => ~Out("START_REQ")
    /\ Handing => ~Out("SYNC_REQ") /\ ~Out("START_REQ")
    /\ PreStart \/ Handing =>
        \A t \in {"VALID_DONE_REQ", "IN_PROGRESS_RES", "COMMIT_CFM"} : ~Out(t)

\* What may be left of an earlier connection comes before the first answer.
OldNotes == link =>
    /\ cl.state = "SYNC_REQ" => \A t \in {Bytes, "START_CFM"} :
        /\ tx.held.t = t => tx.done /\ tx.q = <<>> /\ tx.used = 0
                            /\ dev.state # "WAIT_FOR_DEVICE"
        /\ \A i \in 2 .. Len(tx.q) : tx.q[i].t # t
    /\ cl.state = "START_REQ" =>
        /\ Free(tx, Bytes)
        /\ ~Free(tx, "START_CFM") => ~Out("START_REQ") /\ ~Out("SYNC_REQ")

(***************************************************************************)
(* A client that commits hands out nothing in the same connection, so the  *)
(* parser can be reset by a commit.                                        *)
(***************************************************************************)
Committing == link =>
    /\ New /\ fw # <<>> => GivenUp
    /\ Out("COMMIT_CFM") => GivenUp
    /\ cl.state \in {"START_REQ_AFTER_REBOOT", "IN_PROGRESS_REQ", "COMMIT_REQ"} => GivenUp

(***************************************************************************)
(* What the firmware has yet to do for an old application: read the key,   *)
(* erase, or write k chunks and then hash.  A store takes no more chunks   *)
(* than there are, because packets come only after it has been erased.     *)
(***************************************************************************)
Chunked(k) == \A i \in 1 .. Len(fw) : fw[i].t = IF i <= k THEN "chunk" ELSE "hash"

Writable(k) ==
    /\ store[Other] + k <= Chunks
    /\ link /\ dev.stage = "data" /\ (Out("DATA") \/ (Handing /\ ~Free(tx, Bytes))) =>
        store[Other] + k <= dev.got

Work ==
    /\ ~New => \/ fw = <<Op("key", 0)>>
               \/ fw = <<Op("set", Other)>>
               \/ \E k \in 0 .. Len(fw) : Chunked(k) /\ Writable(k)
    /\ New /\ fw = <<Op("set", Other)>> => dev.cs = Other
    /\ \A s \in Stores : store[s] \in {Orig} \cup 0 .. Chunks

TInv == /\ Turn /\ Sent /\ Acks /\ Buffered /\ Controls /\ OldNotes
        /\ Committing /\ Work /\ Within(tx, Twos)
-----------------------------------------------------------------------------

(* Queues of notifications *)

LEMMA NotifyQueue ==
    ASSUME NEW x \in Queue, NEW m \in Message
    PROVE  /\ Notify(x, m) \in Queue /\ Notify(x, m).done = x.done
           /\ \A S : Within(x, S) /\ m \in S => Within(Notify(x, m), S)
           /\ \A t : Once(x, t) /\ (m.t # t \/ Free(x, t)) => Once(Notify(x, m), t)
           /\ Full(x) => Full(Notify(x, m))
           /\ AcksFirst(x) /\ m.t # "ack" /\ (m \notin Ones => Full(x) /\ ~x.done)
                => AcksFirst(Notify(x, m))
PROOF
<1> DEFINE y == Notify(x, m)
<1>1. /\ x.q \in Seq(Message) /\ Len(x.q) \in Nat /\ x.used \in Int
      /\ x.held \in Message /\ \A i \in 1 .. Len(x.q) : x.q[i] \in Message
  BY DEF Queue
<1>2. CASE x.used < TxBuffers
  <2>1. y = [x EXCEPT !.q = Append(@, m), !.used = @ + 1]
    BY <1>2 DEF Notify
  <2>2. /\ y.q = Append(x.q, m) /\ y.held = x.held /\ y.done = x.done
        /\ y.used = x.used + 1 /\ y \in Queue
    <3>1. x.used + 1 \in Int /\ Append(x.q, m) \in Seq(Message)
      BY <1>1
    <3> QED BY <2>1, <3>1 DEF Queue
  <2>3. /\ Len(y.q) = Len(x.q) + 1
        /\ \A i \in 1 .. Len(x.q) + 1 :
            y.q[i] = IF i <= Len(x.q) THEN x.q[i] ELSE m
    BY <1>1, <2>2
  <2> HIDE DEF y
  <2>4. \A S : Within(x, S) /\ m \in S => Within(y, S)
    BY <1>1, <2>2, <2>3 DEF Within
  <2>5. ASSUME NEW t, Once(x, t), m.t # t \/ Free(x, t)
        PROVE  Once(y, t)
    BY <1>1, <2>2, <2>3, <2>5 DEF Once, Free, Within
  <2>6. Full(x) => Full(y)
    BY <1>1, <1>2, <2>2, OtaLinkAssumption DEF Full
  <2>7. ASSUME AcksFirst(x), m.t # "ack", m \notin Ones => Full(x) /\ ~x.done
        PROVE  AcksFirst(y)
    <3>1. m \notin Ones => x.held.t # "ack"
      BY <1>1, <1>2, <2>7, MessageFields, OtaLinkAssumption DEF Full
    <3> QED BY <1>1, <2>2, <2>3, <2>7, <3>1 DEF AcksFirst
  <2> QED BY <2>2, <2>4, <2>5, <2>6, <2>7 DEF y
<1>3. CASE ~(x.used < TxBuffers)
  <2>1. y = [x EXCEPT !.held = m]
    BY <1>3 DEF Notify
  <2>2. /\ y.q = x.q /\ y.held = m /\ y.done = x.done
        /\ y.used = x.used /\ y \in Queue
    BY <2>1 DEF Queue
  <2> HIDE DEF y
  <2>3. \A S : Within(x, S) /\ m \in S => Within(y, S)
    BY <2>2 DEF Within
  <2>4. ASSUME NEW t, Once(x, t), m.t # t \/ Free(x, t)
        PROVE  Once(y, t)
    BY <2>2, <2>4 DEF Once, Free, Within
  <2>5. Full(y)
    BY <1>1, <1>3, <2>2, OtaLinkAssumption DEF Full
  <2>6. ASSUME AcksFirst(x), m.t # "ack"
        PROVE  AcksFirst(y)
    BY <2>2, <2>6 DEF AcksFirst
  <2> QED BY <2>2, <2>3, <2>4, <2>5, <2>6 DEF y
<1> QED BY <1>2, <1>3

LEMMA HeardQueue ==
    ASSUME Types
    PROVE  /\ Heard \in Queue /\ Heard.done = tx.done
           /\ \A S : Within(tx, S) /\ WriteCfm \in S => Within(Heard, S)
           /\ \A t : Once(tx, t) /\ t # "write_cfm" => Once(Heard, t)
           /\ Full(tx) => Full(Heard)
           /\ AcksFirst(tx) => AcksFirst(Heard)
PROOF
<1>1. /\ tx \in Queue /\ tx.q \in Seq(Message) /\ Len(tx.q) \in Nat
      /\ \A i \in 1 .. Len(tx.q) : tx.q[i] \in Message
      /\ WriteCfm \in Message /\ WriteCfm.t = "write_cfm"
  BY Messages, MessageFields DEF Types, Queue
<1> DEFINE y == Heard
<1>2. /\ y \in Queue /\ y.q = Append(tx.q, WriteCfm) /\ y.held = tx.held
      /\ y.done = tx.done /\ y.used = tx.used
  BY <1>1 DEF Heard, Queue
<1>3. /\ Len(y.q) = Len(tx.q) + 1
      /\ \A i \in 1 .. Len(tx.q) + 1 :
            y.q[i] = IF i <= Len(tx.q) THEN tx.q[i] ELSE WriteCfm
  BY <1>1, <1>2
<1> HIDE DEF y
<1>4. \A S : Within(tx, S) /\ WriteCfm \in S => Within(y, S)
  BY <1>1, <1>2, <1>3 DEF Within
<1>5. ASSUME NEW t, Once(tx, t), t # "write_cfm"
      PROVE  Once(y, t)
  BY <1>1, <1>2, <1>3, <1>5 DEF Once
<1>6. Full(tx) => Full(y)
  BY <1>2 DEF Full
<1>7. AcksFirst(tx) => AcksFirst(y)
  <2>1. WriteCfm \in Ones /\ WriteCfm.t # "ack"
    BY <1>1 DEF Ones, Bytes
  <2> QED BY <1>1, <1>2, <1>3, <2>1 DEF AcksFirst
<1> QED BY <1>2, <1>4, <1>5, <1>6, <1>7 DEF y

(* A free queue has no request of two. *)
LEMMA FreeQueue ==
    ASSUME NEW x \in Queue, Free(x, Bytes)
    PROVE  Within(x, Ones) /\ AcksFirst(x) /\ Once(x, Bytes)
PROOF
<1>1. \A m \in Message : m.t # Bytes => m \in Ones
  BY DEF Ones
<1>2. Within(x, Ones)
  BY <1>1 DEF Free, Within
<1>3. AcksFirst(x)
  BY <1>2 DEF AcksFirst, Within
<1>4. Once(x, Bytes)
  BY DEF Once, Free, Within
<1> QED BY <1>2, <1>3, <1>4

(* What the server answers to a command *)
LEMMA AnswerQueue ==
    ASSUME Types, NEW m \in Message,
           tx' \in {Heard, Acked, Notify(Heard, m), Notify(Acked, m)}
    PROVE  /\ tx' \in Queue /\ tx'.done = tx.done
           /\ \A S : Within(tx, S) /\ {WriteCfm, Ack, m} \subseteq S => Within(tx', S)
           /\ \A t : Once(tx, t) /\ t \notin {"write_cfm", "ack"}
                     /\ (m.t # t \/ Free(tx, t)) => Once(tx', t)
           /\ Full(tx) => Full(tx')
           /\ Free(tx, Bytes) /\ m.t # "ack" /\ (m \notin Ones => Full(tx) /\ ~tx.done)
                => AcksFirst(tx')
           /\ AcksFirst(tx) /\ m.t # "ack" /\ m \in Ones
              /\ tx' \in {Heard, Notify(Heard, m)} => AcksFirst(tx')
PROOF
<1>1. /\ tx \in Queue /\ Ack \in Message /\ Ack.t = "ack"
      /\ WriteCfm \in Message /\ WriteCfm.t = "write_cfm"
  BY Messages, MessageFields DEF Types
<1>2. /\ Heard \in Queue /\ Heard.done = tx.done
      /\ \A S : Within(tx, S) /\ WriteCfm \in S => Within(Heard, S)
      /\ \A t : Once(tx, t) /\ t # "write_cfm" => Once(Heard, t)
      /\ Full(tx) => Full(Heard)
      /\ AcksFirst(tx) => AcksFirst(Heard)
  BY HeardQueue
<1>3. /\ Acked \in Queue /\ Acked.done = tx.done
      /\ \A S : Within(tx, S) /\ {WriteCfm, Ack} \subseteq S => Within(Acked, S)
      /\ \A t : Once(tx, t) /\ t \notin {"write_cfm", "ack"} => Once(Acked, t)
      /\ Full(tx) => Full(Acked)
  BY <1>1, <1>2, NotifyQueue DEF Acked
<1>4. ASSUME NEW t, Free(tx, t), t \notin {"write_cfm", "ack"}
      PROVE  Free(Heard, t) /\ Free(Acked, t)
  BY <1>1, <1>2, <1>3, <1>4 DEF Free
<1>5. ASSUME NEW y \in {Heard, Acked}, tx' = Notify(y, m)
      PROVE  /\ tx' \in Queue /\ tx'.done = tx.done
             /\ \A S : Within(tx, S) /\ {WriteCfm, Ack, m} \subseteq S => Within(tx', S)
             /\ \A t : Once(tx, t) /\ t \notin {"write_cfm", "ack"}
                       /\ (m.t # t \/ Free(tx, t)) => Once(tx', t)
             /\ Full(tx) => Full(tx')
             /\ Free(tx, Bytes) /\ m.t # "ack"
                /\ (m \notin Ones => Full(tx) /\ ~tx.done) => AcksFirst(tx')
  <2>1. /\ y \in Queue /\ y.done = tx.done
        /\ \A S : Within(tx, S) /\ {WriteCfm, Ack} \subseteq S => Within(y, S)
        /\ \A t : Once(tx, t) /\ t \notin {"write_cfm", "ack"} => Once(y, t)
        /\ Full(tx) => Full(y)
        /\ \A t : Free(tx, t) /\ t \notin {"write_cfm", "ack"} => Free(y, t)
    BY <1>2, <1>3, <1>4
  <2>2. /\ tx' \in Queue /\ tx'.done = y.done
        /\ \A S : Within(y, S) /\ m \in S => Within(tx', S)
        /\ \A t : Once(y, t) /\ (m.t # t \/ Free(y, t)) => Once(tx', t)
        /\ Full(y) => Full(tx')
        /\ AcksFirst(y) /\ m.t # "ack" /\ (m \notin Ones => Full(y) /\ ~y.done)
             => AcksFirst(tx')
    BY <2>1, <1>5, NotifyQueue
  <2>3. Free(tx, Bytes) => AcksFirst(y)
    BY <2>1, FreeQueue DEF Bytes
  <2> QED BY <2>1, <2>2, <2>3
<1>6. AcksFirst(tx) /\ m.t # "ack" /\ m \in Ones /\ tx' \in {Heard, Notify(Heard, m)}
        => AcksFirst(tx')
  BY <1>2, NotifyQueue
<1>7. CASE tx' \in {Heard, Acked}
  <2>1. Free(tx, Bytes) => AcksFirst(tx')
    BY <1>2, <1>3, <1>4, <1>7, FreeQueue DEF Bytes
  <2>2. CASE tx' = Heard
    BY <1>2, <1>6, <2>1, <2>2
  <2>3. CASE tx' = Acked
    BY <1>3, <1>6, <2>1, <2>3
  <2> QED BY <1>7, <2>2, <2>3
<1> QED BY <1>5, <1>6, <1>7

(* What the client hears is taken from the head. *)
LEMMA TakenQueue ==
    ASSUME Types, IInv, NEW t, Gets(t)
    PROVE  /\ tx' \in Queue
           /\ \A S : Within(tx, S) => Within(tx', S)
           /\ \A k : Once(tx, k) => Once(tx', k)
           /\ \A k : Once(tx, k) /\ t = k => Free(tx', k)
           /\ Full(tx) => Full(tx')
           /\ AcksFirst(tx) => AcksFirst(tx')
           /\ AcksFirst(tx) /\ Head(tx.q) \notin Ones => Free(tx', "ack")
           /\ Head(tx.q) \in Message /\ Head(tx.q).t = t
           /\ \A S : Within(tx, S) => Head(tx.q) \in S
           /\ ~Free(tx, t)
PROOF
<1>1. /\ tx' \in Queue /\ tx'.held = tx.held
      /\ Len(tx.q) \in Nat \ {0} /\ Len(tx'.q) = Len(tx.q) - 1
      /\ \A i \in 1 .. Len(tx'.q) : tx'.q[i] = tx.q[i + 1] /\ i + 1 \in 1 .. Len(tx.q)
      /\ t # "write_cfm" => /\ tx'.used = tx.used - 1
                            /\ tx.held # None => tx'.done
      /\ Head(tx.q) = WriteCfm => tx'.used = tx.used /\ tx'.done = tx.done
      /\ tx.q[1] = Head(tx.q) /\ tx.q[1].t = t
  BY Taking
<1>2. /\ tx.q \in Seq(Message) /\ tx.held \in Message
      /\ \A i \in 1 .. Len(tx.q) : tx.q[i] \in Message
      /\ 1 \in 1 .. Len(tx.q)
  BY <1>1 DEF Types, Queue
<1>3. Full(tx) => Full(tx')
  <2>1. CASE Head(tx.q) = WriteCfm
    BY <1>1, <2>1 DEF Full
  <2>2. CASE Head(tx.q) # WriteCfm
    <3>1. tx' = Taken
      BY DEF Gets
    <3>2. tx' = [tx EXCEPT !.q = Tail(@), !.used = @ - 1, !.done = @ \/ tx.held # None]
      BY <2>2, <3>1 DEF Taken
    <3>3. tx.held # None => tx'.done
      BY <3>2 DEF Types, Queue
    <3> QED BY <1>1, <3>3 DEF Full
  <2> QED BY <2>1, <2>2
<1>4. ASSUME NEW k, Once(tx, k)
      PROVE  Once(tx', k) /\ (t = k => Free(tx', k))
  <2>1. \A i, j \in 1 .. Len(tx'.q) : i + 1 = j + 1 => i = j
    BY <1>1
  <2>2. Once(tx', k)
    <3> SUFFICES ASSUME NEW i \in 1 .. Len(tx'.q), tx'.q[i].t = k
                 PROVE  /\ tx'.held.t # k
                        /\ \A j \in 1 .. Len(tx'.q) : tx'.q[j].t = k => j = i
      BY DEF Once
    <3>1. i + 1 \in 1 .. Len(tx.q) /\ tx.q[i + 1].t = k
      BY <1>1
    <3>2. /\ tx.held.t # k
          /\ \A j \in 1 .. Len(tx.q) : tx.q[j].t = k => j = i + 1
      BY <1>4, <3>1 DEF Once
    <3> QED BY <1>1, <2>1, <3>2
  <2>3. t = k => /\ tx'.held.t # k
                 /\ \A i \in 1 .. Len(tx'.q) : tx'.q[i].t # k
    <3>1. \A i \in 1 .. Len(tx'.q) : i + 1 # 1
      BY <1>1
    <3> QED BY <1>1, <1>2, <1>4, <3>1 DEF Once
  <2> QED BY <1>1, <1>2, <2>2, <2>3 DEF Free, Within
<1>5. AcksFirst(tx) => AcksFirst(tx')
  <2> SUFFICES ASSUME AcksFirst(tx), NEW i \in 1 .. Len(tx'.q), tx'.q[i] \notin Ones
               PROVE  /\ tx'.held.t # "ack"
                      /\ \A j \in i + 1 .. Len(tx'.q) : tx'.q[j].t # "ack"
    BY DEF AcksFirst
  <2>1. i + 1 \in 1 .. Len(tx.q) /\ tx.q[i + 1] \notin Ones
    BY <1>1
  <2>2. \A j \in i + 1 .. Len(tx'.q) : j + 1 \in (i + 1) + 1 .. Len(tx.q) /\ tx'.q[j] = tx.q[j + 1]
    BY <1>1
  <2> QED BY <1>1, <2>1, <2>2 DEF AcksFirst
<1>6. AcksFirst(tx) /\ Head(tx.q) \notin Ones => Free(tx', "ack")
  <2> SUFFICES ASSUME AcksFirst(tx), Head(tx.q) \notin Ones PROVE Free(tx', "ack")
    OBVIOUS
  <2>1. tx.held.t # "ack" /\ \A j \in 2 .. Len(tx.q) : tx.q[j].t # "ack"
    BY <1>1, <1>2 DEF AcksFirst
  <2>2. \A i \in 1 .. Len(tx'.q) : i + 1 \in 2 .. Len(tx.q)
    BY <1>1
  <2> QED BY <1>1, <1>2, <2>1, <2>2 DEF Free, Within
<1>7. \A S : Within(tx, S) => Within(tx', S) /\ Head(tx.q) \in S
  BY <1>1, <1>2 DEF Within
<1>8. ~Free(tx, t)
  BY <1>1, <1>2 DEF Free, Within
<1> QED BY <1>1, <1>2, <1>3, <1>4, <1>5, <1>6, <1>7, <1>8

(* What was held back is sent again. *)
LEMMA ResentQueue ==
    ASSUME Types, SendHeld
    PROVE  /\ tx' \in Queue
           /\ \A S : Within(tx, S) /\ None \in S => Within(tx', S)
           /\ \A k : Once(tx, k) /\ k # "none" => Once(tx', k)
           /\ Full(tx')
           /\ AcksFirst(tx) => AcksFirst(tx')
PROOF
<1> DEFINE x == [tx EXCEPT !.held = None, !.done = FALSE]
<1>1. tx' = Notify(x, tx.held) /\ tx.held \in Message
  BY DEF SendHeld, Resend, Types, Queue
<1>2. /\ x \in Queue /\ x.q = tx.q /\ x.used = tx.used /\ x.held = None /\ ~x.done
      /\ tx.q \in Seq(Message) /\ None.t = "none"
      /\ \A i \in 1 .. Len(tx.q) : tx.q[i] \in Message
  <2>1. tx \in Queue /\ None \in Message /\ None.t = "none"
    BY Messages, MessageFields DEF Types
  <2>2. tx.q \in Seq(Message) /\ \A i \in 1 .. Len(tx.q) : tx.q[i] \in Message
    BY <2>1 DEF Queue
  <2>3. /\ x \in Queue /\ x.q = tx.q /\ x.used = tx.used /\ x.held = None
        /\ x.done = FALSE
    BY <2>1 DEF Queue
  <2> QED BY <2>1, <2>2, <2>3
<1> HIDE DEF x
<1>3. /\ tx' \in Queue
      /\ \A S : Within(x, S) /\ tx.held \in S => Within(tx', S)
      /\ \A k : Once(x, k) /\ (tx.held.t # k \/ Free(x, k)) => Once(tx', k)
      /\ Full(x) => Full(tx')
      /\ AcksFirst(x) /\ tx.held.t # "ack" /\ (tx.held \notin Ones => Full(x) /\ ~x.done)
           => AcksFirst(tx')
  BY <1>1, <1>2, NotifyQueue
<1>4. \A S : Within(tx, S) /\ None \in S => Within(x, S) /\ tx.held \in S
  BY <1>2 DEF Within
<1>5. Full(x)
  BY <1>2 DEF Full
<1>6. ASSUME NEW k, Once(tx, k), k # "none"
      PROVE  Once(x, k) /\ (tx.held.t # k \/ Free(x, k))
  <2>1. Once(x, k)
    BY <1>2, <1>6 DEF Once
  <2>2. tx.held.t = k => \A i \in 1 .. Len(x.q) : x.q[i].t # k
    BY <1>2, <1>6 DEF Once
  <2> QED BY <1>2, <1>6, <2>1, <2>2, Messages DEF Free, Within
<1>7. ASSUME AcksFirst(tx) PROVE AcksFirst(tx')
  <2>1. AcksFirst(x)
    BY <1>2, <1>7, MessageFields DEF AcksFirst
  <2>2. CASE tx.held.t # "ack"
    BY <1>2, <1>3, <1>5, <2>1, <2>2
  <2>3. CASE tx.held.t = "ack"
    <3>1. Within(tx, Ones)
      <4>1. tx.held \in Ones
        BY <1>1, <2>3 DEF Ones, Bytes
      <4>2. \A i \in 1 .. Len(tx.q) : tx.q[i] \in Ones
        BY <1>7, <2>3 DEF AcksFirst
      <4> QED BY <4>1, <4>2 DEF Within
    <3>2. None \in Ones
      BY Messages, MessageFields DEF Ones, Bytes
    <3>3. Within(tx', Ones)
      BY <1>3, <1>4, <3>1, <3>2
    <3> QED BY <3>3 DEF Within, AcksFirst
  <2> QED BY <2>2, <2>3
<1> QED BY <1>3, <1>4, <1>5, <1>6, <1>7

-----------------------------------------------------------------------------
(* What is written, and what most steps leave alone *)

(***************************************************************************)
(* The endpoint's write: nothing new, the packet that was kept, or b with  *)
(* or without an acknowledgement before it.                                *)
(***************************************************************************)
Wrote(b) ==
    \/ up' = up /\ wr' = wr
    \/ up' = wr.pend /\ wr' = [busy |-> wr.pend # None, pend |-> None]
    \/ Write(<<b>>)
    \/ Write(<<Yes, b>>)

(***************************************************************************)
(* A step that entitles the client to nothing and sends no packet.         *)
(***************************************************************************)
Fades ==
    /\ link' = link
    /\ Once(tx, Bytes) => Once(tx', Bytes)
    /\ Free(tx, Bytes) => Free(tx', Bytes)
    /\ Within(tx, Ones) => Within(tx', Ones)
    /\ Out("START_DATA_REQ")' => Out("START_DATA_REQ")
    /\ \A m \in {up', wr'.pend} : m.t = "DATA" => m \in {up, wr.pend}
    /\ up'.t = "DATA" /\ wr'.pend.t = "DATA" => up.t = "DATA" /\ wr.pend.t = "DATA"
    /\ PreStart' => PreStart
    /\ Handing' => Handing /\ cl'.off = cl.off
    /\ More' => More /\ cl'.left = cl.left
    /\ cl'.state = "START_REQ" =>
        cl'.off = 0 \/ (cl.state = "START_REQ" /\ cl'.off = cl.off)

LEMMA WroteOuts ==
    ASSUME Types, NEW b \in Message, b.t # "none", Wrote(b)
    PROVE  /\ \A t : t \notin {"ACK", "none", b.t} =>
                /\ up'.t = t => up' \in {up, wr.pend}
                /\ wr'.pend.t = t => wr'.pend = wr.pend
                /\ up'.t = t /\ wr'.pend.t = t => up.t = t /\ wr.pend.t = t
                /\ Out(t)' => Out(t)
           /\ wr'.pend.t = b.t => wr'.pend \in {b, wr.pend}
PROOF
<1>1. wr.pend \in Message /\ None.t = "none" /\ Yes.t = "ACK" /\ wr \in [busy : BOOLEAN, pend : Message]
  BY MessageFields DEF Types
<1>2. CASE up' = up /\ wr' = wr
  BY <1>2 DEF Out
<1>3. CASE up' = wr.pend /\ wr' = [busy |-> wr.pend # None, pend |-> None]
  BY <1>1, <1>3 DEF Out
<1>4. CASE Write(<<b>>)
  <2>1. IF wr.busy THEN up' = up /\ wr' = [wr EXCEPT !.pend = b]
                   ELSE up' = b /\ wr' = [busy |-> TRUE, pend |-> None]
    BY <1>4, WriteOne
  <2>2. (up' = up /\ wr'.pend = b) \/ (up' = b /\ wr'.pend = None)
    BY <1>1, <2>1
  <2> QED BY <1>1, <2>2 DEF Out
<1>5. CASE Write(<<Yes, b>>)
  <2>1. IF wr.busy THEN up' = up /\ wr' = [wr EXCEPT !.pend = b]
                   ELSE up' = Yes /\ wr' = [busy |-> TRUE, pend |-> b]
    BY <1>5, WriteTwo
  <2>2. up' \in {up, Yes} /\ wr'.pend = b
    BY <1>1, <2>1
  <2> QED BY <1>1, <2>2 DEF Out
<1> QED BY <1>2, <1>3, <1>4, <1>5 DEF Wrote

LEMMA FadesKeep ==
    ASSUME Types, Turn, Sent, Fades, Erasing' => Erasing,
           \/ dev'.stage = dev.stage /\ dev'.got = dev.got
           \/ dev'.got = 0 /\ ~Handing /\ ~Out("DATA")
    PROVE  Turn' /\ Sent'
PROOF
<1> SUFFICES ASSUME link' PROVE Turn' /\ Sent'
  BY DEF Turn, Sent
<1>1. link
  BY DEF Fades
<1>2. Out("DATA")' => Out("DATA")
  BY DEF Fades, Out
<1>3. Turn'
  BY <1>1, <1>2 DEF Turn, Fades
<1>4. Started' \/ ~Started
  BY DEF Started, Fades
<1>5. CASE dev'.stage = dev.stage /\ dev'.got = dev.got
  <2>1. \A v : Due(v)' <=> Due(v)
    BY <1>5 DEF Due
  <2>2. ASSUME NEW m \in {up', wr'.pend}, m.t = "DATA"
        PROVE  Due(m.v)' /\ (Handing' => m.v = cl'.off)
    BY <1>1, <2>1, <2>2 DEF Sent, Fades
  <2>3. Handing' /\ (~Free(tx, Bytes)' \/ Erasing') => Due(cl.off + 1)'
    BY <1>1, <2>1 DEF Sent, Fades
  <2>4. ~Started' => dev'.got = 0
    BY <1>1, <1>4, <1>5 DEF Sent
  <2>5. /\ Handing' /\ Out("START_DATA_REQ")' => cl'.off = 0
        /\ cl'.state = "START_REQ" => cl'.off = 0
    BY <1>1 DEF Sent, Fades
  <2>6. /\ Handing' /\ ~Within(tx, Ones)' => dev'.stage = "body" /\ cl'.off = 2
        /\ More' => dev'.stage = "body" /\ cl'.left = 1 /\ cl'.off = 3
    <3>1. More' => Handing'
      BY DEF More, Handing
    <3> QED BY <1>1, <1>5, <3>1 DEF Sent, Fades
  <2> QED BY <1>3, <2>2, <2>3, <2>4, <2>5, <2>6 DEF Sent
<1>6. CASE dev'.got = 0 /\ ~Handing /\ ~Out("DATA")
  <2>1. ~Handing' /\ ~More' /\ ~Out("DATA")'
    BY <1>2, <1>6 DEF Fades, More, Handing
  <2>2. cl'.state = "START_REQ" => cl'.off = 0
    BY <1>1 DEF Sent, Fades
  <2> QED BY <1>3, <1>6, <2>1, <2>2 DEF Sent, Out
<1> QED BY <1>5, <1>6

LEMMA FadesWork ==
    ASSUME Types, Work, Fades, UNCHANGED <<store, fw>>, dev'.app = dev.app,
           dev'.cs = dev.cs,
           \/ dev'.stage = dev.stage /\ dev'.got = dev.got
           \/ ~Handing /\ ~Out("DATA")
    PROVE  Work'
PROOF
<1>1. /\ New' = New /\ Other' = Other
      /\ \A k : Chunked(k)' <=> Chunked(k)
  BY DEF New, Other, Chunked
<1>2. Out("DATA")' => Out("DATA")
  BY DEF Fades, Out
<1>3. ASSUME NEW k, Writable(k)
      PROVE  Writable(k)'
  BY <1>1, <1>2, <1>3 DEF Writable, Fades
<1>4. ~New' => \/ fw' = <<Op("key", 0)>>
               \/ fw' = <<Op("set", Other')>>
               \/ \E k \in 0 .. Len(fw') : Chunked(k)' /\ Writable(k)'
  BY <1>1, <1>3 DEF Work
<1>5. New' /\ fw' = <<Op("set", Other')>> => dev'.cs = Other'
  BY <1>1 DEF Work
<1>6. \A s \in Stores : store'[s] \in {Orig} \cup 0 .. Chunks
  BY DEF Work
<1> QED BY <1>4, <1>5, <1>6 DEF Work

LEMMA FadesAcks ==
    ASSUME Acks, Fades,
           Handing => /\ AcksFirst(tx) => AcksFirst(tx')
                      /\ Free(tx, "ack") => Free(tx', "ack")
    PROVE  Acks'
PROOF
<1>1. Out("DATA")' => Out("DATA")
  BY DEF Fades, Out
<1> QED BY <1>1 DEF Acks, Fades

LEMMA KeepsCommitting ==
    ASSUME Committing, link' = link, Over => Over',
           \A t \in {"START_DATA_REQ", "DATA", "TRANSFER_COMPLETE_RES", "COMMIT_CFM"} :
                Out(t)' => Out(t),
           New' /\ fw' # <<>> => GivenUp,
           cl'.state \in {"START_REQ_AFTER_REBOOT", "IN_PROGRESS_REQ", "COMMIT_REQ"} => GivenUp
    PROVE  Committing'
PROOF
<1>1. GivenUp => GivenUp'
  BY DEF GivenUp
<1> QED BY <1>1 DEF Committing

(* No control command is sent. *)
LEMMA KeepsControls ==
    ASSUME Controls, link' = link,
           \A t \in {"SYNC_REQ", "START_REQ", "VALID_DONE_REQ", "IN_PROGRESS_RES",
                     "COMMIT_CFM"} :
                /\ Out(t)' => Out(t)
                /\ wr'.pend.t = t => wr.pend.t = t
                /\ up'.t = t /\ wr'.pend.t = t => up.t = t /\ wr.pend.t = t,
           PreStart' => PreStart, Handing' => Handing,
           PreStart' /\ cl'.state # "START_REQ" => cl.state # "START_REQ"
    PROVE  Controls'
BY DEF Controls

-----------------------------------------------------------------------------
(* What the client hears *)

LEMMA TakenFades ==
    ASSUME Types, IInv, TInv, NEW t, Gets(t), UNCHANGED server,
           NEW b \in Message, b.t \notin {"none", "START_DATA_REQ", "DATA"}, Wrote(b),
           PreStart' => PreStart,
           Handing' => Handing /\ cl'.off = cl.off,
           More' => More /\ cl'.left = cl.left,
           cl'.state = "START_REQ" =>
                cl'.off = 0 \/ (cl.state = "START_REQ" /\ cl'.off = cl.off)
    PROVE  Turn' /\ Sent' /\ Acks' /\ Work' /\ Within(tx, Twos)'
PROOF
<1>1. /\ \A S : Within(tx, S) => Within(tx', S)
      /\ \A k : Once(tx, k) => Once(tx', k)
      /\ AcksFirst(tx) => AcksFirst(tx')
  BY TakenQueue
<1>2. \A k \in {"START_DATA_REQ", "DATA"} :
        /\ up'.t = k => up' \in {up, wr.pend}
        /\ wr'.pend.t = k => wr'.pend = wr.pend
        /\ up'.t = k /\ wr'.pend.t = k => up.t = k /\ wr.pend.t = k
        /\ Out(k)' => Out(k)
  BY WroteOuts
<1>3. /\ link' = link /\ UNCHANGED <<store, fw>> /\ dev' = dev
  BY DEF Gets, server, flash
<1>4. \A k : Free(tx, k) => Free(tx', k)
  BY <1>1 DEF Free
<1>5. Fades
  BY <1>1, <1>2, <1>3, <1>4 DEF Fades
<1>6. Erasing' => Erasing
  BY <1>3 DEF Erasing, New, Ops
<1>7. Turn' /\ Sent'
  BY <1>3, <1>5, <1>6, FadesKeep DEF TInv
<1>8. Acks'
  BY <1>1, <1>4, <1>5, FadesAcks DEF TInv
<1>9. Work'
  BY <1>3, <1>5, FadesWork DEF TInv
<1> QED BY <1>1, <1>7, <1>8, <1>9 DEF TInv

LEMMA TakenFull ==
    ASSUME Types, IInv, TInv, NEW t, Gets(t),
           t # "write_cfm" \/ cl'.state = cl.state
    PROVE  Buffered'
PROOF
<1>1. CASE cl'.state = cl.state
  BY <1>1, TakenQueue DEF TInv, Buffered
<1>2. CASE t # "write_cfm"
  BY <1>2, Taking DEF Buffered, Full
<1> QED BY <1>1, <1>2

LEMMA TakenNotes ==
    ASSUME Types, IInv, TInv, ~tx.done, NEW t, Gets(t), UNCHANGED server,
           cl'.state = "SYNC_REQ" => cl.state = "SYNC_REQ",
           cl'.state = "START_REQ" => cl.state \in {"SYNC_REQ", "START_REQ"},
           cl.state = "START_REQ" /\ cl'.state = "START_REQ" =>
                \A k \in {"START_REQ", "SYNC_REQ"} : Out(k)' => Out(k)
    PROVE  OldNotes'
PROOF
<1>1. /\ \A S : Within(tx, S) => Within(tx', S)
      /\ tx' \in Queue
  BY TakenQueue
<1>2. /\ link /\ link' = link /\ tx'.held = tx.held
      /\ Len(tx'.q) = Len(tx.q) - 1 /\ Len(tx.q) \in Nat \ {0}
      /\ \A i \in 1 .. Len(tx'.q) : tx'.q[i] = tx.q[i + 1] /\ i + 1 \in 1 .. Len(tx.q)
  BY Taking
<1>3. ASSUME cl.state = "SYNC_REQ"
      PROVE  \A k \in {Bytes, "START_CFM"} : Free(tx', k)
  <2> SUFFICES ASSUME NEW k \in {Bytes, "START_CFM"} PROVE Free(tx', k)
    OBVIOUS
  <2>1. tx.held.t # k /\ \A i \in 2 .. Len(tx.q) : tx.q[i].t # k
    BY <1>2, <1>3 DEF TInv, OldNotes
  <2>2. \A i \in 1 .. Len(tx'.q) : i + 1 \in 2 .. Len(tx.q)
    BY <1>2
  <2> QED BY <1>1, <1>2, <2>1, <2>2 DEF Free, Within, Queue
<1>4. CASE cl'.state = "SYNC_REQ"
  <2>1. \A k \in {Bytes, "START_CFM"} : Free(tx', k)
    BY <1>3, <1>4
  <2>2. \A k \in {Bytes, "START_CFM"} :
            tx'.held.t # k /\ \A i \in 2 .. Len(tx'.q) : tx'.q[i].t # k
    BY <1>2, <2>1 DEF Free, Within
  <2> QED BY <1>4, <2>2 DEF OldNotes
<1>5. CASE cl'.state = "START_REQ" /\ cl.state = "SYNC_REQ"
  BY <1>3, <1>5 DEF OldNotes
<1>6. CASE cl'.state = "START_REQ" /\ cl.state = "START_REQ"
  <2>1. /\ Free(tx, Bytes)
        /\ ~Free(tx, "START_CFM") => ~Out("START_REQ") /\ ~Out("SYNC_REQ")
    BY <1>2, <1>6 DEF TInv, OldNotes
  <2>2. \A k : Free(tx, k) => Free(tx', k)
    BY <1>1 DEF Free
  <2> QED BY <1>6, <2>1, <2>2 DEF OldNotes
<1> QED BY <1>4, <1>5, <1>6 DEF OldNotes

(***************************************************************************)
(* The client goes on without asking for, handing out or committing        *)
(* anything.                                                               *)
(***************************************************************************)
Yields ==
    /\ cl'.start = cl.start
    /\ \/ /\ cl'.state = cl.state /\ cl'.off = cl.off
          /\ cl.state = "TRANSFER" => cl'.left = cl.left
       \/ cl'.state \in {"IDLE", "DISCONNECT", "ABORTING_DISCONNECT"}
       \/ Asking /\ cl'.state = "WAIT_VALIDATION"
       \/ cl.state = "TRANSFER" /\ cl'.state = "DATA_REQ" /\ cl'.off = cl.off

LEMMA YieldsFades ==
    ASSUME Types, IInv, NEW t, Gets(t), Yields
    PROVE  /\ PreStart' => PreStart
           /\ Handing' => Handing /\ cl'.off = cl.off
           /\ More' => More /\ cl'.left = cl.left
           /\ Over => Over'
           /\ cl'.state \in {"SYNC_REQ", "START_REQ", "START_REQ_AFTER_REBOOT",
                             "IN_PROGRESS_REQ", "COMMIT_REQ"} =>
                cl'.state = cl.state /\ cl'.off = cl.off
           /\ PreStart' /\ cl'.state # "START_REQ" => cl.state # "START_REQ"
PROOF
<1>1. cl'.start # "timer"
  BY Taking DEF Yields
<1> QED BY <1>1 DEF Yields, PreStart, Handing, More, Asking, Over

LEMMA YieldsKeep ==
    ASSUME Types, IInv, TInv, ~tx.done, NEW t, Gets(t), UNCHANGED server, Yields,
           NEW b \in {Yes, Req("DISCONNECT_REQ")}, Wrote(b),
           t # "write_cfm" \/ cl'.state = cl.state
    PROVE  TInv'
PROOF
<1>1. b \in Message /\ b.t \in {"ACK", "DISCONNECT_REQ"}
  BY Messages, MessageFields DEF Kinds
<1>2. /\ PreStart' => PreStart
      /\ Handing' => Handing /\ cl'.off = cl.off
      /\ More' => More /\ cl'.left = cl.left
      /\ Over => Over'
      /\ cl'.state \in {"SYNC_REQ", "START_REQ", "START_REQ_AFTER_REBOOT",
                        "IN_PROGRESS_REQ", "COMMIT_REQ"} =>
            cl'.state = cl.state /\ cl'.off = cl.off
      /\ PreStart' /\ cl'.state # "START_REQ" => cl.state # "START_REQ"
  BY YieldsFades
<1>3. \A k : k \notin {"ACK", "none", "DISCONNECT_REQ"} =>
        /\ wr'.pend.t = k => wr.pend.t = k
        /\ up'.t = k /\ wr'.pend.t = k => up.t = k /\ wr.pend.t = k
        /\ Out(k)' => Out(k)
  BY <1>1, WroteOuts
<1>4. Turn' /\ Sent' /\ Acks' /\ Work' /\ Within(tx, Twos)'
  BY <1>1, <1>2, TakenFades
<1>5. Buffered'
  BY TakenFull
<1>6. Controls'
  <2>1. link' = link
    BY DEF Gets
  <2> QED BY <1>2, <1>3, <2>1, KeepsControls DEF TInv
<1>7. OldNotes'
  BY <1>2, <1>3, TakenNotes
<1>8. Committing'
  <2>1. link /\ link' = link /\ UNCHANGED <<store, fw>> /\ dev' = dev
    BY DEF Gets, server, flash
  <2>2. New' /\ fw' # <<>> => GivenUp
    BY <2>1 DEF New, TInv, Committing
  <2>3. cl'.state \in {"START_REQ_AFTER_REBOOT", "IN_PROGRESS_REQ", "COMMIT_REQ"} => GivenUp
    BY <1>2, <2>1 DEF TInv, Committing
  <2> QED BY <1>2, <1>3, <2>1, <2>2, <2>3, KeepsCommitting DEF TInv
<1> QED BY <1>4, <1>5, <1>6, <1>7, <1>8 DEF TInv

(* What the client refuses, and what needs no packet *)
LEMMA QuietRelayed ==
    ASSUME Types, IInv, TInv, ~tx.done, UNCHANGED server,
           \/ WriteConfirmed \/ DisconnectAck \/ AbortCfm
           \/ ErrorWarnInd \/ CompleteInd \/ IsValidationDoneCfm
           \/ cl.state # "CONNECT" /\ ConnectAck
           \/ cl.state # "SYNC_REQ" /\ SyncCfmGot
           \/ cl.state # "IN_PROGRESS_REQ" /\ CommitReq
    PROVE  TInv'
PROOF
<1>1. /\ cl \in Relayer
      /\ Reset(cl).state = "IDLE" /\ Reset(cl).start = cl.start /\ Reset(cl) \in Relayer
  BY ResetFields DEF Types
<1> DEFINE D == Req("DISCONNECT_REQ")
<1>2. ASSUME NEW t, Gets(t), Reject PROVE Wrote(D) /\ Yields
  BY <1>1, <1>2 DEF Reject, RejectAs, Wrote, Yields
<1>3. ASSUME NEW t, Gets(t), t # "write_cfm", Reject PROVE TInv'
  BY <1>2, <1>3, YieldsKeep
<1>4. CASE WriteConfirmed
  <2>1. Gets("write_cfm") /\ Wrote(Yes) /\ Yields /\ cl'.state = cl.state
    BY <1>1, <1>4 DEF WriteConfirmed, Wrote, Yields
  <2> QED BY <2>1, YieldsKeep
<1>5. CASE DisconnectAck
  <2>1. Gets("disc_ack") /\ Wrote(Yes) /\ Yields
    BY <1>1, <1>5 DEF DisconnectAck, Wrote, Yields, Relayer
  <2> QED BY <2>1, YieldsKeep
<1>6. CASE AbortCfm
  <2>1. Gets("ABORT_CFM") /\ Wrote(D) /\ Yields
    BY <1>1, <1>6 DEF AbortCfm, Wrote, Yields, Relayer
  <2> QED BY <2>1, YieldsKeep
<1>7. CASE ErrorWarnInd
  <2>1. Gets("ERROR_IND") /\ Wrote(Yes) /\ Yields
    BY <1>1, <1>7 DEF ErrorWarnInd, Wrote, Yields, Relayer
  <2> QED BY <2>1, YieldsKeep
<1>8. CASE CompleteInd
  <2>1. CASE cl.state # "COMMIT_REQ"
    BY <1>3, <1>8, <2>1 DEF CompleteInd
  <2>2. CASE cl.state = "COMMIT_REQ"
    <3>1. Gets("COMPLETE_IND") /\ Wrote(D) /\ Yields
      BY <1>1, <1>8, <2>2 DEF CompleteInd, Wrote, Yields, Relayer
    <3> QED BY <3>1, YieldsKeep
  <2> QED BY <2>1, <2>2
<1>9. CASE IsValidationDoneCfm
  <2>1. CASE cl.state # "WAIT_VALIDATION_RSP"
    BY <1>3, <1>9, <2>1 DEF IsValidationDoneCfm
  <2>2. CASE cl.state = "WAIT_VALIDATION_RSP"
    <3>1. Gets("VALID_CFM") /\ Wrote(Yes) /\ Yields
      BY <1>1, <1>9, <2>2 DEF IsValidationDoneCfm, Wrote, Yields, Relayer, Asking
    <3> QED BY <3>1, YieldsKeep
  <2> QED BY <2>1, <2>2
<1>10. CASE cl.state # "CONNECT" /\ ConnectAck
  <2>1. Gets("conn_ack") /\ Wrote(Yes) /\ Yields
    BY <1>1, <1>10 DEF ConnectAck, Wrote, Yields, client
  <2> QED BY <2>1, YieldsKeep
<1>11. CASE cl.state # "SYNC_REQ" /\ SyncCfmGot
  BY <1>3, <1>11 DEF SyncCfmGot
<1>12. CASE cl.state # "IN_PROGRESS_REQ" /\ CommitReq
  BY <1>3, <1>12 DEF CommitReq
<1> QED BY <1>4, <1>5, <1>6, <1>7, <1>8, <1>9, <1>10, <1>11, <1>12

LEMMA ConnectedNext ==
    ASSUME Types, IInv, TInv, ~tx.done, UNCHANGED server, cl.state = "CONNECT", ConnectAck
    PROVE  TInv'
PROOF
<1> DEFINE b == Req("SYNC_REQ")
<1>1. /\ Gets("conn_ack") /\ Write(<<b>>) /\ Wrote(b)
      /\ cl'.state = "SYNC_REQ" /\ cl'.off = cl.off
      /\ b \in Message /\ b.t = "SYNC_REQ"
  BY Messages, MessageFields DEF ConnectAck, Types, Relayer, Wrote, Kinds
<1>2. /\ link /\ link' = link /\ tx'.q = Tail(tx.q) /\ tx'.held = tx.held
      /\ Len(tx.q) \in Nat \ {0} /\ Len(tx'.q) = Len(tx.q) - 1
      /\ tx.q[1].t = "conn_ack" /\ tx'.used = tx.used - 1
      /\ tx.held # None => tx'.done
  BY <1>1, Taking
<1>3. /\ wr.pend = None /\ up = None /\ ~wr.busy /\ dev.state # "WAIT_FOR_DEVICE"
      /\ tx.q = <<Msg("conn_ack", 0)>> /\ tx.used = 1
  BY <1>2, MessageFields DEF IInv, Opening
<1>4. up' = b /\ wr'.pend = None /\ None.t = "none"
  BY <1>1, <1>3, WriteOne, MessageFields
<1>5. tx'.q = <<>> /\ tx'.used = 0 /\ Len(tx'.q) = 0
  BY <1>2, <1>3
<1>6. /\ ~Handing' /\ ~More' /\ PreStart /\ PreStart'
  BY <1>1 DEF Handing, More, PreStart
<1>7. Turn' /\ Sent' /\ Acks' /\ Work' /\ Within(tx, Twos)'
  BY <1>1, <1>6, TakenFades
<1>8. Buffered'
  BY <1>1, TakenFull
<1>9. Controls'
  BY <1>1, <1>4, <1>6 DEF Controls, Out
<1>10. OldNotes'
  <2>1. ASSUME NEW t \in {Bytes, "START_CFM"}, tx'.held.t = t
        PROVE  tx'.done
    BY <1>2, <1>4, <2>1 DEF Bytes
  <2>2. dev'.state # "WAIT_FOR_DEVICE"
    BY <1>3 DEF server
  <2>3. \A i \in 2 .. Len(tx'.q) : FALSE
    BY <1>5
  <2> QED BY <1>1, <1>5, <2>1, <2>2, <2>3 DEF OldNotes
<1>11. Committing'
  <2>1. \A t \in {"START_DATA_REQ", "DATA", "TRANSFER_COMPLETE_RES", "COMMIT_CFM"} : ~Out(t)'
    BY <1>1, <1>4 DEF Out
  <2>2. fw' = <<>>
    BY <1>2, <1>6, QuietStart DEF server
  <2> QED BY <1>1, <2>1, <2>2 DEF Committing
<1> QED BY <1>7, <1>8, <1>9, <1>10, <1>11 DEF TInv

(* Behind the transfer, the order of the control commands no longer matters. *)
LEMMA LaterControls ==
    ASSUME Types, TInv, NEW b \in Message, b.t \notin {"none", "SYNC_REQ", "START_REQ"},
           Wrote(b), link' = link, ~PreStart', ~Handing'
    PROVE  Controls'
PROOF
<1>1. \A k \in {"SYNC_REQ", "START_REQ"} :
        /\ wr'.pend.t = k => wr.pend.t = k
        /\ up'.t = k /\ wr'.pend.t = k => up.t = k /\ wr.pend.t = k
  BY WroteOuts
<1> QED BY <1>1 DEF TInv, Controls

LEMMA SyncedNext ==
    ASSUME Types, IInv, TInv, ~tx.done, UNCHANGED server, cl.state = "SYNC_REQ", SyncCfmGot
    PROVE  TInv'
PROOF
<1> DEFINE b == Req("START_REQ")
<1>1. /\ Gets("SYNC_CFM") /\ Write(<<Yes, b>>) /\ Wrote(b)
      /\ cl'.state \in {"START_REQ", "START_REQ_AFTER_REBOOT"} /\ cl'.off = 0
      /\ b \in Message /\ b.t = "START_REQ"
  <2>1. cl' = [cl EXCEPT !.off = 0,
                         !.state = IF Head(tx.q).v = 3
                                   THEN "START_REQ_AFTER_REBOOT" ELSE "START_REQ"]
    BY DEF SyncCfmGot
  <2>2. /\ cl'.state \in {"START_REQ", "START_REQ_AFTER_REBOOT"} /\ cl'.off = 0
    BY <2>1 DEF Types, Relayer
  <2> QED BY <2>2, Messages, MessageFields DEF SyncCfmGot, Wrote, Kinds
<1>2. link /\ link' = link
  BY <1>1 DEF Gets
<1>3. /\ ~Handing' /\ ~More' /\ PreStart /\ PreCommit
  BY <1>1 DEF Handing, More, PreStart, PreCommit
<1>4. \A k : k \notin {"ACK", "none", "START_REQ"} =>
        /\ wr'.pend.t = k => wr.pend.t = k
        /\ Out(k)' => Out(k)
  BY <1>1, WroteOuts
<1>5. Turn' /\ Sent' /\ Acks' /\ Work' /\ Within(tx, Twos)'
  BY <1>1, <1>3, TakenFades
<1>6. Buffered'
  BY <1>1, TakenFull
<1>7. Controls'
  <2>1. /\ wr.pend.t # "SYNC_REQ" /\ ~Out("START_REQ")
        /\ \A k \in {"VALID_DONE_REQ", "IN_PROGRESS_RES", "COMMIT_CFM"} : ~Out(k)
    BY <1>2, <1>3 DEF TInv, Controls
  <2>2. up'.t # "START_REQ"
    BY <1>1, <2>1, SpecialWrite DEF Out, Kinds
  <2>3. ~(PreStart' /\ cl'.state # "START_REQ")
    BY <1>1 DEF PreStart
  <2> QED BY <1>3, <1>4, <2>1, <2>2, <2>3 DEF Controls
<1>8. OldNotes'
  BY <1>1, TakenNotes
<1>9. Committing'
  <2>1. \A k \in {"START_DATA_REQ", "DATA", "TRANSFER_COMPLETE_RES", "COMMIT_CFM"} : ~Out(k)
    BY <1>3 DEF IInv, Client
  <2>2. \A k \in {"START_DATA_REQ", "DATA", "TRANSFER_COMPLETE_RES", "COMMIT_CFM"} : ~Out(k)'
    BY <1>4, <2>1
  <2>3. fw' = <<>>
    BY <1>2, <1>3, QuietStart DEF server
  <2>4. cl'.state = "START_REQ_AFTER_REBOOT" => Over'
    BY DEF Over, PreStart, Handing, Asking
  <2> QED BY <1>1, <2>2, <2>3, <2>4 DEF Committing, GivenUp
<1> QED BY <1>5, <1>6, <1>7, <1>8, <1>9 DEF TInv

LEMMA StartedNext ==
    ASSUME Types, IInv, TInv, ~tx.done, UNCHANGED server, StartCfmGot
    PROVE  TInv'
PROOF
<1>1. Gets("START_CFM") /\ link /\ link' = link /\ UNCHANGED <<store, fw>> /\ dev' = dev
  BY DEF StartCfmGot, Gets, server, flash
<1>2. CASE cl.state \notin {"START_REQ", "START_REQ_AFTER_REBOOT"}
  <2>1. Wrote(Req("DISCONNECT_REQ")) /\ Yields
    BY <1>2 DEF StartCfmGot, Reject, RejectAs, Wrote, Yields
  <2> QED BY <1>1, <2>1, YieldsKeep
<1>3. CASE cl.state \in {"START_REQ", "START_REQ_AFTER_REBOOT"} /\ Head(tx.q).v # 0
  <2>1. Wrote(Yes) /\ Yields
    BY <1>3 DEF StartCfmGot, Wrote, Yields
  <2> QED BY <1>1, <2>1, YieldsKeep
<1>4. CASE cl.state = "START_REQ" /\ Head(tx.q).v = 0
  <2> DEFINE b == Req("START_DATA_REQ")
  <2>1. /\ Write(<<Yes, b>>) /\ cl'.state = "DATA_REQ" /\ cl'.off = cl.off
        /\ b \in Message /\ b.t = "START_DATA_REQ"
    BY <1>4, Messages, MessageFields DEF StartCfmGot, Kinds, Types, Relayer
  <2>2. /\ wr'.pend = b
        /\ \A k \in Kinds \ {"ACK"} : Out(k)' <=> k = b.t \/ up'.t = k
        /\ \A k \in Kinds \ {"ACK"} : up'.t = k => up' = up /\ up.t = k
    BY <2>1, SpecialWrite
  <2>3. ~Free(tx, "START_CFM") /\ \A S : Within(tx, S) => Within(tx', S)
    BY <1>1, TakenQueue
  <2>4. /\ Free(tx, Bytes) /\ ~Out("START_REQ") /\ ~Out("SYNC_REQ")
        /\ \A k \in {"VALID_DONE_REQ", "IN_PROGRESS_RES", "COMMIT_CFM",
                     "START_DATA_REQ", "DATA", "TRANSFER_COMPLETE_RES", "ABORT_REQ"} : ~Out(k)
    BY <1>1, <1>4, <2>3 DEF TInv, OldNotes, Controls, IInv, Client, PreStart, PreCommit
  <2>5. \A k \in {"VALID_DONE_REQ", "IN_PROGRESS_RES", "COMMIT_CFM", "DATA",
                  "TRANSFER_COMPLETE_RES", "START_REQ", "SYNC_REQ"} : ~Out(k)'
    BY <2>1, <2>2, <2>4 DEF Out, Kinds
  <2>6. up'.t # "START_DATA_REQ"
    BY <2>2, <2>4 DEF Out, Kinds
  <2>7. fw' = <<>> /\ dev.got = 0 /\ cl.off = 0
    BY <1>1, <1>4, QuietStart DEF PreStart, TInv, Sent, Started
  <2>8. /\ Free(tx', Bytes) /\ tx' \in Queue
    BY <1>1, <2>3, <2>4, TakenQueue DEF Free
  <2>9. Within(tx', Ones) /\ AcksFirst(tx') /\ Once(tx', Bytes)
    BY <2>8, FreeQueue
  <2>10. ~Erasing' /\ ~More' /\ Handing' /\ ~PreStart'
    BY <2>1, <2>7 DEF Erasing, Ops, More, Handing, PreStart
  <2>11. Turn'
    BY <2>5, <2>6, <2>8, <2>9, <2>10 DEF Turn, Out
  <2>12. Sent'
    BY <1>1, <2>1, <2>5, <2>7, <2>8, <2>9, <2>10 DEF Sent, Out
  <2>13. Acks'
    BY <2>9, <2>10 DEF Acks
  <2>14. Buffered'
    BY <1>1, TakenFull
  <2>15. Controls'
    BY <2>1, <2>2, <2>5, <2>10 DEF Controls, Out
  <2>16. OldNotes'
    BY <1>1, <2>1, TakenNotes
  <2>17. Committing'
    BY <2>1, <2>5, <2>7 DEF Committing
  <2>18. Work'
    <3>1. /\ New' = New /\ Other' = Other
          /\ \A k : Chunked(k)' <=> Chunked(k)
      BY <1>1 DEF New, Other, Chunked
    <3>2. ASSUME NEW k, Writable(k)
          PROVE  Writable(k)'
      BY <1>1, <2>5, <2>8, <3>1, <3>2 DEF Writable
    <3> QED BY <1>1, <3>1, <3>2 DEF TInv, Work
  <2>19. Within(tx, Twos)'
    BY <2>3 DEF TInv
  <2> QED BY <2>11, <2>12, <2>13, <2>14, <2>15, <2>16, <2>17, <2>18, <2>19 DEF TInv
<1>5. CASE cl.state = "START_REQ_AFTER_REBOOT" /\ Head(tx.q).v = 0
  <2> DEFINE b == Req("IN_PROGRESS_RES")
  <2>1. /\ Wrote(b) /\ cl'.state = "IN_PROGRESS_REQ"
        /\ b \in Message /\ b.t = "IN_PROGRESS_RES"
    BY <1>5, Messages, MessageFields DEF StartCfmGot, Kinds, Types, Relayer, Wrote
  <2>2. ~PreStart' /\ ~Handing' /\ ~More' /\ Over'
    BY <2>1 DEF PreStart, Handing, More, Over, Asking
  <2>3. Turn' /\ Sent' /\ Acks' /\ Work' /\ Within(tx, Twos)'
    BY <1>1, <2>1, <2>2, TakenFades
  <2>4. Buffered' /\ Controls' /\ OldNotes'
    BY <1>1, <2>1, <2>2, TakenFull, LaterControls, TakenNotes
  <2>5. Committing'
    <3>1. GivenUp
      BY <1>1, <1>5 DEF TInv, Committing
    <3>2. \A k \in {"START_DATA_REQ", "DATA", "TRANSFER_COMPLETE_RES", "COMMIT_CFM"} :
            Out(k)' => Out(k)
      BY <2>1, WroteOuts
    <3> QED BY <1>1, <2>2, <3>1, <3>2, KeepsCommitting DEF TInv
  <2> QED BY <2>3, <2>4, <2>5 DEF TInv
<1>6. Head(tx.q).v # 0 \/ Head(tx.q).v = 0
  OBVIOUS
<1> QED BY <1>2, <1>3, <1>4, <1>5, <1>6

(* A packet is handed out: on a request, or on the acknowledgement of the first of two. *)
LEMMA PacketNext ==
    ASSUME Types, IInv, TInv, ~tx.done, UNCHANGED server, NEW t, Gets(t),
           \/ t = Bytes /\ cl.state = "DATA_REQ" /\ cl'.state = "TRANSFER"
                /\ cl'.left = Head(tx.q).v - 1
           \/ t = "ack" /\ More /\ cl'.state = "DATA_REQ",
           Write(<<Yes, Msg("DATA", cl.off + 1)>>), cl'.off = cl.off + 1
    PROVE  TInv'
PROOF
<1> DEFINE b == Msg("DATA", cl.off + 1)
<1>1. /\ link /\ link' = link /\ UNCHANGED <<store, fw>> /\ dev' = dev
      /\ Handing /\ Handing' /\ cl.off \in 0 .. Len(File)
      /\ ~PreStart /\ ~PreStart' /\ ~Over
  BY DEF Gets, server, flash, Handing, More, PreStart, Over, Types, Relayer
<1>2. b \in Message /\ b.t = "DATA" /\ b.v = cl.off + 1
  <2>1. cl.off + 1 \in Nat
    BY <1>1, FileParts, OtaLinkAssumption
  <2> QED BY <2>1, Messages, MessageFields DEF Kinds
<1>3. /\ wr'.pend = b
      /\ \A k \in Kinds \ {"ACK"} : Out(k)' <=> k = b.t \/ up'.t = k
      /\ \A k \in Kinds \ {"ACK"} : up'.t = k => up' = up /\ up.t = k
  BY <1>2, SpecialWrite
<1>4. /\ tx' \in Queue
      /\ \A S : Within(tx, S) => Within(tx', S)
      /\ Once(tx, Bytes) /\ t = Bytes => Free(tx', Bytes)
      /\ AcksFirst(tx) /\ Head(tx.q) \notin Ones => Free(tx', "ack")
      /\ Head(tx.q) \in Message /\ Head(tx.q).t = t
      /\ \A S : Within(tx, S) => Head(tx.q) \in S
      /\ ~Free(tx, t)
  BY TakenQueue
<1>5. ~Out("START_DATA_REQ") /\ ~Out("DATA") /\ ~Erasing /\ Free(tx', Bytes)
  <2>1. CASE t = Bytes
    BY <1>1, <1>4, <2>1 DEF TInv, Turn
  <2>2. CASE t = "ack" /\ More
    BY <1>1, <1>4, <2>2 DEF TInv, Turn, Acks, Free
  <2> QED BY <2>1, <2>2
<1>6. Due(cl.off + 1)
  <2>1. CASE t = Bytes
    BY <1>1, <1>4, <2>1 DEF TInv, Sent
  <2>2. CASE t = "ack" /\ More
    BY <1>1, <2>2 DEF TInv, Sent, Due
  <2> QED BY <2>1, <2>2
<1>7. up'.t # "START_DATA_REQ" /\ up'.t # "DATA" /\ ~Out("START_DATA_REQ")'
  BY <1>2, <1>3, <1>5 DEF Out, Kinds
<1>8. Within(tx', Ones) /\ AcksFirst(tx') /\ Once(tx', Bytes)
  BY <1>4, <1>5, FreeQueue
<1>9. ~Erasing'
  BY <1>1, <1>5 DEF Erasing, New, Ops
<1>10. Turn'
  BY <1>5, <1>7, <1>8, <1>9 DEF Turn
<1>11. More' => Head(tx.q) \notin Ones /\ dev.stage = "body" /\ cl.off = 2 /\ Head(tx.q).v = 2
  <2> SUFFICES ASSUME More'
               PROVE  Head(tx.q) \notin Ones /\ dev.stage = "body" /\ cl.off = 2
                      /\ Head(tx.q).v = 2
    OBVIOUS
  <2>1. t = Bytes /\ cl'.left = Head(tx.q).v - 1 /\ cl'.left > 0
    BY DEF More
  <2>2. Head(tx.q) \in Twos
    BY <1>4 DEF TInv
  <2>3. Head(tx.q).v = 2 /\ Head(tx.q) \notin Ones
    BY <1>4, <2>1, <2>2 DEF Twos, Ones, Message
  <2>4. ~Within(tx, Ones)
    BY <1>4, <2>3
  <2> QED BY <1>1, <2>3, <2>4 DEF TInv, Sent
<1>12. More' => cl'.left = 1 /\ cl'.off = 3
  BY <1>11 DEF More
<1>13. Sent'
  <2>1. \A v : Due(v)' <=> Due(v)
    BY <1>1 DEF Due
  <2>2. Started'
    BY <1>1, <1>7 DEF Started
  <2>3. cl'.state # "START_REQ"
    OBVIOUS
  <2>4. \A m \in {up', wr'.pend} : m.t = "DATA" => Due(m.v)' /\ m.v = cl'.off
    <3> HIDE DEF b
    <3> QED BY <1>2, <1>3, <1>6, <1>7, <2>1
  <2>5. More' => dev'.stage = "body" /\ cl'.left = 1 /\ cl'.off = 3
    BY <1>1, <1>11, <1>12
  <2> HIDE DEF b
  <2> QED BY <1>5, <1>7, <1>8, <1>9, <2>2, <2>3, <2>4, <2>5 DEF Sent
<1>14. Acks'
  <2>1. More' => Free(tx', "ack")
    BY <1>1, <1>4, <1>11 DEF TInv, Acks
  <2> QED BY <1>8, <2>1 DEF Acks
<1>15. Buffered'
  BY TakenFull DEF Bytes
<1>16. Controls'
  <2>1. \A k : k \notin {"ACK", "none", "DATA"} =>
            /\ wr'.pend.t = k => wr.pend.t = k
            /\ up'.t = k /\ wr'.pend.t = k => up.t = k /\ wr.pend.t = k
            /\ Out(k)' => Out(k)
    BY <1>2, WroteOuts DEF Wrote
  <2> QED BY <1>1, <2>1, KeepsControls DEF TInv
<1>17. OldNotes'
  BY TakenNotes
<1>18. Committing'
  <2>1. ~GivenUp
    BY <1>1 DEF GivenUp
  <2>2. ~(New /\ fw # <<>>) /\ ~Out("COMMIT_CFM")
    BY <1>1, <2>1 DEF TInv, Committing
  <2>3. ~Out("COMMIT_CFM")'
    BY <1>2, <1>3, <2>2 DEF Out, Kinds
  <2> QED BY <1>1, <2>2, <2>3 DEF Committing, New
<1>19. Work'
  <2>1. /\ New' = New /\ Other' = Other
        /\ \A k : Chunked(k)' <=> Chunked(k)
    BY <1>1 DEF New, Other, Chunked
  <2>2. t = Bytes \/ dev.stage = "body"
    BY <1>1 DEF TInv, Sent
  <2>3. ASSUME NEW k, Writable(k)
        PROVE  Writable(k)'
    BY <1>1, <1>4, <2>1, <2>2, <2>3 DEF Writable
  <2> QED BY <1>1, <2>1, <2>3 DEF TInv, Work
<1>20. Within(tx, Twos)'
  BY <1>4 DEF TInv
<1> QED BY <1>10, <1>13, <1>14, <1>15, <1>16, <1>17, <1>18, <1>19, <1>20 DEF TInv

(* The client has sent the file, or commits: nothing it writes is a packet. *)
LEMMA CommandNext ==
    ASSUME Types, IInv, TInv, ~tx.done, UNCHANGED server, NEW t, Gets(t), t # "write_cfm",
           \/ /\ Handing \/ Asking
              /\ \/ cl'.state = "WAIT_VALIDATION_RSP" /\ Write(<<Req("VALID_DONE_REQ")>>)
                 \/ /\ cl'.state = "WAIT_POST_TRANSFER_DISCONNECT"
                    /\ Write(<<Yes, Req("TRANSFER_COMPLETE_RES")>>)
           \/ /\ cl.state = "IN_PROGRESS_REQ" /\ cl'.state = "COMMIT_REQ"
              /\ Write(<<Yes, Req("COMMIT_CFM")>>)
    PROVE  TInv'
PROOF
<1>1. PICK k \in {"VALID_DONE_REQ", "TRANSFER_COMPLETE_RES", "COMMIT_CFM"} :
        /\ Wrote(Req(k))
        /\ k = "COMMIT_CFM" \/ ~Over
        /\ k = "COMMIT_CFM" => cl.state = "IN_PROGRESS_REQ" /\ cl'.state = "COMMIT_REQ"
        /\ k # "COMMIT_CFM" => cl'.state \in {"WAIT_VALIDATION_RSP",
                                              "WAIT_POST_TRANSFER_DISCONNECT"}
  BY DEF Wrote, Over
<1> DEFINE b == Req(k)
<1>2. b \in Message /\ b.t = k
  BY Messages, MessageFields DEF Kinds
<1>3. ~PreStart' /\ ~Handing' /\ ~More'
  BY <1>1 DEF PreStart, Handing, More
<1>4. link /\ link' = link /\ UNCHANGED <<store, fw>> /\ dev' = dev
  BY DEF Gets, server, flash
<1>5. Turn' /\ Sent' /\ Acks' /\ Work' /\ Within(tx, Twos)'
  BY <1>1, <1>2, <1>3, TakenFades
<1>6. Buffered' /\ Controls' /\ OldNotes'
  BY <1>1, <1>2, <1>3, <1>4, TakenFull, LaterControls, TakenNotes
<1>7. \A i \in {"START_DATA_REQ", "DATA", "TRANSFER_COMPLETE_RES", "COMMIT_CFM"} :
        i # k => (Out(i)' => Out(i))
  BY <1>1, <1>2, WroteOuts
<1>8. Committing'
  <2>1. CASE k = "COMMIT_CFM"
    <3>1. GivenUp
      BY <1>1, <1>4, <2>1 DEF TInv, Committing
    <3>2. Over'
      BY <1>1, <1>3, <2>1 DEF Over, Asking
    <3>3. GivenUp'
      BY <1>7, <2>1, <3>1, <3>2 DEF GivenUp
    <3> QED BY <3>3 DEF Committing
  <2>2. CASE k # "COMMIT_CFM"
    <3>1. ~GivenUp
      BY <1>1, <2>2 DEF GivenUp
    <3>2. ~(New /\ fw # <<>>) /\ ~Out("COMMIT_CFM")
      BY <1>4, <3>1 DEF TInv, Committing
    <3> QED BY <1>1, <1>4, <1>7, <2>2, <3>2 DEF Committing, New
  <2> QED BY <2>1, <2>2
<1> QED BY <1>5, <1>6, <1>8 DEF TInv

LEMMA RejectStays ==
    ASSUME Types, IInv, TInv, ~tx.done, UNCHANGED server, NEW t, Gets(t), t # "write_cfm",
           \/ Reject
           \/ /\ cl.state # "TRANSFER"
              /\ \E c : /\ c.state = cl.state /\ c.off = cl.off /\ c.start = cl.start
                        /\ RejectAs(c)
    PROVE  TInv'
PROOF
<1>1. Wrote(Req("DISCONNECT_REQ")) /\ Yields
  BY DEF Reject, RejectAs, Wrote, Yields, Types, Relayer
<1> QED BY <1>1, YieldsKeep

LEMMA RelaySteps ==
    ASSUME Types, IInv, TInv, Relay
    PROVE  TInv'
PROOF
<1>1. ~tx.done /\ ClientStep /\ UNCHANGED server
  BY DEF Relay
<1>2. cl \in Relayer /\ cl.off \in 0 .. Len(File)
  BY DEF Types, Relayer
<1>3. CASE ControlAck
  <2>1. Gets("ack")
    BY <1>3 DEF ControlAck
  <2>2. CASE cl.state # "TRANSFER"
    <3>1. Wrote(Yes) /\ Yields
      BY <1>3, <2>2 DEF ControlAck, Wrote, Yields, client
    <3> QED BY <1>1, <2>1, <3>1, YieldsKeep
  <2>3. CASE cl.state = "TRANSFER" /\ cl.eof
    <3>1. cl'.state = "WAIT_VALIDATION_RSP" /\ Write(<<Req("VALID_DONE_REQ")>>) /\ Handing
      BY <1>2, <1>3, <2>3 DEF ControlAck, Relayer, Handing
    <3> QED BY <1>1, <2>1, <3>1, CommandNext
  <2>4. CASE cl.state = "TRANSFER" /\ ~cl.eof /\ cl.left > 0
    <3>1. SendData(cl, "DATA_REQ") /\ More /\ link
      BY <1>3, <2>1, <2>4 DEF ControlAck, More, Gets
    <3>2. cl.off # Len(File)
      BY <3>1, FileParts, OtaLinkAssumption DEF TInv, Sent
    <3>3. /\ Write(<<Yes, Msg("DATA", cl.off + 1)>>)
          /\ cl'.off = cl.off + 1 /\ cl'.state = "DATA_REQ"
      BY <1>2, <3>1, <3>2 DEF SendData, Relayer
    <3> QED BY <1>1, <2>1, <3>1, <3>3, PacketNext
  <2>5. CASE cl.state = "TRANSFER" /\ ~cl.eof /\ ~(cl.left > 0)
    <3>1. Wrote(Yes) /\ Yields
      BY <1>2, <1>3, <2>5 DEF ControlAck, Wrote, Yields, Relayer
    <3> QED BY <1>1, <2>1, <3>1, YieldsKeep
  <2> QED BY <2>2, <2>3, <2>4, <2>5
<1>4. CASE DataBytesReq
  <2>1. Gets(Bytes)
    BY <1>4 DEF DataBytesReq, Bytes
  <2>2. CASE cl.state # "DATA_REQ"
    BY <1>1, <1>4, <2>1, <2>2, RejectStays DEF DataBytesReq, Bytes
  <2> DEFINE c == [cl EXCEPT !.left = Head(tx.q).v]
  <2>3. CASE cl.state = "DATA_REQ"
    <3>1. SendData(c, "TRANSFER")
      BY <1>4, <2>3 DEF DataBytesReq
    <3>2. /\ c \in Relayer /\ c.left = Head(tx.q).v
          /\ c.off = cl.off /\ c.state = cl.state /\ c.start = cl.start
      <4>1. Head(tx.q).v \in Nat
        BY <2>1, TakenQueue DEF Message
      <4> QED BY <1>2, <4>1 DEF Relayer
    <3> HIDE DEF c
    <3>3. CASE cl.off = Len(File)
      <4> DEFINE d == [c EXCEPT !.left = @ - 1]
      <4>1. /\ RejectAs(d)
            /\ d.off = cl.off /\ d.state = cl.state /\ d.start = cl.start
        BY <3>1, <3>2, <3>3 DEF SendData, Relayer
      <4> HIDE DEF d
      <4> QED BY <1>1, <2>1, <2>3, <4>1, RejectStays DEF Bytes
    <3>4. CASE cl.off # Len(File)
      <4>1. /\ Write(<<Yes, Msg("DATA", cl.off + 1)>>)
            /\ cl' = [c EXCEPT !.left = @ - 1, !.off = @ + 1, !.state = "TRANSFER",
                               !.eof = cl.off + 1 = Len(File)]
        BY <3>1, <3>4 DEF SendData
      <4>2. cl'.off = cl.off + 1 /\ cl'.state = "TRANSFER" /\ cl'.left = Head(tx.q).v - 1
        BY <3>2, <4>1 DEF Relayer
      <4> QED BY <1>1, <2>1, <2>3, <4>1, <4>2, PacketNext
    <3> QED BY <3>3, <3>4
  <2> QED BY <2>2, <2>3
<1>5. CASE TransferComplete
  <2>1. CASE cl.state \notin {"TRANSFER", "WAIT_VALIDATION", "WAIT_VALIDATION_RSP"}
    BY <1>1, <1>5, <2>1, RejectStays DEF TransferComplete
  <2>2. CASE cl.state \in {"TRANSFER", "WAIT_VALIDATION", "WAIT_VALIDATION_RSP"}
    <3>1. /\ cl'.state = "WAIT_POST_TRANSFER_DISCONNECT" /\ (Handing \/ Asking)
          /\ Write(<<Yes, Req("TRANSFER_COMPLETE_RES")>>) /\ Gets("COMPLETE")
      BY <1>2, <1>5, <2>2 DEF TransferComplete, Relayer, Handing, Asking
    <3> QED BY <1>1, <3>1, CommandNext
  <2> QED BY <2>1, <2>2
<1>6. CASE CommitReq /\ cl.state = "IN_PROGRESS_REQ"
  <2>1. /\ cl'.state = "COMMIT_REQ" /\ Write(<<Yes, Req("COMMIT_CFM")>>)
        /\ Gets("COMMIT_REQ")
    BY <1>2, <1>6 DEF CommitReq, Relayer
  <2> QED BY <1>1, <1>6, <2>1, CommandNext
<1>7. CASE ConnectAck /\ cl.state = "CONNECT"
  BY <1>1, <1>7, ConnectedNext
<1>8. CASE SyncCfmGot /\ cl.state = "SYNC_REQ"
  BY <1>1, <1>8, SyncedNext
<1>9. CASE StartCfmGot
  BY <1>1, <1>9, StartedNext
<1> QED BY <1>1, <1>3, <1>4, <1>5, <1>6, <1>7, <1>8, <1>9, QuietRelayed DEF ClientStep

-----------------------------------------------------------------------------
(* What the server does with a command *)

Answers(m) == tx' \in {Heard, Acked, Notify(Heard, m), Notify(Acked, m)}

LEMMA TakenAway ==
    ASSUME Types, UNCHANGED client, NEW t, Takes(t)
    PROVE  /\ link /\ link' = link /\ up.t = t /\ up' = None /\ wr' = wr /\ cl' = cl
           /\ \A k : k # "none" => /\ Out(k)' => Out(k)
                                   /\ up'.t # k
                                   /\ Out(k)' => wr.pend.t = k
           /\ PreStart' = PreStart /\ Handing' = Handing /\ More' = More /\ Over' = Over
BY MessageFields DEF Takes, client, Out, PreStart, Handing, More, Over, Asking

LEMMA ServedCommands ==
    ASSUME Types, IInv, TInv, ~tx.done, UNCHANGED client,
           NEW t \in Kinds \ {"none"}, Takes(t),
           NEW m \in Message, Answers(m), m \in Twos,
           m.t = Bytes => t \in {"START_DATA_REQ", "DATA"},
           m.t = "START_CFM" => t = "START_REQ"
    PROVE  Buffered' /\ Controls' /\ OldNotes' /\ Within(tx, Twos)'
PROOF
<1>1. /\ link /\ link' = link /\ up.t = t /\ up' = None /\ wr' = wr /\ cl' = cl
      /\ \A k : k # "none" => /\ Out(k)' => Out(k)
                              /\ up'.t # k
                              /\ Out(k)' => wr.pend.t = k
      /\ PreStart' = PreStart /\ Handing' = Handing
  BY TakenAway
<1>2. /\ tx' \in Queue
      /\ \A S : Within(tx, S) /\ {WriteCfm, Ack, m} \subseteq S => Within(tx', S)
      /\ Full(tx) => Full(tx')
  BY AnswerQueue DEF Answers
<1>3. /\ {WriteCfm, Ack} \subseteq Message
      /\ WriteCfm.t = "write_cfm" /\ Ack.t = "ack"
  BY Messages, MessageFields
<1>4. Within(tx, Twos)'
  BY <1>2, <1>3 DEF TInv, Twos, Bytes
<1>5. Buffered'
  BY <1>1, <1>2 DEF TInv, Buffered
<1>6. Controls'
  BY <1>1, KeepsControls DEF TInv
<1> SUFFICES OldNotes'
  BY <1>4, <1>5, <1>6
<1>7. \A k : k \notin {"write_cfm", "ack", m.t} /\ Free(tx, k) => Free(tx', k)
  BY <1>2, <1>3 DEF Free
<1>8. PreStart => t \notin {"START_DATA_REQ", "DATA"}
  BY <1>1 DEF IInv, Client, Out
<1>9. CASE cl.state = "SYNC_REQ"
  <2>1. t # "START_REQ" /\ m.t \notin {Bytes, "START_CFM"}
    BY <1>1, <1>8, <1>9 DEF TInv, Controls, Out, PreStart
  <2>2. \E M : Grows(tx, tx', M) /\ Bytes \notin M /\ "START_CFM" \notin M
    <3>1. tx \in Queue
      BY DEF Types
    <3>2. /\ Grows(tx, Heard, {"write_cfm"}) /\ Grows(tx, Acked, {"write_cfm", "ack"})
          /\ Grows(tx, Notify(Acked, m), {"write_cfm", "ack", m.t})
          /\ Grows(tx, Notify(Heard, m), {"write_cfm", m.t})
      BY <3>1, HeardGrows, AckedGrows, AnswerGrows
    <3> QED BY <2>1, <3>2 DEF Answers, Bytes
  <2>3. PICK M : Grows(tx, tx', M) /\ Bytes \notin M /\ "START_CFM" \notin M
    BY <2>2
  <2>4. ASSUME NEW k \in {Bytes, "START_CFM"}
        PROVE  tx'.held.t # k /\ \A i \in 2 .. Len(tx'.q) : tx'.q[i].t # k
    <3>1. tx.held.t # k /\ \A i \in 2 .. Len(tx.q) : tx.q[i].t # k
      BY <1>1, <1>9 DEF TInv, OldNotes
    <3>2. tx'.held.t # k
      BY <2>3, <3>1 DEF Grows
    <3>3. Len(tx.q) \in Nat /\ Len(tx'.q) \in Nat
      BY <1>2 DEF Types, Queue
    <3> QED BY <2>3, <3>1, <3>2, <3>3 DEF Grows
  <2> QED BY <1>1, <1>9, <2>4 DEF OldNotes
<1>10. CASE cl.state = "START_REQ"
  <2>1. m.t # Bytes /\ Free(tx, Bytes) /\ (~Free(tx, "START_CFM") => ~Out("START_REQ") /\ ~Out("SYNC_REQ"))
    BY <1>1, <1>8, <1>10 DEF TInv, OldNotes, PreStart
  <2>2. Free(tx', Bytes)
    BY <1>7, <2>1 DEF Bytes
  <2>3. CASE m.t = "START_CFM"
    <3>1. wr.pend.t # "START_REQ" /\ wr.pend.t # "SYNC_REQ"
      BY <1>1, <2>3 DEF TInv, Controls
    <3> QED BY <1>1, <1>10, <2>2, <3>1 DEF OldNotes
  <2>4. CASE m.t # "START_CFM"
    BY <1>1, <1>7, <1>10, <2>1, <2>2, <2>4 DEF OldNotes
  <2> QED BY <2>3, <2>4
<1>11. CASE cl.state \notin {"SYNC_REQ", "START_REQ"}
  BY <1>1, <1>11 DEF OldNotes
<1> QED BY <1>9, <1>10, <1>11

(* A command that entitles the client to nothing *)
LEMMA ServedQuietly ==
    ASSUME Types, IInv, TInv, ~tx.done, UNCHANGED client,
           NEW t \in Kinds \ {"none", "START_DATA_REQ", "DATA"}, Takes(t),
           NEW m \in Message, Answers(m), m.t \notin {Bytes, "ack"},
           tx' \in {Heard, Notify(Heard, m)} \/ ~Handing,
           m.t = "START_CFM" => t = "START_REQ",
           dev'.app = dev.app, dev'.cs = dev.cs, store' = store,
           fw' = fw \/ (t = "COMMIT_CFM" /\ New /\ fw' # <<Op("set", Other)>>),
           \/ dev'.stage = dev.stage /\ dev'.got = dev.got
           \/ dev'.got = 0 /\ ~Handing /\ ~Out("DATA")
    PROVE  TInv'
PROOF
<1>1. /\ link /\ link' = link /\ up.t = t /\ up' = None /\ wr' = wr /\ cl' = cl
      /\ \A k : k # "none" => /\ Out(k)' => Out(k)
                              /\ up'.t # k
                              /\ Out(k)' => wr.pend.t = k
      /\ PreStart' = PreStart /\ Handing' = Handing /\ More' = More /\ Over' = Over
  BY TakenAway
<1>2. /\ \A S : Within(tx, S) /\ {WriteCfm, Ack, m} \subseteq S => Within(tx', S)
      /\ \A k : Once(tx, k) /\ k \notin {"write_cfm", "ack"} /\ m.t # k => Once(tx', k)
      /\ AcksFirst(tx) /\ m \in Ones /\ tx' \in {Heard, Notify(Heard, m)} => AcksFirst(tx')
  BY AnswerQueue DEF Answers
<1>3. /\ {WriteCfm, Ack} \subseteq Message
      /\ WriteCfm.t = "write_cfm" /\ Ack.t = "ack" /\ m \in Ones /\ m \in Twos
      /\ {WriteCfm, Ack} \subseteq Ones
  BY Messages, MessageFields DEF Ones, Twos, Bytes
<1>4. Buffered' /\ Controls' /\ OldNotes' /\ Within(tx, Twos)'
  BY <1>3, ServedCommands
<1>5. Free(tx, Bytes) => Free(tx', Bytes)
  BY <1>2, <1>3 DEF Free, Bytes
<1>6. Fades
  <2>1. \A k \in {up', wr'.pend} : k.t = "DATA" => k \in {up, wr.pend}
    BY <1>1
  <2>2. Once(tx, Bytes) => Once(tx', Bytes)
    BY <1>2 DEF Bytes
  <2>3. Within(tx, Ones) => Within(tx', Ones)
    BY <1>2, <1>3
  <2> QED BY <1>1, <1>5, <2>1, <2>2, <2>3 DEF Fades
<1>7. New' = New /\ Other' = Other
  BY DEF New, Other
<1>8. Erasing' => Erasing
  BY <1>7 DEF Erasing, Ops
<1>9. Turn' /\ Sent'
  BY <1>6, <1>8, FadesKeep DEF TInv
<1>10. Acks'
  <2>1. Handing => /\ AcksFirst(tx) => AcksFirst(tx')
                   /\ Free(tx, "ack") => Free(tx', "ack")
    <3> SUFFICES ASSUME tx' \in {Heard, Notify(Heard, m)}
                 PROVE  /\ AcksFirst(tx) => AcksFirst(tx')
                        /\ Free(tx, "ack") => Free(tx', "ack")
      OBVIOUS
    <3>1. Free(tx, "ack") => Free(Heard, "ack")
      BY <1>3, HeardQueue DEF Free
    <3>2. Free(Heard, "ack") => Free(Notify(Heard, m), "ack")
      BY HeardQueue, NotifyQueue DEF Free
    <3> QED BY <1>2, <1>3, <3>1, <3>2
  <2> QED BY <1>6, <2>1, FadesAcks DEF TInv
<1>11. Committing'
  <2>1. New' /\ fw' # <<>> => GivenUp
    BY <1>1, <1>7 DEF TInv, Committing, Out
  <2>2. cl'.state \in {"START_REQ_AFTER_REBOOT", "IN_PROGRESS_REQ", "COMMIT_REQ"} => GivenUp
    BY <1>1 DEF TInv, Committing
  <2> QED BY <1>1, <2>1, <2>2, KeepsCommitting DEF TInv
<1>12. Work'
  <2>1. CASE fw' = fw
    BY <1>6, <2>1, FadesWork DEF TInv
  <2>2. CASE New /\ fw' # <<Op("set", Other)>>
    BY <1>7, <2>2 DEF TInv, Work
  <2> QED BY <2>1, <2>2
<1> QED BY <1>4, <1>9, <1>10, <1>11, <1>12 DEF TInv

LEMMA QuietServes ==
    ASSUME Types, IInv, TInv, ~tx.done, UNCHANGED client,
           \/ ConnectReq \/ DisconnectReq \/ AckReq \/ SyncReq \/ StartReq \/ AbortReq
           \/ ValidDoneReq \/ TransferCompleteRes \/ InProgressRes \/ CommitCfm
    PROVE  TInv'
PROOF
<1>1. /\ Touched \in Ram /\ Touched.app = dev.app /\ Touched.cs = dev.cs
      /\ Touched.stage = dev.stage /\ Touched.got = dev.got /\ dev \in Ram
  BY TouchedFields DEF Types
<1>2. \A t, k : Takes(t) => link /\ up.t = t /\ Out(t)
  BY DEF Takes, Out
<1>3. \A t \in {"SYNC_REQ", "START_REQ", "VALID_DONE_REQ", "IN_PROGRESS_RES", "COMMIT_CFM",
                "ABORT_REQ", "TRANSFER_COMPLETE_RES"} :
        Takes(t) => ~Handing
  BY <1>2 DEF TInv, Controls, IInv, Client, Over
<1> DEFINE Same == dev'.app = dev.app /\ dev'.cs = dev.cs
                   /\ dev'.stage = dev.stage /\ dev'.got = dev.got
<1>4. CASE ConnectReq
  <2> DEFINE m == Msg("conn_ack", 0)
  <2>1. Takes("CONNECT") /\ tx' = Notify(Heard, m) /\ UNCHANGED server
    BY <1>4 DEF ConnectReq
  <2>2. m \in Message /\ m.t = "conn_ack" /\ Same /\ store' = store /\ fw' = fw
    BY <2>1, Messages, MessageFields DEF Kinds, server, flash
  <2> HIDE DEF m
  <2> QED BY <2>1, <2>2, ServedQuietly DEF Answers, Kinds, Bytes
<1>5. CASE DisconnectReq
  <2> DEFINE m == Msg("disc_ack", 0)
  <2>1. Takes("DISCONNECT_REQ") /\ tx' = Notify(Heard, m)
    BY <1>5 DEF DisconnectReq
  <2>2. m \in Message /\ m.t = "disc_ack" /\ Same /\ store' = store /\ fw' = fw
    BY <1>1, <1>5, Messages, MessageFields DEF DisconnectReq, Kinds, flash, Ram
  <2> HIDE DEF m
  <2> QED BY <2>1, <2>2, ServedQuietly DEF Answers, Kinds, Bytes
<1>6. CASE AckReq
  <2>1. Takes("ACK") /\ tx' = Heard /\ UNCHANGED server
    BY <1>6 DEF AckReq
  <2>2. None \in Message /\ None.t = "none" /\ Same /\ store' = store /\ fw' = fw
    BY <2>1, Messages, MessageFields DEF server, flash
  <2> QED BY <2>1, <2>2, ServedQuietly DEF Answers, Kinds, Bytes
<1>7. CASE SyncReq
  <2>1. Takes("SYNC_REQ") /\ ~Handing /\ tx' \in {Acked, Notify(Acked, SyncCfm)}
    BY <1>3, <1>7 DEF SyncReq
  <2>2. /\ SyncCfm \in Message /\ SyncCfm.t = "SYNC_CFM" /\ Same
        /\ store' = store /\ fw' = fw
    BY <1>1, <1>7, Messages, MessageFields DEF SyncReq, flash, Ram
  <2> QED BY <2>1, <2>2, ServedQuietly DEF Answers, Kinds, Bytes
<1>8. CASE StartReq
  <2>1. Takes("START_REQ") /\ ~Handing /\ tx' = Notify(Acked, StartCfm)
    BY <1>3, <1>8 DEF StartReq
  <2>2. /\ StartCfm \in Message /\ StartCfm.t = "START_CFM" /\ Same
        /\ store' = store /\ fw' = fw
    BY <1>1, <1>8, Messages, MessageFields DEF StartReq, flash
  <2> QED BY <2>1, <2>2, ServedQuietly DEF Answers, Kinds, Bytes
<1>9. CASE AbortReq
  <2> DEFINE m == Msg("ABORT_CFM", 0)
  <2>1. Takes("ABORT_REQ") /\ ~Handing /\ ~Out("DATA") /\ tx' = Notify(Acked, m)
    BY <1>2, <1>3, <1>9 DEF AbortReq, IInv, Client
  <2>2. /\ dev'.app = dev.app /\ dev'.cs = dev.cs
        /\ \/ dev'.stage = dev.stage /\ dev'.got = dev.got
           \/ dev'.got = 0
    <3> DEFINE d == [Touched EXCEPT !.trial = FALSE]
    <3>1. /\ d \in Ram /\ d.app = dev.app /\ d.cs = dev.cs
          /\ d.stage = dev.stage /\ d.got = dev.got
      BY <1>1 DEF Ram
    <3> HIDE DEF d
    <3>2. CASE isNewApp
      <4>1. dev' = [Touched EXCEPT !.trial = FALSE, !.reset = TRUE, !.closing = TRUE]
        BY <1>9, <3>2 DEF AbortReq
      <4> QED BY <1>1, <4>1 DEF Ram
    <3>3. CASE ~isNewApp
      <4>1. dev' = initStateVariables(d)
        BY <1>9, <3>3 DEF AbortReq, d
      <4> QED BY <3>1, <4>1 DEF Ram, initStateVariables
    <3> QED BY <3>2, <3>3
  <2>3. m \in Message /\ m.t = "ABORT_CFM" /\ store' = store /\ fw' = fw
    BY <1>9, Messages, MessageFields DEF AbortReq, Kinds
  <2> HIDE DEF m
  <2> QED BY <2>1, <2>2, <2>3, ServedQuietly DEF Answers, Kinds, Bytes
<1>10. CASE ValidDoneReq
  <2> DEFINE m == Msg(IF dev.valid THEN "COMPLETE" ELSE "VALID_CFM", 0)
  <2>1. Takes("VALID_DONE_REQ") /\ ~Handing /\ tx' = Notify(Acked, m)
    BY <1>3, <1>10 DEF ValidDoneReq
  <2>2. m \in Message /\ m.t \in {"COMPLETE", "VALID_CFM"} /\ Same /\ store' = store /\ fw' = fw
    BY <1>1, <1>10, Messages, MessageFields DEF ValidDoneReq, Kinds, flash
  <2> HIDE DEF m
  <2> QED BY <2>1, <2>2, ServedQuietly DEF Answers, Kinds, Bytes
<1>11. CASE TransferCompleteRes
  <2>1. Takes("TRANSFER_COMPLETE_RES") /\ ~Handing /\ tx' = Acked
    BY <1>3, <1>11 DEF TransferCompleteRes
  <2>2. None \in Message /\ None.t = "none" /\ Same /\ store' = store /\ fw' = fw
    BY <1>1, <1>11, Messages, MessageFields DEF TransferCompleteRes, Ram
  <2> QED BY <2>1, <2>2, ServedQuietly DEF Answers, Kinds, Bytes
<1>12. CASE InProgressRes
  <2> DEFINE m == Msg("COMMIT_REQ", 0)
  <2>1. Takes("IN_PROGRESS_RES") /\ ~Handing /\ tx' = Notify(Acked, m)
    BY <1>3, <1>12 DEF InProgressRes
  <2>2. m \in Message /\ m.t = "COMMIT_REQ" /\ Same /\ store' = store /\ fw' = fw
    BY <1>1, <1>12, Messages, MessageFields DEF InProgressRes, Kinds, flash
  <2> HIDE DEF m
  <2> QED BY <2>1, <2>2, ServedQuietly DEF Answers, Kinds, Bytes
<1>13. CASE CommitCfm
  <2> DEFINE m == Msg("COMPLETE_IND", 0)
  <2>1. Takes("COMMIT_CFM") /\ ~Handing /\ tx' \in {Acked, Notify(Acked, m)}
    BY <1>3, <1>13 DEF CommitCfm
  <2>2. m \in Message /\ m.t = "COMPLETE_IND" /\ Same /\ store' = store
    <3>1. m \in Message /\ m.t = "COMPLETE_IND"
      BY Messages, MessageFields DEF Kinds
    <3>2. \/ dev' = [Touched EXCEPT !.timer = FALSE, !.trial = FALSE, !.commit_cfm = TRUE]
          \/ dev' = [Touched EXCEPT !.trial = FALSE, !.reset = TRUE, !.closing = TRUE]
      BY <1>13 DEF CommitCfm
    <3>3. Same
      BY <1>1, <3>2 DEF Ram
    <3> QED BY <1>13, <3>1, <3>3 DEF CommitCfm
  <2>3. fw' = fw \/ (New /\ fw' # <<Op("set", Other)>>)
    <3> SUFFICES ASSUME fw' # fw PROVE New /\ fw' # <<Op("set", Other)>>
      OBVIOUS
    <3>1. isNewApp /\ fw' = Append(fw, Op("run", getAppStoreToUpgrade))
      BY <1>13 DEF CommitCfm
    <3>2. New
      BY <1>2, <2>1, <3>1 DEF IInv, Flash, isNewApp
    <3>3. fw = <<>>
      BY <1>2, <2>1, <3>2 DEF IInv, Flash
    <3>4. Append(<<>>, Op("run", getAppStoreToUpgrade)) = <<Op("run", getAppStoreToUpgrade)>>
      OBVIOUS
    <3>5. fw'[1].t = "run" /\ <<Op("set", Other)>>[1].t = "set"
      BY <3>1, <3>3, <3>4 DEF Op
    <3> QED BY <3>2, <3>5
  <2> HIDE DEF m
  <2> QED BY <2>1, <2>2, <2>3, ServedQuietly DEF Answers, Kinds, Bytes
<1> QED BY <1>4, <1>5, <1>6, <1>7, <1>8, <1>9, <1>10, <1>11, <1>12, <1>13

-----------------------------------------------------------------------------
(* The packets of the file *)

LEMMA FilePieces ==
    /\ File[1] = "id" /\ File[2] = "len" /\ File[3] = "body" /\ File[4] = "body"
    /\ File[5] = "part" /\ File[6] = "phdr"
    /\ \A i \in 1 .. Chunks : File[6 + i] = "data"
    /\ File[7 + Chunks] = "foot" /\ File[8 + Chunks] = "flen"
    /\ \A i \in 1 .. Sigs : File[8 + Chunks + i] = "sig"
PROOF
<1> DEFINE H == <<"id", "len", "body", "body", "part", "phdr">>
           D == Times("data", Chunks)
           F == <<"foot", "flen">>
           S == Times("sig", Sigs)
<1>1. D \in Seq(Pieces) /\ Len(D) = Chunks /\ \A i \in 1 .. Chunks : D[i] = "data"
  BY OtaLinkAssumption DEF Times, Pieces
<1>2. S \in Seq(Pieces) /\ Len(S) = Sigs /\ \A i \in 1 .. Sigs : S[i] = "sig"
  BY OtaLinkAssumption DEF Times, Pieces
<1>3. /\ H \in Seq(Pieces) /\ Len(H) = 6 /\ H[1] = "id" /\ H[2] = "len" /\ H[3] = "body"
      /\ H[4] = "body" /\ H[5] = "part" /\ H[6] = "phdr"
  BY DEF Pieces
<1>4. F \in Seq(Pieces) /\ Len(F) = 2 /\ F[1] = "foot" /\ F[2] = "flen"
  BY DEF Pieces
<1>5. File = H \o D \o F \o S
  BY DEF File
<1> HIDE DEF H, D, F, S
<1>6. ASSUME NEW a \in Seq(Pieces), NEW b \in Seq(Pieces)
      PROVE  /\ a \o b \in Seq(Pieces) /\ Len(a \o b) = Len(a) + Len(b)
             /\ \A i \in 1 .. Len(a) : (a \o b)[i] = a[i]
             /\ \A i \in 1 .. Len(b) : (a \o b)[Len(a) + i] = b[i]
  <2>1. Len(a) \in Nat /\ Len(b) \in Nat
    OBVIOUS
  <2>2. /\ a \o b \in Seq(Pieces) /\ Len(a \o b) = Len(a) + Len(b)
        /\ \A i \in 1 .. Len(a) + Len(b) :
            (a \o b)[i] = IF i <= Len(a) THEN a[i] ELSE b[i - Len(a)]
    BY ConcatProperties
  <2>3. \A i \in 1 .. Len(b) : Len(a) + i \in 1 .. Len(a) + Len(b)
                               /\ ~(Len(a) + i <= Len(a)) /\ (Len(a) + i) - Len(a) = i
    BY <2>1
  <2> QED BY <2>1, <2>2, <2>3
<1> DEFINE HD == H \o D
<1>7. /\ HD \in Seq(Pieces) /\ Len(HD) = 6 + Chunks
      /\ \A i \in 1 .. 6 : HD[i] = H[i]
      /\ \A i \in 1 .. Chunks : HD[6 + i] = "data"
  <2>1. /\ HD \in Seq(Pieces) /\ Len(HD) = Len(H) + Len(D)
        /\ \A i \in 1 .. Len(H) : HD[i] = H[i]
        /\ \A i \in 1 .. Len(D) : HD[Len(H) + i] = D[i]
    BY <1>1, <1>3, <1>6
  <2> HIDE DEF HD
  <2> QED BY <1>1, <1>3, <2>1
<1> HIDE DEF HD
<1> DEFINE HDF == HD \o F
<1>8. /\ HDF \in Seq(Pieces) /\ Len(HDF) = 8 + Chunks
      /\ \A i \in 1 .. 6 + Chunks : HDF[i] = HD[i]
      /\ HDF[7 + Chunks] = "foot" /\ HDF[8 + Chunks] = "flen"
  <2>1. /\ HDF \in Seq(Pieces) /\ Len(HDF) = Len(HD) + Len(F)
        /\ \A i \in 1 .. Len(HD) : HDF[i] = HD[i]
        /\ \A i \in 1 .. Len(F) : HDF[Len(HD) + i] = F[i]
    BY <1>4, <1>6, <1>7
  <2>2. /\ Len(HD) + Len(F) = 8 + Chunks /\ 1 \in 1 .. Len(F) /\ 2 \in 1 .. Len(F)
        /\ Len(HD) + 1 = 7 + Chunks /\ Len(HD) + 2 = 8 + Chunks
    BY <1>4, <1>7, OtaLinkAssumption
  <2>3. HDF[7 + Chunks] = F[1] /\ HDF[8 + Chunks] = F[2]
    BY <2>1, <2>2
  <2> HIDE DEF HDF
  <2> QED BY <1>4, <1>7, <2>1, <2>2, <2>3
<1> HIDE DEF HDF
<1>9. /\ \A i \in 1 .. 8 + Chunks : File[i] = HDF[i]
      /\ \A i \in 1 .. Sigs : File[8 + Chunks + i] = "sig"
  <2>1. File = HDF \o S
    BY <1>5 DEF HD, HDF
  <2> QED BY <1>2, <1>6, <1>8, <2>1
<1>10. /\ \A i \in 1 .. 6 : i \in 1 .. 6 + Chunks /\ i \in 1 .. 8 + Chunks
       /\ \A i \in 1 .. Chunks : 6 + i \in 1 .. 6 + Chunks /\ 6 + i \in 1 .. 8 + Chunks
       /\ 7 + Chunks \in 1 .. 8 + Chunks /\ 8 + Chunks \in 1 .. 8 + Chunks
  BY OtaLinkAssumption
<1>11. \A i \in 1 .. 6 : File[i] = H[i]
  BY <1>7, <1>8, <1>9, <1>10
<1>12. \A i \in 1 .. Chunks : File[6 + i] = "data"
  BY <1>7, <1>8, <1>9, <1>10
<1>13. File[7 + Chunks] = "foot" /\ File[8 + Chunks] = "flen"
  BY <1>8, <1>9, <1>10
<1> QED BY <1>3, <1>9, <1>11, <1>12, <1>13

(* The packet that is due is the one the parser takes. *)
LEMMA DuePieces ==
    ASSUME Types, NEW v, Due(v)
    PROVE  /\ v \in Nat
           /\ IF dev.stage = "unknown" THEN File[v] \in {"part", "foot"}
              ELSE File[v] = dev.stage
PROOF
<1>1. dev.got \in Nat /\ dev.stage \in Steps
  BY DEF Types, Ram
<1>2. CASE dev.stage = "data"
  <2>1. v = 6 + (1 + dev.got) /\ 1 + dev.got \in 1 .. Chunks
    BY <1>1, <1>2, OtaLinkAssumption DEF Due
  <2> QED BY <1>2, <2>1, FilePieces
<1>3. CASE dev.stage = "sig"
  <2>1. v = 8 + Chunks + (1 + dev.got) /\ 1 + dev.got \in 1 .. Sigs
    BY <1>1, <1>3, OtaLinkAssumption DEF Due
  <2>2. \A i \in 1 .. Sigs : v = 8 + Chunks + i => File[v] = "sig"
    BY FilePieces
  <2>3. File[v] = "sig"
    BY <2>1, <2>2
  <2> QED BY <1>1, <1>3, <2>1, <2>3, OtaLinkAssumption
<1>4. CASE dev.stage \notin {"data", "sig"}
  <2>1. v \in {1, 2, 3, 4, 5, 6, 7 + Chunks, 8 + Chunks}
    BY <1>1, <1>4 DEF Due
  <2>2. v \in Nat
    BY <2>1, OtaLinkAssumption
  <2>3. \/ dev.stage = "id" /\ v = 1
        \/ dev.stage = "len" /\ v = 2
        \/ dev.stage = "body" /\ v \in {3, 4}
        \/ dev.stage = "phdr" /\ v = 6
        \/ dev.stage = "flen" /\ v = 8 + Chunks
        \/ dev.stage = "unknown" /\ v \in {5, 7 + Chunks}
    BY <1>1, <1>4 DEF Due
  <2>4. CASE dev.stage = "unknown"
    BY <2>2, <2>3, <2>4, FilePieces
  <2>5. CASE dev.stage # "unknown"
    <3>1. File[v] = dev.stage
      BY <2>3, <2>5, FilePieces
    <3> QED BY <2>2, <2>5, <3>1
  <2> QED BY <2>4, <2>5
<1> QED BY <1>2, <1>3, <1>4

(* Work that is left alone, with no packet to come for the stage of the data *)
LEMMA SameWork ==
    ASSUME Work, store' = store, fw' = fw, dev'.app = dev.app,
           New => dev'.cs = dev.cs,
           ~(link' /\ dev'.stage = "data"
             /\ (Out("DATA")' \/ (Handing' /\ ~Free(tx, Bytes)')))
    PROVE  Work'
PROOF
<1>1. /\ New' = New /\ Other' = Other
      /\ \A k : Chunked(k)' <=> Chunked(k)
  BY DEF New, Other, Chunked
<1>2. ASSUME NEW k, Writable(k)
      PROVE  Writable(k)'
  BY <1>1, <1>2 DEF Writable
<1>3. ~New' => \/ fw' = <<Op("key", 0)>>
               \/ fw' = <<Op("set", Other')>>
               \/ \E k \in 0 .. Len(fw') : Chunked(k)' /\ Writable(k)'
  BY <1>1, <1>2 DEF Work
<1>4. New' /\ fw' = <<Op("set", Other')>> => dev'.cs = Other'
  BY <1>1 DEF Work
<1>5. \A s \in Stores : store'[s] \in {Orig} \cup 0 .. Chunks
  BY DEF Work
<1> QED BY <1>3, <1>4, <1>5 DEF Work

(* The transfer begins: its first packet is due. *)
LEMMA StartDataServes ==
    ASSUME Types, IInv, TInv, ~tx.done, UNCHANGED client, StartDataReq
    PROVE  TInv'
PROOF
<1> DEFINE m == BytesReq(1)
<1>1. Takes("START_DATA_REQ") /\ tx' = Notify(Acked, m) /\ UNCHANGED <<flash, fw>>
  BY DEF StartDataReq
<1>2. /\ dev'.stage = "id" /\ dev'.got = dev.got
      /\ dev'.app = dev.app /\ dev'.cs = dev.cs
  <2>1. dev' = [Touched EXCEPT !.state = "IN_PROGRESS", !.stage = "id", !.upgraded = FALSE]
    BY DEF StartDataReq
  <2> QED BY <2>1, TouchedFields DEF Ram
<1>3. /\ link /\ link' = link /\ up.t = "START_DATA_REQ" /\ up' = None /\ wr' = wr /\ cl' = cl
      /\ \A k : k # "none" => /\ Out(k)' => Out(k)
                              /\ up'.t # k
                              /\ Out(k)' => wr.pend.t = k
      /\ PreStart' = PreStart /\ Handing' = Handing /\ More' = More /\ Over' = Over
  BY <1>1, TakenAway
<1>4. Out("START_DATA_REQ")
  BY <1>3 DEF Out
<1>5. /\ Free(tx, Bytes) /\ ~Erasing /\ ~Out("DATA") /\ ~More /\ ~PreStart
      /\ wr.pend.t # "START_DATA_REQ" /\ dev.got = 0 /\ (Handing => cl.off = 0)
  BY <1>3, <1>4 DEF TInv, Turn, Sent, IInv, Client, Started
<1>6. /\ {WriteCfm, Ack, m} \subseteq Message /\ {WriteCfm, Ack, m} \subseteq Ones
      /\ m.t = Bytes /\ m \in Twos
  <2>1. m = Msg(Bytes, 1)
    BY DEF BytesReq, Bytes
  <2>2. m \in Message /\ m.t = Bytes /\ m.v = 1
    BY <2>1, Messages, MessageFields DEF Kinds, Bytes
  <2> QED BY <2>2, Messages, MessageFields DEF Ones, Twos, Bytes
<1> HIDE DEF m
<1>7. Answers(m)
  BY <1>1 DEF Answers
<1>8. /\ tx' \in Queue /\ Once(tx', Bytes) /\ AcksFirst(tx') /\ Within(tx', Ones)
  <2>1. Within(tx, Ones) /\ Once(tx, Bytes)
    BY <1>5, FreeQueue DEF Types
  <2> QED BY <1>5, <1>6, <1>7, <2>1, AnswerQueue DEF Answers, Bytes
<1>9. ~Out("START_DATA_REQ")' /\ ~Out("DATA")' /\ ~More' /\ ~PreStart' /\ ~Erasing'
  <2>1. ~Out("START_DATA_REQ")' /\ ~Out("DATA")'
    BY <1>3, <1>5
  <2>2. ~Erasing'
    BY <1>1, <1>2, <1>5 DEF Erasing, New, Ops, flash
  <2> QED BY <1>3, <1>5, <2>1, <2>2
<1>10. Turn'
  BY <1>8, <1>9 DEF Turn, Out
<1>11. Sent'
  <2>1. Due(1)'
    BY <1>2, <1>5 DEF Due
  <2>2. Handing' => Due(cl.off + 1)'
    <3>1. Handing' => cl'.off + 1 = 1
      BY <1>3, <1>5
    <3> QED BY <2>1, <3>1
  <2>3. cl'.state # "START_REQ"
    BY <1>9 DEF PreStart
  <2> QED BY <1>2, <1>5, <1>8, <1>9, <2>2, <2>3 DEF Sent, Out
<1>12. Acks'
  BY <1>8, <1>9 DEF Acks
<1>13. Buffered' /\ Controls' /\ OldNotes' /\ Within(tx, Twos)'
  BY <1>1, <1>6, <1>7, ServedCommands DEF Kinds, Bytes
<1>14. Committing'
  <2>1. New' = New /\ fw' = fw
    BY <1>1, <1>2 DEF New, flash
  <2>2. New' /\ fw' # <<>> => GivenUp
    BY <1>3, <2>1 DEF TInv, Committing
  <2>3. cl'.state \in {"START_REQ_AFTER_REBOOT", "IN_PROGRESS_REQ", "COMMIT_REQ"} => GivenUp
    BY <1>3 DEF TInv, Committing
  <2> QED BY <1>3, <2>2, <2>3, KeepsCommitting DEF TInv
<1>15. Work'
  BY <1>1, <1>2, SameWork DEF TInv, flash
<1> QED BY <1>10, <1>11, <1>12, <1>13, <1>14, <1>15 DEF TInv

(***************************************************************************)
(* A packet has been taken.  It was the only one, and what it makes of the *)
(* parser is what the next one must fit: a request for packets, or the     *)
(* erasure that will be followed by one, names the one that is due.        *)
(***************************************************************************)
LEMMA PacketTaken ==
    ASSUME Types, IInv, TInv, ~tx.done, UNCHANGED client, UNCHANGED flash, Takes("DATA"),
           NEW m \in Message, Answers(m), m.t \notin {"ack", "START_CFM"}, m \in Twos,
           dev'.app = dev.app, dev'.cs = dev.cs, New => fw' = fw,
           Handing /\ (m.t = Bytes \/ Erasing') => \A v : v = up.v + 1 => Due(v)',
           Erasing' => m.t # Bytes,
           More => m.t # Bytes /\ ~Erasing' /\ dev'.stage = "body",
           Handing /\ m \notin Ones => dev'.stage = "body" /\ up.v = 2,
           Work'
    PROVE  TInv'
PROOF
<1>1. /\ link /\ link' = link /\ up.t = "DATA" /\ up' = None /\ wr' = wr /\ cl' = cl
      /\ \A k : k # "none" => /\ Out(k)' => Out(k)
                              /\ up'.t # k
                              /\ Out(k)' => wr.pend.t = k
      /\ PreStart' = PreStart /\ Handing' = Handing /\ More' = More /\ Over' = Over
  BY TakenAway
<1>2. Out("DATA")
  BY <1>1 DEF Out
<1>3. /\ Free(tx, Bytes) /\ ~Erasing /\ ~Out("START_DATA_REQ") /\ wr.pend.t # "DATA"
      /\ ~PreStart /\ (Handing => up.v = cl.off)
  BY <1>1, <1>2 DEF TInv, Turn, Sent, IInv, Client
<1>4. /\ {WriteCfm, Ack} \subseteq Message /\ {WriteCfm, Ack} \subseteq Ones
      /\ WriteCfm.t = "write_cfm" /\ Ack.t = "ack"
  BY Messages, MessageFields DEF Ones, Bytes
<1>5. /\ tx' \in Queue /\ Once(tx', Bytes)
      /\ m.t # Bytes => Free(tx', Bytes)
      /\ m \in Ones => Within(tx', Ones)
      /\ Handing => AcksFirst(tx')
  <2>1. Within(tx, Ones) /\ Once(tx, Bytes)
    BY <1>3, FreeQueue DEF Types
  <2>2. Handing => Full(tx)
    BY DEF TInv, Buffered, Handing
  <2>3. /\ tx' \in Queue
        /\ \A S : Within(tx, S) /\ {WriteCfm, Ack, m} \subseteq S => Within(tx', S)
        /\ \A t : Once(tx, t) /\ t \notin {"write_cfm", "ack"}
                  /\ (m.t # t \/ Free(tx, t)) => Once(tx', t)
        /\ Free(tx, Bytes) /\ m.t # "ack" /\ (m \notin Ones => Full(tx) /\ ~tx.done)
             => AcksFirst(tx')
    BY AnswerQueue DEF Answers
  <2>4. Once(tx', Bytes) /\ (Handing => AcksFirst(tx'))
    BY <1>3, <2>1, <2>2, <2>3 DEF Bytes
  <2>5. m.t # Bytes => Free(tx', Bytes)
    BY <1>3, <1>4, <2>3 DEF Free, Bytes
  <2>6. m \in Ones => Within(tx', Ones)
    BY <1>4, <2>1, <2>3
  <2> QED BY <2>3, <2>4, <2>5, <2>6
<1>6. ~Out("START_DATA_REQ")' /\ ~Out("DATA")' /\ ~PreStart'
  BY <1>1, <1>3
<1>7. Turn'
  BY <1>1, <1>5, <1>6 DEF Turn, Out
<1>8. Sent'
  <2>1. Handing' /\ (~Free(tx, Bytes)' \/ Erasing') => Due(cl.off + 1)'
    <3>1. SUFFICES ASSUME Handing, m.t = Bytes \/ Erasing'
                   PROVE  Due(cl.off + 1)'
      BY <1>1, <1>5
    <3>2. cl'.off + 1 = up.v + 1
      BY <1>1, <1>3, <3>1
    <3> QED BY <3>1, <3>2
  <2>2. Started'
    BY <1>6 DEF Started
  <2>3. cl'.state # "START_REQ"
    BY <1>6 DEF PreStart
  <2>4. Handing' /\ ~Within(tx, Ones)' => dev'.stage = "body" /\ cl'.off = 2
    BY <1>1, <1>3, <1>5
  <2>5. More' => dev'.stage = "body" /\ cl'.left = 1 /\ cl'.off = 3
    BY <1>1 DEF TInv, Sent
  <2> QED BY <1>6, <2>1, <2>2, <2>3, <2>4, <2>5 DEF Sent, Out
<1>9. Acks'
  BY <1>1, <1>5, <1>6 DEF Acks
<1>10. Buffered' /\ Controls' /\ OldNotes' /\ Within(tx, Twos)'
  BY ServedCommands DEF Kinds
<1>11. Committing'
  <2>1. New' = New
    BY DEF New, flash
  <2>2. New' /\ fw' # <<>> => GivenUp
    BY <1>1, <2>1 DEF TInv, Committing
  <2>3. cl'.state \in {"START_REQ_AFTER_REBOOT", "IN_PROGRESS_REQ", "COMMIT_REQ"} => GivenUp
    BY <1>1 DEF TInv, Committing
  <2> QED BY <1>1, <2>2, <2>3, KeepsCommitting DEF TInv
<1> QED BY <1>7, <1>8, <1>9, <1>10, <1>11 DEF TInv

(* It makes the server ask for no packet, or for the next of the file. *)
LEMMA PacketRead ==
    ASSUME Types, IInv, TInv, ~tx.done, UNCHANGED client, UNCHANGED flash, Takes("DATA"),
           dev'.app = dev.app, dev'.cs = dev.cs,
           \/ /\ tx' \in {Acked, Notify(Acked, ErrorInd)}
              /\ ~Erasing' \/ (Handing => \A v : v = up.v + 1 => Due(v)')
              /\ More => ~Erasing' /\ dev'.stage = "body"
           \/ /\ tx' = Notify(Acked, BytesReq(1)) /\ ~More /\ ~Erasing'
              /\ Handing => \A v : v = up.v + 1 => Due(v)'
           \/ /\ tx' = Notify(Acked, BytesReq(2)) /\ ~More /\ ~Erasing'
              /\ Handing => \A v : v = up.v + 1 => Due(v)'
              /\ dev'.stage = "body" /\ (Handing => up.v = 2),
           New => fw' = fw, Work'
    PROVE  TInv'
PROOF
<1>1. /\ None \in Message /\ None.t = "none" /\ ErrorInd \in Message
      /\ ErrorInd.t = "ERROR_IND" /\ BytesReq(1) \in Message /\ BytesReq(2) \in Message
      /\ BytesReq(1).t = Bytes /\ BytesReq(1).v = 1
      /\ BytesReq(2).t = Bytes /\ BytesReq(2).v = 2
  <2>1. BytesReq(1).v = 1 /\ BytesReq(2).v = 2
    BY DEF BytesReq, Msg
  <2> QED BY <2>1, Messages, MessageFields DEF Bytes
<1>2. /\ None \in Ones /\ ErrorInd \in Ones /\ BytesReq(1) \in Ones
      /\ {None, ErrorInd, BytesReq(1), BytesReq(2)} \subseteq Twos
  BY <1>1 DEF Ones, Twos, Bytes
<1>3. More => Handing
  BY DEF More, Handing
<1>4. CASE tx' \in {Acked, Notify(Acked, ErrorInd)}
           /\ (~Erasing' \/ (Handing => \A v : v = up.v + 1 => Due(v)'))
           /\ (More => ~Erasing' /\ dev'.stage = "body")
  <2>1. PICK m \in {None, ErrorInd} : Answers(m)
    BY <1>4 DEF Answers
  <2>2. /\ m \in Message /\ m.t \notin {"ack", "START_CFM"} /\ m \in Twos
        /\ m.t # Bytes /\ m \in Ones
    BY <1>1, <1>2, <2>1 DEF Bytes
  <2> QED BY <1>4, <2>1, <2>2, PacketTaken
<1>5. CASE tx' = Notify(Acked, BytesReq(1)) /\ ~More /\ ~Erasing'
           /\ (Handing => \A v : v = up.v + 1 => Due(v)')
  <2> DEFINE m == BytesReq(1)
  <2>1. Answers(m) /\ m \in Message /\ m.t = Bytes /\ m \in Twos /\ m \in Ones
    BY <1>1, <1>2, <1>5 DEF Answers
  <2> HIDE DEF m
  <2> QED BY <1>5, <2>1, PacketTaken DEF Bytes
<1>6. CASE /\ tx' = Notify(Acked, BytesReq(2)) /\ ~More /\ ~Erasing'
           /\ Handing => \A v : v = up.v + 1 => Due(v)'
           /\ dev'.stage = "body" /\ (Handing => up.v = 2)
  <2> DEFINE m == BytesReq(2)
  <2>1. Answers(m) /\ m \in Message /\ m.t = Bytes /\ m \in Twos
    BY <1>1, <1>2, <1>6 DEF Answers
  <2> HIDE DEF m
  <2> QED BY <1>6, <2>1, PacketTaken DEF Bytes
<1> QED BY <1>4, <1>5, <1>6

LEMMA HostServes ==
    ASSUME Types, IInv, TInv, ~tx.done, UNCHANGED client, HostData
    PROVE  TInv'
PROOF
<1>1. /\ Takes("DATA") /\ UNCHANGED flash /\ link /\ up.t = "DATA" /\ Out("DATA")
      /\ link' = link /\ up' = None /\ wr' = wr /\ dev \in Ram
      /\ More' = More /\ Handing' = Handing
  BY TakenAway DEF HostData, Takes, Out, Types
<1>2. /\ Due(up.v) /\ Free(tx, Bytes) /\ ~Erasing /\ wr.pend.t # "DATA"
      /\ Handing => up.v = cl.off
      /\ More => dev.stage = "body" /\ cl.off = 3 /\ Handing
      /\ ~GivenUp
  BY <1>1 DEF TInv, Turn, Sent, GivenUp, More, Handing
<1>3. /\ New => dev.stage \in {"id", "len", "body"}
      /\ ~New => Fresh \/ Writing \/ Written
      /\ ~New => dev.cs = dev.app
  BY <1>1, <1>2 DEF IInv, Flash, Transfer
<1>4. /\ up.v \in Nat
      /\ IF dev.stage = "unknown" THEN File[up.v] \in {"part", "foot"}
         ELSE File[up.v] = dev.stage
  BY <1>2, DuePieces
<1>5. ~Out("DATA")'
  BY <1>1, <1>2, MessageFields DEF Out
<1>6. /\ Touched \in Ram /\ Touched.app = dev.app /\ Touched.cs = dev.cs
      /\ Touched.stage = dev.stage /\ Touched.got = dev.got
  BY TouchedFields
<1>7. ASSUME dev'.app = dev.app, fw' = fw
      PROVE  ~Erasing'
  BY <1>1, <1>2, <1>7 DEF Erasing, New, Ops, flash
<1>8. ASSUME dev'.app = dev.app, dev'.cs = dev.cs, fw' = fw, dev'.stage # "data"
      PROVE  Work'
  BY <1>1, <1>8, SameWork DEF TInv, flash
<1>9. CASE dev.state # "IN_PROGRESS"
  <2>1. dev' = Touched /\ tx' = Acked /\ fw' = fw
    BY <1>9 DEF HostData
  <2>2. Free(tx', Bytes)
    <3>1. None \in Message /\ Answers(None)
      BY <2>1, Messages DEF Answers
    <3>2. Within(tx, {m \in Message : m.t # Bytes})
      BY <1>2 DEF Free
    <3>3. {WriteCfm, Ack, None} \subseteq {m \in Message : m.t # Bytes}
      BY Messages, MessageFields DEF Bytes
    <3> QED BY <3>1, <3>2, <3>3, AnswerQueue DEF Free, Answers
  <2>3. Work'
    BY <1>1, <1>5, <1>6, <2>1, <2>2, SameWork DEF TInv, flash
  <2> QED BY <1>1, <1>2, <1>6, <1>7, <2>1, <2>3, PacketRead
<1> SUFFICES ASSUME dev.state = "IN_PROGRESS" PROVE TInv'
  BY <1>9
<1>10. CASE dev.stage = "id"
  <2>1. up.v = 1 /\ dev.got = 0 /\ ~More
    BY <1>2, <1>10 DEF Due
  <2>2. fw' = fw /\ Continue(Touched, "len", 1)
    BY <1>4, <1>10 DEF HostData
  <2>3. /\ dev'.stage = "len" /\ dev'.got = 0 /\ dev'.app = dev.app /\ dev'.cs = dev.cs
        /\ tx' = Notify(Acked, BytesReq(1))
    BY <1>6, <2>1, <2>2, TouchedStage DEF Steps, Skimming, Parsing, Continue
  <2>4. \A v : v = up.v + 1 => Due(v)'
    BY <2>1, <2>3 DEF Due
  <2> QED BY <1>1, <1>7, <1>8, <2>1, <2>2, <2>3, <2>4, PacketRead
<1>11. CASE dev.stage = "len"
  <2>1. up.v = 2 /\ dev.got = 0 /\ ~More
    BY <1>2, <1>11 DEF Due
  <2>2. fw' = fw /\ Continue(Touched, "body", 2)
    BY <1>11 DEF HostData
  <2>3. /\ dev'.stage = "body" /\ dev'.got = 0 /\ dev'.app = dev.app /\ dev'.cs = dev.cs
        /\ tx' = Notify(Acked, BytesReq(2))
    BY <1>6, <2>1, <2>2, TouchedStage DEF Steps, Skimming, Parsing, Continue
  <2>4. \A v : v = up.v + 1 => Due(v)'
    BY <2>1, <2>3 DEF Due
  <2> QED BY <1>1, <1>7, <1>8, <2>1, <2>2, <2>3, <2>4, PacketRead
<1>12. CASE dev.stage = "body"
  <2>1. fw' = fw /\ HeaderBody
    BY <1>12 DEF HostData
  <2>2. /\ dev'.app = dev.app /\ dev'.cs = dev.cs
        /\ dev'.stage = "body" \/ (dev'.stage = "unknown" /\ dev'.got = 0)
    BY <1>12, <2>1, BodyRead DEF Skimming, Parsing
  <2>3. CASE dev.got = 0
    <3>1. /\ tx' \in {Acked, Notify(Acked, ErrorInd)} /\ dev'.stage = "body"
      <4>1. \/ dev' = [Touched EXCEPT !.field = "version", !.commit_cfm = FALSE,
                                      !.trial = FALSE]
               /\ tx' = Notify(Acked, ErrorInd)
            \/ \E f : dev' = [Touched EXCEPT !.got = 1, !.field = f] /\ tx' = Acked
        BY <2>1, <2>3 DEF HeaderBody, Refuse
      <4> QED BY <1>6, <1>12, <4>1 DEF Ram
    <3> QED BY <1>1, <1>7, <1>8, <2>1, <2>2, <3>1, PacketRead
  <2>4. CASE dev.got # 0
    <3>1. up.v = 4 /\ ~More
      BY <1>2, <1>12, <2>4 DEF Due
    <3>2. CASE /\ tx' = Notify(Acked, ErrorInd)
      BY <1>1, <1>7, <1>8, <2>1, <2>2, <3>1, <3>2, PacketRead
    <3>3. CASE /\ tx' = Notify(Acked, BytesReq(1)) /\ dev'.stage = "unknown"
      <4>1. \A v : v = up.v + 1 => Due(v)'
        BY <2>2, <3>1, <3>3 DEF Due
      <4> QED BY <1>1, <1>7, <1>8, <2>1, <2>2, <3>1, <3>3, <4>1, PacketRead
    <3>4. \/ tx' = Notify(Acked, ErrorInd)
          \/ tx' = Notify(Acked, BytesReq(1)) /\ dev'.stage = "unknown"
      <4>1. \/ tx' = Notify(Acked, ErrorInd)
            \/ \E f : Continue([Touched EXCEPT !.got = 0, !.field = f], "unknown", 1)
        BY <2>1, <2>4 DEF HeaderBody, Refuse
      <4>2. ASSUME NEW f, Continue([Touched EXCEPT !.got = 0, !.field = f], "unknown", 1)
            PROVE  tx' = Notify(Acked, BytesReq(1)) /\ dev'.stage = "unknown"
        <5> DEFINE d == [Touched EXCEPT !.got = 0, !.field = f]
        <5>1. /\ dev' = [d EXCEPT !.stage = "unknown"] /\ tx' = Notify(Acked, BytesReq(1))
              /\ "stage" \in DOMAIN d
          BY <1>6, <4>2 DEF Continue, Ram
        <5> HIDE DEF d
        <5> QED BY <5>1
      <4> QED BY <4>1, <4>2
    <3> QED BY <3>2, <3>3, <3>4
  <2> QED BY <2>3, <2>4
<1>13. CASE dev.stage = "unknown"
  <2>1. ~More
    BY <1>2, <1>13
  <2>2. /\ fw' = fw
        /\ Continue(Touched, IF File[up.v] = "part" THEN "phdr" ELSE "flen", 1)
    BY <1>4, <1>13 DEF HostData
  <2>3. /\ dev'.stage = (IF File[up.v] = "part" THEN "phdr" ELSE "flen")
        /\ dev'.got = dev.got /\ dev'.app = dev.app /\ dev'.cs = dev.cs
        /\ tx' = Notify(Acked, BytesReq(1))
    BY <1>6, <2>2, TouchedStage DEF Steps, Skimming, Parsing, Continue
  <2>4. \/ up.v = 5 /\ dev.got = 0 /\ File[up.v] = "part"
        \/ up.v = 7 + Chunks /\ File[up.v] = "foot"
    BY <1>2, <1>13, FilePieces DEF Due
  <2>5. \A v : v = up.v + 1 => Due(v)'
    BY <2>3, <2>4, OtaLinkAssumption DEF Due
  <2> QED BY <1>1, <1>7, <1>8, <2>1, <2>2, <2>3, <2>5, PacketRead
<1>14. CASE dev.stage = "phdr"
  <2>1. up.v = 6 /\ dev.got = 0 /\ ~More /\ ~New /\ Fresh
    BY <1>2, <1>3, <1>14 DEF Due, Writing, Written
  <2>2. getAppStoreToUpgrade = Other
    BY <1>3, <2>1 DEF getAppStoreToUpgrade, isNewApp, Other
  <2>3. /\ dev' = [Touched EXCEPT !.part = Other, !.upgraded = TRUE, !.stage = "data"]
        /\ tx' = Acked /\ fw' = Append(fw, Op("set", Other))
    BY <1>14, <2>2 DEF HostData
  <2>4. /\ dev'.app = dev.app /\ dev'.cs = dev.cs /\ dev'.got = 0 /\ dev'.stage = "data"
    BY <1>6, <2>1, <2>3 DEF Ram
  <2>5. fw' = <<Op("set", Other)>> /\ Other' = Other /\ New' = New
    <3>1. fw = <<>>
      BY <2>1 DEF Fresh
    <3>2. Append(<<>>, Op("set", Other)) = <<Op("set", Other)>>
      OBVIOUS
    <3> QED BY <1>1, <2>3, <2>4, <3>1, <3>2 DEF Other, New, flash
  <2>6. Work'
    BY <1>1, <2>1, <2>5 DEF TInv, Work, flash
  <2>7. \A v : v = up.v + 1 => Due(v)'
    BY <2>1, <2>4, OtaLinkAssumption DEF Due
  <2> QED BY <1>1, <2>1, <2>3, <2>4, <2>6, <2>7, PacketRead
<1>15. CASE dev.stage = "data"
  <2>1. /\ up.v = 7 + dev.got /\ dev.got < Chunks /\ ~More /\ ~New /\ Writing
        /\ dev.got \in Nat
    BY <1>1, <1>2, <1>3, <1>15 DEF Due, Fresh, Written, Ram
  <2> DEFINE ended == dev.got + 1 = Chunks
             g == IF ended THEN 0 ELSE dev.got + 1
             l == ended \/ (dev.got # 0 /\ dev.last)
             s == IF ended THEN "unknown" ELSE "data"
             d == [Touched EXCEPT !.got = g, !.last = l]
  <2>2. fw' = Append(fw, Op("chunk", dev.part)) /\ Continue(d, s, 1)
    <3>1. Touched.last = dev.last
      BY TouchedFields
    <3> QED BY <1>6, <1>15, <3>1 DEF HostData, PartitionData, Ram
  <2>3. /\ dev'.stage = s /\ dev'.got = g /\ dev'.app = dev.app /\ dev'.cs = dev.cs
        /\ tx' = Notify(Acked, BytesReq(1))
    <3> HIDE DEF g, l, s
    <3>1. d.got = g /\ d.app = dev.app /\ d.cs = dev.cs /\ "stage" \in DOMAIN d
      BY <1>6 DEF Ram
    <3> HIDE DEF d
    <3>2. dev' = [d EXCEPT !.stage = s]
      BY <2>2 DEF Continue
    <3>3. dev'.stage = s /\ dev'.got = d.got /\ dev'.app = d.app /\ dev'.cs = d.cs
      BY <3>1, <3>2
    <3> QED BY <2>2, <3>1, <3>3 DEF Continue
  <2> DEFINE op == Op("chunk", dev.part)
  <2>4. op \in Request /\ op.t = "chunk"
    BY Requests, <2>1 DEF Works, Writing
  <2>5. /\ fw' = Append(fw, op) /\ fw \in Seq(Request) /\ Len(fw) \in Nat
        /\ Len(fw') = Len(fw) + 1
        /\ \A i \in 1 .. Len(fw') : fw'[i] = IF i <= Len(fw) THEN fw[i] ELSE op
        /\ \A K : Ops(K)' <=> Ops(K) \/ op.t \in K
    BY <2>2, <2>4, OpAppended DEF Types
  <2> HIDE DEF op
  <2>6. New' = New /\ Other' = Other /\ store' = store
    BY <1>1, <2>3 DEF New, Other, flash
  <2>7. ~Erasing'
    BY <1>2, <2>1, <2>4, <2>5, <2>6 DEF Erasing
  <2>8. Chunked(Len(fw)) /\ Writable(Len(fw))
    <3>1. fw # <<Op("key", 0)>>
      BY <1>1, <2>1 DEF IInv, Flash
    <3>2. fw # <<Op("set", Other)>>
      <4> SUFFICES ASSUME fw = <<Op("set", Other)>> PROVE FALSE
        OBVIOUS
      <4>1. Len(fw) = 1 /\ fw[1].t = "set"
        BY Requests
      <4> QED BY <1>2, <2>1, <4>1 DEF Erasing, Ops
    <3>3. PICK k \in 0 .. Len(fw) : Chunked(k) /\ Writable(k)
      BY <2>1, <3>1, <3>2 DEF TInv, Work
    <3>4. \A i \in 1 .. Len(fw) : fw[i].t # "hash"
      BY <2>1 DEF Writing, Ops
    <3>5. k = Len(fw)
      <4> SUFFICES ASSUME k < Len(fw) PROVE FALSE
        BY <2>5, <3>3
      <4>1. Len(fw) \in 1 .. Len(fw) /\ ~(Len(fw) <= k)
        BY <2>5, <3>3
      <4> QED BY <3>3, <3>4, <4>1 DEF Chunked
    <3> QED BY <3>3, <3>5
  <2>9. store[Other] \in Int /\ Other \in Stores
    BY Requests DEF Types
  <2>10. store[Other] + Len(fw) <= dev.got
    BY <1>1, <1>15, <2>8 DEF Writable
  <2>11. Chunked(Len(fw))'
    <3>1. \A i \in 1 .. Len(fw') : fw'[i].t = "chunk" /\ i <= Len(fw')
      <4>1. \A i \in 1 .. Len(fw) : fw[i].t = "chunk"
        BY <2>5, <2>8 DEF Chunked
      <4> QED BY <2>4, <2>5, <4>1
    <3> QED BY <3>1 DEF Chunked
  <2>12. Writable(Len(fw))'
    <3>1. /\ store'[Other'] + Len(fw') <= Chunks
          /\ dev'.stage = "data" => store'[Other'] + Len(fw') <= dev'.got
      BY <2>1, <2>3, <2>5, <2>6, <2>9, <2>10, OtaLinkAssumption
    <3> QED BY <3>1 DEF Writable
  <2>13. Work'
    <3>1. \E k \in 0 .. Len(fw') : Chunked(k)' /\ Writable(k)'
      <4>1. Len(fw') \in 0 .. Len(fw')
        BY <2>5
      <4> QED BY <2>11, <2>12, <4>1
    <3> QED BY <2>1, <2>6, <3>1 DEF TInv, Work
  <2>14. \A v : v = up.v + 1 => Due(v)'
    BY <2>1, <2>3, OtaLinkAssumption DEF Due
  <2> QED BY <1>1, <2>1, <2>3, <2>7, <2>13, <2>14, PacketRead
<1>16. CASE dev.stage = "flen"
  <2>1. up.v = 8 + Chunks /\ ~More
    BY <1>2, <1>16 DEF Due
  <2>2. /\ dev' = [Touched EXCEPT !.got = 0, !.stage = "sig"]
        /\ tx' = Notify(Acked, BytesReq(1)) /\ fw' = fw
    BY <1>16 DEF HostData, Continue
  <2>3. dev'.stage = "sig" /\ dev'.got = 0 /\ dev'.app = dev.app /\ dev'.cs = dev.cs
    BY <1>6, <2>2 DEF Ram
  <2>4. \A v : v = up.v + 1 => Due(v)'
    BY <2>1, <2>3, OtaLinkAssumption DEF Due
  <2> QED BY <1>1, <1>7, <1>8, <2>1, <2>2, <2>3, <2>4, PacketRead
<1>17. CASE dev.stage = "sig"
  <2>1. /\ up.v = 9 + Chunks + dev.got /\ dev.got < Sigs /\ ~More /\ dev.got \in Nat
    BY <1>1, <1>2, <1>17 DEF Due, Ram
  <2> DEFINE d == [Touched EXCEPT !.got = @ + 1]
  <2>2. /\ d.app = dev.app /\ d.cs = dev.cs /\ d.got = dev.got + 1 /\ d.stage = "sig"
        /\ d = [Touched EXCEPT !.got = dev.got + 1] /\ d \in Ram
    <3>1. Touched.got + 1 \in Nat
      BY <1>6, <2>1
    <3> QED BY <1>6, <1>17, <3>1 DEF Ram
  <2>3. /\ fw' = fw
        /\ \/ Refuse(d)
           \/ tx' = Acked /\ dev' = [d EXCEPT !.valid = TRUE]
           \/ dev.got + 1 # Sigs /\ Continue(d, "sig", 1)
    BY <1>17 DEF HostData, Signature
  <2> HIDE DEF d
  <2>4. /\ dev'.app = dev.app /\ dev'.cs = dev.cs /\ dev'.stage = "sig"
        /\ dev'.got = dev.got + 1
        /\ \/ tx' \in {Acked, Notify(Acked, ErrorInd)}
           \/ dev.got + 1 # Sigs /\ tx' = Notify(Acked, BytesReq(1))
    <3>1. CASE Refuse(d)
      BY <2>2, <3>1 DEF Refuse, Ram
    <3>2. CASE tx' = Acked /\ dev' = [d EXCEPT !.valid = TRUE]
      BY <2>2, <3>2 DEF Ram
    <3>3. CASE dev.got + 1 # Sigs /\ Continue(d, "sig", 1)
      BY <2>2, <3>3 DEF Continue, Ram
    <3> QED BY <2>3, <3>1, <3>2, <3>3
  <2>5. dev.got + 1 # Sigs => \A v : v = up.v + 1 => Due(v)'
    BY <2>1, <2>4, OtaLinkAssumption DEF Due
  <2> QED BY <1>1, <1>7, <1>8, <2>1, <2>3, <2>4, <2>5, PacketRead
<1> QED
  BY <1>10, <1>11, <1>12, <1>13, <1>14, <1>15, <1>16, <1>17 DEF HostData

LEMMA ServeSteps ==
    ASSUME Types, IInv, TInv, Serve
    PROVE  TInv'
BY QuietServes, StartDataServes, HostServes DEF Serve, ServerStep

-----------------------------------------------------------------------------
(* Timers, the user, and what was held back *)

LEMMA BeginSteps ==
    ASSUME Types, IInv, TInv, Begin
    PROVE  TInv'
PROOF
<1> DEFINE m == Req("CONNECT")
<1>1. /\ link /\ link' = link /\ tx' = tx /\ UNCHANGED server /\ Write(<<m>>)
      /\ cl' = [cl EXCEPT !.start = "done", !.state = "CONNECT", !.mesh = FALSE]
      /\ cl.start = "timer"
  BY DEF Begin, StartUpgrade
<1>2. cl.state = "IDLE" /\ ~wr.busy /\ PreStart
  BY <1>1 DEF IInv, Client, Opening, PreStart
<1>3. m.t = "CONNECT" /\ None.t = "none"
  BY MessageFields
<1>4. up' = m /\ wr'.pend = None
  <2>1. up' = m /\ wr' = [busy |-> TRUE, pend |-> None]
    BY <1>1, <1>2, WriteOne
  <2> QED BY <2>1
<1> HIDE DEF m
<1>5. \A t : t \notin {"CONNECT", "none"} =>
            ~Out(t)' /\ up'.t # t /\ wr'.pend.t # t
  BY <1>3, <1>4 DEF Out
<1>6. /\ cl'.state = "CONNECT" /\ PreStart' /\ ~Handing' /\ ~More'
  BY <1>1 DEF Types, Relayer, PreStart, Handing, More
<1>7. UNCHANGED <<store, fw, dev>> /\ fw = <<>> /\ New' = New /\ (Erasing' => Erasing)
  BY <1>1, <1>2, QuietStart DEF server, flash, New, Erasing, Ops
<1>8. Fades
  BY <1>1, <1>2, <1>5, <1>6 DEF Fades
<1>9. Turn' /\ Sent' /\ Work'
  BY <1>7, <1>8, FadesKeep, FadesWork DEF TInv
<1>10. Acks' /\ Buffered' /\ OldNotes'
  BY <1>6 DEF Acks, Buffered, OldNotes
<1>11. Controls'
  BY <1>5, <1>6 DEF Controls
<1>12. Committing'
  BY <1>5, <1>6, <1>7 DEF Committing
<1> QED BY <1>1, <1>9, <1>10, <1>11, <1>12 DEF TInv

(***************************************************************************)
(* A notification that is not an answer to a write                         *)
(***************************************************************************)
LEMMA Notified ==
    ASSUME Types, IInv, TInv, link, UNCHANGED <<link, up, client, store, fw>>,
           dev'.app = dev.app, dev'.cs = dev.cs, dev'.stage = dev.stage,
           dev'.got = dev.got,
           \A S : Within(tx, S) /\ {None, SyncCfm} \subseteq S => Within(tx', S),
           Once(tx, Bytes) => Once(tx', Bytes),
           Full(tx) => Full(tx'),
           AcksFirst(tx) => AcksFirst(tx'),
           OldNotes'
    PROVE  TInv'
PROOF
<1>1. cl' = cl /\ wr' = wr /\ link' = link /\ up' = up
  BY DEF client
<1>2. /\ \A t : Out(t)' = Out(t)
      /\ PreStart' = PreStart /\ Over' = Over /\ Handing' = Handing
      /\ GivenUp' = GivenUp
  BY SameClient
<1>3. \A t : t \notin {"none", "SYNC_CFM"} => (Free(tx, t) => Free(tx', t))
  BY Messages, MessageFields DEF Free
<1>4. Within(tx, Ones) => Within(tx', Ones)
  <2>1. {None, SyncCfm} \subseteq Ones
    BY Messages, MessageFields DEF Ones, Bytes
  <2> QED BY <2>1
<1>5. Within(tx, Twos)'
  <2>1. {None, SyncCfm} \subseteq Twos
    BY Messages, MessageFields DEF Twos, Bytes
  <2> QED BY <2>1 DEF TInv, Twos
<1>6. New' = New /\ (Erasing' => Erasing) /\ More' = More
  BY <1>1 DEF New, Erasing, Ops, More
<1>7. Free(tx, Bytes) => Free(tx', Bytes)
  BY <1>3 DEF Bytes
<1>8. Fades
  BY <1>1, <1>2, <1>4, <1>6, <1>7 DEF Fades
<1>9. Turn' /\ Sent' /\ Work'
  BY <1>6, <1>8, FadesKeep, FadesWork DEF TInv
<1>10. Acks'
  BY <1>3, <1>8, FadesAcks DEF TInv
<1>11. Buffered' /\ Controls'
  BY <1>1, <1>2 DEF TInv, Buffered, Controls
<1>12. Committing'
  BY <1>1, <1>2, <1>6 DEF TInv, Committing
<1> QED BY <1>5, <1>9, <1>10, <1>11, <1>12 DEF TInv

LEMMA ParamsSteps ==
    ASSUME Types, IInv, TInv, Params
    PROVE  TInv'
PROOF
<1>1. /\ link /\ UNCHANGED <<link, up, store, fw>> /\ UNCHANGED client
  BY DEF Params, ParamsUpdated, flash
<1>2. \/ /\ dev' = [dev EXCEPT !.cb = FALSE, !.state = "WAIT_FOR_HOST"]
         /\ tx' = Notify(tx, SyncCfm) /\ dev.state = "WAIT_FOR_DEVICE"
      \/ dev' = [dev EXCEPT !.cb = FALSE] /\ tx' = tx
  BY DEF Params, ParamsUpdated
<1>3. /\ dev'.app = dev.app /\ dev'.cs = dev.cs /\ dev'.stage = dev.stage
      /\ dev'.got = dev.got
      /\ dev'.state = "WAIT_FOR_DEVICE" => dev.state = "WAIT_FOR_DEVICE"
  BY <1>2 DEF Types, Ram
<1>4. cl' = cl /\ wr' = wr /\ \A t : Out(t)' = Out(t)
  BY <1>1, SameClient DEF client
<1>5. CASE tx' = tx
  <2>1. OldNotes'
    BY <1>1, <1>3, <1>4, <1>5 DEF TInv, OldNotes
  <2> QED BY <1>1, <1>3, <1>5, <2>1, Notified
<1>6. CASE tx' = Notify(tx, SyncCfm) /\ dev.state = "WAIT_FOR_DEVICE"
  <2>1. /\ tx \in Queue /\ SyncCfm \in Message /\ SyncCfm.t = "SYNC_CFM"
        /\ None.t = "none"
    BY Messages, MessageFields DEF Types
  <2>2. /\ \A S : Within(tx, S) /\ SyncCfm \in S => Within(tx', S)
        /\ \A t : Once(tx, t) /\ (SyncCfm.t # t \/ Free(tx, t)) => Once(tx', t)
        /\ Full(tx) => Full(tx')
        /\ AcksFirst(tx) /\ SyncCfm.t # "ack"
           /\ (SyncCfm \notin Ones => Full(tx) /\ ~tx.done) => AcksFirst(tx')
    BY <1>6, <2>1, NotifyQueue
  <2>3. SyncCfm \in Ones
    BY <2>1 DEF Ones, Bytes
  <2>4. OldNotes'
    <3>1. CASE cl.state = "SYNC_REQ"
      <4>1. Grows(tx, tx', {"SYNC_CFM"})
        BY <1>6, <2>1, NotifyGrows
      <4>2. ASSUME NEW k \in {Bytes, "START_CFM"}
            PROVE  tx'.held.t # k /\ \A i \in 2 .. Len(tx'.q) : tx'.q[i].t # k
        <5>1. tx.held.t # k /\ \A i \in 2 .. Len(tx.q) : tx.q[i].t # k
          BY <1>1, <1>6, <3>1 DEF TInv, OldNotes
        <5>2. k # "SYNC_CFM" /\ Len(tx.q) \in Nat
          BY <2>1 DEF Bytes, Queue
        <5> QED BY <4>1, <5>1, <5>2 DEF Grows
      <4> QED BY <1>4, <3>1, <4>2 DEF OldNotes
    <3>2. CASE cl.state = "START_REQ"
      <4>1. \A k \in {Bytes, "START_CFM"} : Free(tx, k) => Free(tx', k)
        BY <2>1, <2>2 DEF Free, Bytes
      <4> QED BY <1>1, <1>4, <3>2, <4>1 DEF TInv, OldNotes
    <3>3. CASE cl.state \notin {"SYNC_REQ", "START_REQ"}
      BY <1>4, <3>3 DEF OldNotes
    <3> QED BY <3>1, <3>2, <3>3
  <2>5. Once(tx, Bytes) => Once(tx', Bytes)
    BY <2>1, <2>2 DEF Bytes
  <2>6. AcksFirst(tx) => AcksFirst(tx')
    BY <2>1, <2>2, <2>3
  <2> QED BY <1>1, <1>3, <2>2, <2>4, <2>5, <2>6, Notified
<1> QED BY <1>2, <1>5, <1>6

LEMMA SendHeldSteps ==
    ASSUME Types, IInv, TInv, SendHeld
    PROVE  TInv'
PROOF
<1> DEFINE x == [tx EXCEPT !.held = None, !.done = FALSE]
<1>1. /\ link /\ link' = link /\ up' = up /\ UNCHANGED <<server, client>>
      /\ tx.done /\ tx' = Notify(x, tx.held)
  BY DEF SendHeld, Resend
<1>2. UNCHANGED <<link, up, client, store, fw, dev>> /\ cl' = cl /\ wr' = wr
  BY <1>1 DEF server, flash, client
<1>3. /\ \A S : Within(tx, S) /\ None \in S => Within(tx', S)
      /\ \A k : Once(tx, k) /\ k # "none" => Once(tx', k)
      /\ Full(tx')
      /\ AcksFirst(tx) => AcksFirst(tx')
  BY ResentQueue
<1>4. /\ x \in Queue /\ x.q = tx.q /\ x.used = tx.used /\ x.held = None
      /\ tx.held \in Message /\ tx.q \in Seq(Message) /\ None.t = "none"
      /\ None \in Message /\ Len(tx.q) \in Nat
  <2>1. tx \in Queue /\ None \in Message /\ None.t = "none"
    BY Messages, MessageFields DEF Types
  <2>2. tx.q \in Seq(Message) /\ tx.held \in Message
    BY <2>1 DEF Queue
  <2>3. /\ x \in Queue /\ x.q = tx.q /\ x.used = tx.used /\ x.held = None
    BY <2>1 DEF Queue
  <2>4. Len(tx.q) \in Nat
    BY <2>2
  <2> QED BY <2>1, <2>2, <2>3, <2>4
<1> HIDE DEF x
<1>5. OldNotes'
  <2>1. CASE cl.state = "SYNC_REQ"
    <3> SUFFICES ASSUME NEW k \in {Bytes, "START_CFM"}
                 PROVE  tx'.held.t # k /\ \A i \in 2 .. Len(tx'.q) : tx'.q[i].t # k
      BY <1>2, <2>1 DEF OldNotes
    <3>1. /\ tx.held.t = k => tx.q = <<>> /\ tx.used = 0
          /\ \A i \in 2 .. Len(tx.q) : tx.q[i].t # k
      BY <1>1, <2>1 DEF TInv, OldNotes
    <3>2. k # "none"
      BY DEF Bytes
    <3>3. CASE tx.used < TxBuffers
      <4>1. tx'.q = Append(tx.q, tx.held) /\ tx'.held = None
        BY <1>1, <1>4, <3>3 DEF Notify, Queue
      <4>2. /\ Len(tx'.q) = Len(tx.q) + 1
            /\ \A i \in 1 .. Len(tx.q) + 1 :
                 tx'.q[i] = IF i <= Len(tx.q) THEN tx.q[i] ELSE tx.held
        BY <1>4, <4>1
      <4>3. tx.held.t = k => Len(tx'.q) = 1
        BY <3>1, <4>2
      <4>4. ASSUME NEW i \in 2 .. Len(tx'.q)
            PROVE  tx'.q[i].t # k
        <5>1. tx.held.t # k /\ i \in 1 .. Len(tx.q) + 1
          BY <1>4, <4>2, <4>3, <4>4
        <5>2. CASE i <= Len(tx.q)
          <6>1. i \in 2 .. Len(tx.q)
            BY <1>4, <4>4, <5>2
          <6> QED BY <3>1, <4>2, <5>1, <5>2, <6>1
        <5>3. CASE ~(i <= Len(tx.q))
          BY <4>2, <5>1, <5>3
        <5> QED BY <5>2, <5>3
      <4> QED BY <1>4, <3>2, <4>1, <4>4
    <3>4. CASE ~(tx.used < TxBuffers)
      <4>1. tx'.q = tx.q /\ tx'.held = tx.held
        BY <1>1, <1>4, <3>4 DEF Notify, Queue
      <4>2. tx.used # 0
        BY <3>4, OtaLinkAssumption
      <4> QED BY <3>1, <4>1, <4>2
    <3> QED BY <3>3, <3>4
  <2>2. CASE cl.state = "START_REQ"
    <3>1. \A k \in {Bytes, "START_CFM"} : Free(tx, k) => Free(tx', k)
      BY <1>3, <1>4 DEF Free, Bytes
    <3>2. \A t : Out(t)' = Out(t)
      BY <1>2, SameClient
    <3> QED BY <1>1, <1>2, <2>2, <3>1, <3>2 DEF TInv, OldNotes
  <2>3. CASE cl.state \notin {"SYNC_REQ", "START_REQ"}
    BY <1>2, <2>3 DEF OldNotes
  <2> QED BY <2>1, <2>2, <2>3
<1>6. Once(tx, Bytes) => Once(tx', Bytes)
  BY <1>3 DEF Bytes
<1> QED BY <1>1, <1>2, <1>3, <1>5, <1>6, Notified

LEMMA UserSteps ==
    ASSUME Types, IInv, TInv, UserAborts \/ UserDeclines
    PROVE  TInv'
PROOF
<1>1. CASE UserAborts
  <2> DEFINE m == Req("ABORT_REQ")
  <2>1. /\ link /\ link' = link /\ tx' = tx /\ UNCHANGED server /\ Write(<<m>>)
        /\ ~wr.busy
        /\ cl' = [cl EXCEPT !.state = "ABORTING_DISCONNECT"]
    BY <1>1 DEF UserAborts
  <2>2. m.t = "ABORT_REQ" /\ None.t = "none"
    BY MessageFields
  <2> HIDE DEF m
  <2>3. up' = m /\ wr' = [busy |-> TRUE, pend |-> None]
    BY <2>1, WriteOne
  <2>4. cl'.state = "ABORTING_DISCONNECT" /\ cl'.start = cl.start
    BY <2>1 DEF Types, Relayer
  <2>5. \A t : t \notin {"ABORT_REQ", "none"} => ~Out(t)' /\ up'.t # t /\ wr'.pend.t # t
    BY <2>2, <2>3 DEF Out
  <2>6. Over' /\ ~PreStart' /\ ~Handing' /\ ~More' /\ GivenUp'
    BY <2>4, <2>5 DEF Over, PreStart, Handing, Asking, More, GivenUp
  <2>7. UNCHANGED <<store, fw, dev>> /\ (Erasing' => Erasing)
    BY <2>1 DEF server, flash, New, Erasing, Ops
  <2>8. Fades
    BY <2>1, <2>4, <2>5, <2>6 DEF Fades
  <2>9. Turn' /\ Sent' /\ Work'
    BY <2>7, <2>8, FadesKeep, FadesWork DEF TInv
  <2>10. Acks' /\ Buffered' /\ OldNotes'
    BY <2>4, <2>6 DEF Acks, Buffered, OldNotes
  <2>11. Controls'
    BY <2>5, <2>6 DEF Controls
  <2>12. Committing'
    BY <2>6 DEF Committing
  <2> QED BY <2>1, <2>9, <2>10, <2>11, <2>12 DEF TInv
<1>2. CASE UserDeclines
  <2>1. /\ up = Req("COMMIT_CFM") /\ up' = Msg("COMMIT_CFM", 1)
        /\ UNCHANGED <<link, tx, server, client>>
    BY <1>2 DEF UserDeclines
  <2>2. up'.t = "COMMIT_CFM" /\ up.t = "COMMIT_CFM"
    BY <2>1, MessageFields
  <2>3. wr' = wr /\ cl' = cl /\ link' = link /\ tx' = tx
        /\ UNCHANGED <<store, fw, dev>> /\ (Erasing' => Erasing)
    BY <2>1 DEF client, server, flash, New, Erasing, Ops
  <2>4. \A t : Out(t)' <=> Out(t)
    BY <2>2, <2>3 DEF Out
  <2>5. /\ Over' = Over /\ PreStart' = PreStart /\ Handing' = Handing /\ More' = More
    BY <2>3 DEF Over, PreStart, Handing, Asking, More
  <2>6. GivenUp => GivenUp'
    BY <2>4, <2>5 DEF GivenUp
  <2>7. Fades
    BY <2>2, <2>3, <2>4, <2>5 DEF Fades
  <2>8. Turn' /\ Sent' /\ Work'
    BY <2>3, <2>7, FadesKeep, FadesWork DEF TInv
  <2>9. Acks' /\ Buffered' /\ OldNotes'
    BY <2>3, <2>4, <2>5 DEF TInv, Acks, Buffered, OldNotes, More
  <2>10. Controls'
    BY <2>2, <2>3, <2>4, <2>5 DEF TInv, Controls
  <2>11. Committing'
    BY <2>3, <2>4, <2>5, <2>6 DEF TInv, Committing, New
  <2> QED BY <2>3, <2>8, <2>9, <2>10, <2>11 DEF TInv
<1> QED BY <1>1, <1>2

-----------------------------------------------------------------------------
(* The firmware *)

(* What is at the head of the requests tells how many chunks are behind it. *)
LEMMA WorkHead ==
    ASSUME Types, IInv, TInv, fw # <<>>, ~New, Head(fw).t # "key"
    PROVE  /\ Head(fw).t = "set" => fw = <<Op("set", Other)>>
           /\ Head(fw).t # "set" =>
                \E k \in 0 .. Len(fw) :
                    /\ Chunked(k) /\ Writable(k)
                    /\ Head(fw).t = "chunk" => k >= 1
                    /\ Head(fw).t = "hash" => k = 0
PROOF
<1>1. /\ Head(fw) = fw[1] /\ 1 \in 1 .. Len(fw) /\ Len(fw) \in Nat
  BY HeadOp
<1>2. /\ fw = <<Op("key", 0)>> => Head(fw).t = "key"
      /\ fw = <<Op("set", Other)>> => Head(fw).t = "set"
  BY Requests
<1>3. CASE fw = <<Op("set", Other)>>
  BY <1>2, <1>3
<1>4. CASE \E k \in 0 .. Len(fw) : Chunked(k) /\ Writable(k)
  <2>1. PICK k \in 0 .. Len(fw) : Chunked(k) /\ Writable(k)
    BY <1>4
  <2>2. Head(fw).t = IF 1 <= k THEN "chunk" ELSE "hash"
    BY <1>1, <2>1 DEF Chunked
  <2>3. Head(fw).t # "set" /\ (Head(fw).t = "chunk" => k >= 1)
        /\ (Head(fw).t = "hash" => k = 0)
    BY <2>2, <1>1
  <2> QED BY <2>1, <2>3
<1> QED BY <1>2, <1>3, <1>4 DEF TInv, Work

(* One request less, and perhaps a hash more *)
LEMMA WorkTail ==
    ASSUME Types, fw # <<>>, NEW k \in 0 .. Len(fw), Chunked(k),
           NEW j, j = IF k = 0 THEN 0 ELSE k - 1,
           \/ fw' = Tail(fw)
           \/ \E s \in Stores \cup {0} : fw' = Tail(fw) \o <<Op("hash", s)>>
    PROVE  /\ j \in 0 .. Len(fw') /\ Chunked(j)'
           /\ Ops({"set"})' => Ops({"set"})
PROOF
<1>1. Len(fw) \in Nat /\ Len(fw) >= 1
  <2>1. 1 \in 1 .. Len(fw) /\ Len(fw) \in Nat
    BY HeadOp
  <2> QED BY <2>1
<1>2. CASE fw' = Tail(fw)
  <2>1. /\ Len(fw') = Len(fw) - 1
        /\ \A i \in 1 .. Len(fw') : fw'[i] = fw[i + 1] /\ i + 1 \in 1 .. Len(fw)
    BY <1>2, HeadOp
  <2>2. Chunked(j)'
    BY <1>1, <2>1 DEF Chunked
  <2> QED BY <1>1, <1>2, <2>1, <2>2, TailOps
<1>3. CASE \E s \in Stores \cup {0} : fw' = Tail(fw) \o <<Op("hash", s)>>
  <2>1. PICK s \in Stores \cup {0} : fw' = Tail(fw) \o <<Op("hash", s)>>
    BY <1>3
  <2> DEFINE op == Op("hash", s)
  <2>2. op \in Request /\ op.t = "hash"
    BY DEF Op, Request, Works
  <2>3. fw' = Tail(fw) \o <<op>>
    BY <2>1
  <2> HIDE DEF op
  <2>4. /\ Len(fw') = Len(fw)
        /\ \A K : Ops(K)' => Ops(K) \/ op.t \in K
        /\ \A i \in 1 .. Len(fw') :
             \/ fw'[i] = op /\ i = Len(fw)
             \/ fw'[i] = fw[i + 1] /\ i + 1 \in 1 .. Len(fw)
    BY <2>2, <2>3, TailFollowed
  <2>5. Chunked(j)'
    BY <1>1, <2>2, <2>4 DEF Chunked
  <2>6. Ops({"set"})' => Ops({"set"})
    BY <2>2, <2>4
  <2> QED BY <1>1, <2>4, <2>5, <2>6
<1> QED BY <1>2, <1>3

(***************************************************************************)
(* A request that has been confirmed or has failed, but for an erasure     *)
(* that a packet follows                                                   *)
(***************************************************************************)
LEMMA Worked ==
    ASSUME Types, IInv, TInv, UNCHANGED <<link, up, client>>, fw # <<>>,
           New' = New, Erasing' => Erasing, Work',
           dev'.state = "WAIT_FOR_DEVICE" => dev.state = "WAIT_FOR_DEVICE",
           \/ dev'.stage = dev.stage /\ dev'.got = dev.got
           \/ dev'.got = 0 /\ (link => ~Handing /\ ~Out("DATA")),
           \/ tx' = tx
           \/ link /\ ~PreStart /\ tx' = Notify(tx, ErrorInd)
    PROVE  TInv'
PROOF
<1>1. cl' = cl /\ wr' = wr /\ link' = link /\ up' = up
  BY DEF client
<1>2. /\ \A t : Out(t)' = Out(t)
      /\ PreStart' = PreStart /\ Over' = Over /\ Handing' = Handing
      /\ GivenUp' = GivenUp /\ More' = More
  BY <1>1, SameClient DEF More
<1>3. /\ \A S : Within(tx, S) /\ ErrorInd \in S => Within(tx', S)
      /\ Once(tx, Bytes) => Once(tx', Bytes)
      /\ Full(tx) => Full(tx')
      /\ AcksFirst(tx) => AcksFirst(tx')
  <2>1. /\ tx \in Queue /\ ErrorInd \in Message /\ ErrorInd.t = "ERROR_IND"
        /\ ErrorInd \in Ones
    BY Messages, MessageFields DEF Types, Ones, Bytes
  <2>2. CASE tx' = Notify(tx, ErrorInd)
    <3>1. /\ \A S : Within(tx, S) /\ ErrorInd \in S => Within(tx', S)
          /\ \A t : Once(tx, t) /\ (ErrorInd.t # t \/ Free(tx, t)) => Once(tx', t)
          /\ Full(tx) => Full(tx')
          /\ AcksFirst(tx) /\ ErrorInd.t # "ack"
             /\ (ErrorInd \notin Ones => Full(tx) /\ ~tx.done) => AcksFirst(tx')
      BY <2>1, <2>2, NotifyQueue
    <3> QED BY <2>1, <3>1 DEF Bytes
  <2> QED BY <2>2
<1>4. /\ Free(tx, Bytes) => Free(tx', Bytes)
      /\ Free(tx, "ack") => Free(tx', "ack")
      /\ Within(tx, Ones) => Within(tx', Ones)
      /\ Within(tx, Twos)'
  <2>1. /\ ErrorInd \in Message /\ ErrorInd.t = "ERROR_IND"
        /\ ErrorInd \in Ones /\ ErrorInd \in Twos
    BY Messages, MessageFields DEF Ones, Twos, Bytes
  <2>2. Within(tx, Twos)'
    BY <1>3, <2>1 DEF TInv, Twos
  <2> QED BY <1>3, <2>1, <2>2 DEF Free, Bytes
<1>5. Fades
  BY <1>1, <1>2, <1>3, <1>4 DEF Fades
<1>6. Turn' /\ Sent'
  <2>1. CASE link
    BY <1>5, <2>1, FadesKeep DEF TInv
  <2>2. CASE ~link
    BY <1>1, <2>2 DEF Turn, Sent
  <2> QED BY <2>1, <2>2
<1>7. Acks'
  BY <1>3, <1>4, <1>5, FadesAcks DEF TInv
<1>8. Buffered' /\ Controls'
  BY <1>1, <1>2, <1>3 DEF TInv, Buffered, Controls
<1>9. OldNotes'
  <2>1. CASE tx' = tx
    BY <1>1, <1>2, <2>1 DEF TInv, OldNotes
  <2>2. CASE ~PreStart
    BY <1>1, <2>2 DEF OldNotes, PreStart
  <2> QED BY <2>1, <2>2
<1>10. Committing'
  BY <1>1, <1>2 DEF TInv, Committing
<1> QED BY <1>4, <1>6, <1>7, <1>8, <1>9, <1>10 DEF TInv

LEMMA FaultSteps ==
    ASSUME Types, IInv, TInv, FirmwareFault
    PROVE  TInv'
PROOF
<1> DEFINE st == IF Head(fw).t = "chunk" THEN "ABORTED" ELSE dev.state
<1>1. /\ link /\ fw # <<>> /\ UNCHANGED <<link, up, client>> /\ store' = store
      /\ Head(fw).t \in {"set", "chunk", "hash"} /\ fw' = Tail(fw)
      /\ dev' = [dev EXCEPT !.trial = FALSE, !.state = st]
      /\ tx' = Notify(tx, ErrorInd)
  BY DEF FirmwareFault, StoreFails, flash
<1>2. /\ dev'.app = dev.app /\ dev'.cs = dev.cs /\ dev'.stage = dev.stage
      /\ dev'.got = dev.got /\ dev'.state = st
      /\ st = "WAIT_FOR_DEVICE" => dev.state = "WAIT_FOR_DEVICE"
  BY <1>1 DEF Types, Ram
<1> HIDE DEF st
<1>3. /\ New' = New /\ Other' = Other /\ ~PreStart
      /\ \A t : Out(t)' = Out(t)
      /\ Handing' = Handing
  BY <1>1, <1>2, QuietStart, SameClient DEF New, Other
<1>4. Erasing' => Erasing
  BY <1>1, <1>3, TailOps DEF Erasing
<1>5. Free(tx, Bytes) => Free(tx', Bytes)
  <2>1. /\ tx \in Queue /\ ErrorInd \in Message /\ ErrorInd.t = "ERROR_IND"
    BY Messages, MessageFields DEF Types
  <2> QED BY <1>1, <2>1, NotifyQueue DEF Free, Bytes
<1>6. Work'
  <2>1. \A s \in Stores : store'[s] \in {Orig} \cup 0 .. Chunks
    BY <1>1 DEF TInv, Work
  <2>2. CASE New
    <3>1. fw' = <<>>
      <4>1. fw \in {<<Op("key", 0)>>, <<Op("run", dev.app)>>, <<Op("set", Other)>>}
        BY <1>1, <2>2 DEF IInv, Flash
      <4>2. Head(<<Op("key", 0)>>).t = "key" /\ Head(<<Op("run", dev.app)>>).t = "run"
        BY Requests
      <4> QED BY <4>1, <4>2, <1>1
    <3> QED BY <1>3, <2>1, <2>2, <3>1 DEF Work
  <2>3. CASE ~New /\ Head(fw).t = "set"
    <3>1. fw = <<Op("set", Other)>>
      BY <1>1, <2>3, WorkHead
    <3>2. fw' = <<>> /\ Len(fw') = 0
      BY <1>1, <3>1
    <3>3. Erasing
      BY <1>1, <2>3, HeadOp DEF Erasing
    <3>4. Writable(0)'
      <4>1. ~Out("DATA") /\ Free(tx', Bytes)
        BY <1>1, <1>5, <3>3 DEF TInv, Turn
      <4>2. store'[Other'] + 0 <= Chunks
        BY <2>1, <1>3, Requests, OtaLinkAssumption DEF Orig
      <4> QED BY <1>3, <4>1, <4>2 DEF Writable
    <3>5. Chunked(0)' /\ 0 \in 0 .. Len(fw')
      BY <3>2 DEF Chunked
    <3> QED BY <1>3, <2>1, <2>3, <3>4, <3>5 DEF Work
  <2>4. CASE ~New /\ Head(fw).t # "set"
    <3>1. PICK k \in 0 .. Len(fw) : Chunked(k) /\ Writable(k)
      BY <1>1, <2>4, WorkHead
    <3> DEFINE j == IF k = 0 THEN 0 ELSE k - 1
    <3>2. j \in 0 .. Len(fw') /\ Chunked(j)'
      BY <1>1, <3>1, WorkTail
    <3>3. Writable(j)'
      <4>1. j <= k /\ j \in Int /\ k \in Int
        OBVIOUS
      <4>2. store[Other] \in Int /\ dev.got \in Int /\ Chunks \in Int
        BY Requests, OtaLinkAssumption DEF Types, Ram
      <4>3. store'[Other'] = store[Other] /\ dev'.got = dev.got /\ dev'.stage = dev.stage
        BY <1>1, <1>2, <1>3
      <4>4. link' /\ (Out("DATA")' \/ (Handing' /\ ~Free(tx, Bytes)'))
                => link /\ (Out("DATA") \/ (Handing /\ ~Free(tx, Bytes)))
        BY <1>1, <1>3, <1>5
      <4> HIDE DEF j
      <4> QED BY <3>1, <4>1, <4>2, <4>3, <4>4 DEF Writable
    <3> HIDE DEF j
    <3> QED BY <1>3, <2>1, <2>4, <3>2, <3>3 DEF Work
  <2> QED BY <2>2, <2>3, <2>4
<1> QED BY <1>1, <1>2, <1>3, <1>4, <1>6, Worked

LEMMA KeyReadSteps ==
    ASSUME Types, IInv, TInv, UNCHANGED <<client, up, link, resume, once>>,
           fw # <<>>, Head(fw).t = "key", fw' = Tail(fw), KeyRead
    PROVE  TInv'
PROOF
<1>1. fw = <<Op("key", 0)>> /\ ~link /\ ~link'
  BY KeyAlone
<1>2. fw' = <<>> /\ Len(fw') = 0 /\ ~Ops({"set"})'
  BY <1>1 DEF Ops
<1>3. /\ dev'.app = dev.app /\ dev'.stage = dev.stage /\ dev'.got = dev.got
      /\ dev'.state = "WAIT_FOR_HOST" /\ UNCHANGED <<store, tx>>
  BY DEF KeyRead, Types, Ram
<1>4. New' = New /\ Other' = Other
  BY <1>3 DEF New, Other
<1>5. \A s \in Stores : store'[s] \in {Orig} \cup 0 .. Chunks
  BY <1>3 DEF TInv, Work
<1>6. Chunked(0)' /\ Writable(0)' /\ 0 \in 0 .. Len(fw')
  <2>1. store'[Other'] + 0 <= Chunks
    BY <1>4, <1>5, Requests, OtaLinkAssumption DEF Orig
  <2> QED BY <1>1, <1>2, <2>1 DEF Chunked, Writable
<1>7. Work'
  BY <1>2, <1>5, <1>6 DEF Work
<1> QED BY <1>2, <1>3, <1>4, <1>7, Worked DEF Erasing

(* An erasure calls for the first packet of data, or ends a commit. *)
LEMMA StoreIdSetSteps ==
    ASSUME Types, IInv, TInv, UNCHANGED <<client, up, link, resume, once>>,
           fw # <<>>, Head(fw).t = "set", fw' = Tail(fw), StoreIdSet(Head(fw).s)
    PROVE  TInv'
PROOF
<1>1. /\ Head(fw) = fw[1] /\ 1 \in 1 .. Len(fw) /\ Ops({"set"})
      /\ dev.cs # 0
  BY HeadOp, KeyAlone
<1>2. New => fw = <<Op("set", Other)>>
  <2> SUFFICES ASSUME New PROVE fw = <<Op("set", Other)>>
    OBVIOUS
  <2>1. fw \in {<<Op("key", 0)>>, <<Op("run", dev.app)>>, <<Op("set", Other)>>}
    BY DEF IInv, Flash
  <2> QED BY <2>1, <1>1, Requests
<1>3. fw = <<Op("set", Other)>>
  <2>1. CASE ~New
    BY <2>1, WorkHead
  <2> QED BY <1>2, <2>1
<1>4. /\ fw' = <<>> /\ Len(fw') = 0 /\ ~Ops({"set"})' /\ Head(fw).s = Other
  BY <1>3, Requests DEF Ops
<1>5. /\ store' = [store EXCEPT ![Other] = 0] /\ store'[dev.app] = store[dev.app]
      /\ \A s \in Stores : store'[s] \in {Orig} \cup 0 .. Chunks
  <2>1. store' = [store EXCEPT ![Other] = 0]
    BY <1>4 DEF StoreIdSet
  <2>2. store \in [Stores -> Int] /\ Other \in Stores /\ Other # dev.app /\ dev.app \in Stores
    BY Requests DEF Types
  <2>3. \A s \in Stores : store[s] \in {Orig} \cup 0 .. Chunks
    BY DEF TInv, Work
  <2>4. 0 \in 0 .. Chunks
    BY OtaLinkAssumption
  <2> QED BY <2>1, <2>2, <2>3, <2>4
<1>6. CASE isNewApp
  <2>1. New
    BY <1>1, <1>6 DEF isNewApp, IInv, Flash
  <2>2. dev' = [dev EXCEPT !.cs = dev.app] /\ tx' = tx
    BY <1>6 DEF StoreIdSet
  <2>3. /\ dev'.app = dev.app /\ dev'.stage = dev.stage /\ dev'.got = dev.got
        /\ dev'.state = dev.state
    BY <2>2 DEF Types, Ram
  <2>4. New' = New
    BY <1>5, <2>3 DEF New
  <2>5. Work'
    BY <1>4, <1>5, <2>1, <2>4 DEF Work
  <2> QED BY <1>4, <2>2, <2>3, <2>4, <2>5, Worked DEF Erasing
<1>7. CASE ~isNewApp
  <2>1. link /\ dev' = dev /\ tx' = Notify(tx, BytesReq(1)) /\ link'
    BY <1>7 DEF StoreIdSet
  <2>2. ~New
    BY <1>3, <1>7, Requests DEF TInv, Work, isNewApp
  <2>3. /\ New' = New /\ Other' = Other /\ ~Erasing' /\ Erasing
    BY <1>1, <1>4, <1>5, <2>1, <2>2 DEF New, Other, Erasing
  <2>4. cl' = cl /\ wr' = wr /\ up' = up /\ link' = link
    BY DEF client
  <2>5. /\ \A t : Out(t)' = Out(t)
        /\ PreStart' = PreStart /\ Over' = Over /\ Handing' = Handing
        /\ GivenUp' = GivenUp /\ Started' = Started /\ More' = More
    BY <2>4, SameClient DEF More
  <2>6. /\ Free(tx, Bytes) /\ Once(tx, Bytes)
        /\ ~Out("START_DATA_REQ") /\ ~Out("DATA") /\ ~More
    BY <2>1, <2>3 DEF TInv, Turn
  <2>7. ~PreStart
    BY <2>1, QuietStart
  <2> DEFINE m == BytesReq(1)
  <2>8. /\ tx \in Queue /\ m \in Message /\ m.t = Bytes /\ m.v = 1
        /\ m \in Ones /\ m \in Twos /\ Bytes # "ack"
    BY Messages, MessageFields DEF Types, Ones, Twos, Bytes, BytesReq, Msg
  <2> HIDE DEF m
  <2>9. /\ \A S : Within(tx, S) /\ m \in S => Within(tx', S)
        /\ \A t : Once(tx, t) /\ (m.t # t \/ Free(tx, t)) => Once(tx', t)
        /\ Full(tx) => Full(tx')
        /\ AcksFirst(tx) /\ m.t # "ack" /\ (m \notin Ones => Full(tx) /\ ~tx.done)
             => AcksFirst(tx')
    <3>1. tx' = Notify(tx, m)
      BY <2>1 DEF m
    <3> QED BY <2>8, <3>1, NotifyQueue
  <2>10. Within(tx, Ones)
    BY <2>6, <2>8, FreeQueue
  <2>11. Turn'
    BY <2>3, <2>4, <2>5, <2>6, <2>8, <2>9 DEF TInv, Turn, Out
  <2>12. Sent'
    <3>1. Within(tx', Ones)
      BY <2>8, <2>9, <2>10
    <3>2. Handing => Due(cl.off + 1)
      BY <2>1, <2>3 DEF TInv, Sent
    <3>3. Handing' => Due(cl.off + 1)'
      BY <2>1, <2>4, <2>5, <3>2 DEF Due
    <3>4. /\ ~Started' => dev'.got = 0
          /\ cl'.state = "START_REQ" => cl'.off = 0
      BY <2>1, <2>4, <2>5 DEF TInv, Sent
    <3>5. \A k \in {up', wr'.pend} : k.t # "DATA"
      BY <2>4, <2>6 DEF Out
    <3> QED BY <2>5, <2>6, <3>1, <3>3, <3>4, <3>5 DEF Sent
  <2>13. Acks'
    BY <2>1, <2>4, <2>5, <2>6, <2>8, <2>9 DEF TInv, Acks
  <2>14. Buffered' /\ Controls'
    BY <2>4, <2>5, <2>9 DEF TInv, Buffered, Controls
  <2>15. OldNotes'
    BY <2>4, <2>7 DEF OldNotes, PreStart
  <2>16. Committing'
    BY <1>4, <2>4, <2>5 DEF TInv, Committing
  <2>17. Work'
    <3>1. store'[Other'] = 0
      BY <1>5, <2>3, Requests DEF Types
    <3>2. dev'.got \in Nat
      BY <2>1 DEF Types, Ram
    <3>3. Chunked(0)' /\ 0 \in 0 .. Len(fw')
      <4>1. Len(fw') = 0
        BY <1>4
      <4> QED BY <4>1 DEF Chunked
    <3>4. Writable(0)'
      <4>1. store'[Other'] + 0 = 0
        BY <3>1
      <4> QED BY <3>2, <4>1, OtaLinkAssumption DEF Writable
    <3> QED BY <1>5, <2>2, <2>3, <3>3, <3>4 DEF Work
  <2>18. Within(tx, Twos)'
    BY <2>8, <2>9 DEF TInv, Twos
  <2> QED BY <2>11, <2>12, <2>13, <2>14, <2>15, <2>16, <2>17, <2>18 DEF TInv
<1> QED BY <1>6, <1>7

LEMMA ChunkWrittenSteps ==
    ASSUME Types, IInv, TInv, UNCHANGED <<client, up, link, resume, once>>,
           fw # <<>>, Head(fw).t = "chunk", ChunkWritten(Head(fw).s),
           \/ fw' = Tail(fw)
           \/ dev.last /\ fw' = Tail(fw) \o <<Op("hash", dev.part)>>
    PROVE  TInv'
PROOF
<1>1. Head(fw) = fw[1] /\ 1 \in 1 .. Len(fw)
  BY HeadOp
<1>2. ~New
  <2> SUFFICES ASSUME New PROVE FALSE
    OBVIOUS
  <2>1. fw \in {<<Op("key", 0)>>, <<Op("run", dev.app)>>, <<Op("set", Other)>>}
    BY DEF IInv, Flash
  <2> QED BY <2>1, <1>1, Requests
<1>3. Head(fw).s = Other
  BY <1>2, KeyAlone
<1>4. PICK k \in 0 .. Len(fw) : Chunked(k) /\ Writable(k) /\ k >= 1
  BY <1>2, WorkHead
<1>5. /\ store \in [Stores -> Int] /\ Other \in Stores /\ Other # dev.app
      /\ dev.app \in Stores /\ k \in Int /\ Chunks \in Int /\ dev.got \in Int
  BY Requests, OtaLinkAssumption DEF Types, Ram
<1>6. /\ store' = [store EXCEPT ![Other] = @ + 1] /\ UNCHANGED <<dev, tx>>
      /\ store'[dev.app] = store[dev.app] /\ store'[Other] = store[Other] + 1
  BY <1>3, <1>5 DEF ChunkWritten
<1>7. New' = New /\ Other' = Other /\ (\A t : Out(t)' = Out(t)) /\ Handing' = Handing
  BY <1>6, SameClient DEF New, Other
<1> DEFINE j == k - 1
<1>8. /\ j \in 0 .. Len(fw') /\ Chunked(j)' /\ (Ops({"set"})' => Ops({"set"}))
  <2>1. j = IF k = 0 THEN 0 ELSE k - 1
    BY <1>4
  <2>2. dev.part \in Stores \cup {0}
    BY DEF Types, Ram
  <2> QED BY <1>4, <2>1, <2>2, WorkTail
<1>9. store[Other] + k <= Chunks
  BY <1>4 DEF Writable
<1>10. \A s \in Stores : store'[s] \in {Orig} \cup 0 .. Chunks
  <2>1. \A s \in Stores : store[s] \in {Orig} \cup 0 .. Chunks
    BY DEF TInv, Work
  <2>2. store[Other] + 1 \in 0 .. Chunks
    BY <1>4, <1>5, <1>9, <2>1 DEF Orig
  <2> QED BY <1>5, <1>6, <2>1, <2>2
<1>11. Writable(j)'
  <2>1. store'[Other'] + j = store[Other] + k
    BY <1>5, <1>6, <1>7
  <2>2. Free(tx, Bytes)' = Free(tx, Bytes)
    BY <1>6
  <2> HIDE DEF j
  <2> QED BY <1>4, <1>6, <1>7, <2>1, <2>2 DEF Writable
<1> HIDE DEF j
<1>12. Work'
  BY <1>2, <1>7, <1>8, <1>10, <1>11 DEF Work
<1>13. Erasing' => Erasing
  BY <1>7, <1>8 DEF Erasing
<1> QED BY <1>6, <1>7, <1>12, <1>13, Worked

LEMMA StoreHashedSteps ==
    ASSUME Types, IInv, TInv, UNCHANGED <<client, up, link, resume, once>>,
           fw # <<>>, Head(fw).t = "hash", fw' = Tail(fw), StoreHashed(Head(fw).s)
    PROVE  TInv'
PROOF
<1>1. Head(fw) = fw[1] /\ 1 \in 1 .. Len(fw)
  BY HeadOp
<1>2. ~New
  <2> SUFFICES ASSUME New PROVE FALSE
    OBVIOUS
  <2>1. fw \in {<<Op("key", 0)>>, <<Op("run", dev.app)>>, <<Op("set", Other)>>}
    BY DEF IInv, Flash
  <2> QED BY <2>1, <1>1, Requests
<1> DEFINE sum == IF dev.sum = "none" /\ store[Head(fw).s] = Chunks
                  THEN "image" ELSE "junk"
<1>3. dev' = [dev EXCEPT !.sum = sum] /\ UNCHANGED <<store, tx>>
  BY DEF StoreHashed
<1> HIDE DEF sum
<1>4. /\ dev'.app = dev.app /\ dev'.cs = dev.cs /\ dev'.stage = dev.stage
      /\ dev'.got = dev.got /\ dev'.state = dev.state
  BY <1>3 DEF Types, Ram
<1>5. New' = New /\ Other' = Other /\ (\A t : Out(t)' = Out(t)) /\ Handing' = Handing
  BY <1>3, <1>4, SameClient DEF New, Other
<1>6. PICK k \in 0 .. Len(fw) : Chunked(k) /\ Writable(k) /\ k = 0
  BY <1>2, WorkHead
<1>7. /\ 0 \in 0 .. Len(fw') /\ Chunked(0)' /\ (Ops({"set"})' => Ops({"set"}))
  BY <1>6, WorkTail
<1>8. Writable(0)'
  <2>1. Free(tx, Bytes)' = Free(tx, Bytes)
    BY <1>3
  <2> QED BY <1>3, <1>4, <1>5, <1>6, <2>1 DEF Writable
<1>9. Work'
  BY <1>2, <1>3, <1>5, <1>7, <1>8 DEF TInv, Work
<1>10. Erasing' => Erasing
  BY <1>5, <1>7 DEF Erasing
<1> QED BY <1>3, <1>4, <1>5, <1>9, <1>10, Worked

(* A commit resets the parser, with no packet under way. *)
LEMMA AppCommittedSteps ==
    ASSUME Types, IInv, TInv, UNCHANGED <<client, up, link, resume, once>>,
           fw # <<>>, Head(fw).t = "run", AppCommitted(Head(fw).s),
           fw' = Tail(fw) \o <<Op("set", dev.cs)>>
    PROVE  TInv'
PROOF
<1>1. Head(fw) = fw[1] /\ 1 \in 1 .. Len(fw)
  BY HeadOp
<1>2. New
  BY KeyAlone, <1>1 DEF IInv, Flash
<1>3. /\ dev' = initStateVariables(dev) /\ UNCHANGED <<store, tx>>
  BY DEF AppCommitted
<1>4. /\ dev'.app = dev.app /\ dev'.got = 0 /\ dev'.state = dev.state
      /\ dev'.cs = dev.cs
  <2>1. dev' = [dev EXCEPT !.valid = FALSE, !.got = 0, !.stage = "id",
                           !.reset = FALSE, !.sum = "none"]
    BY <1>3 DEF initStateVariables
  <2> QED BY <2>1 DEF Types, Ram
<1>5. fw = <<Op("run", dev.app)>> /\ dev.cs = Other
  <2>1. fw \in {<<Op("key", 0)>>, <<Op("run", dev.app)>>, <<Op("set", Other)>>}
    BY <1>2 DEF IInv, Flash
  <2>2. fw = <<Op("run", dev.app)>>
    BY <2>1, <1>1, Requests
  <2> QED BY <1>2, <2>2 DEF IInv, Flash
<1>6. New' = New /\ Other' = Other
  BY <1>3, <1>4 DEF New, Other
<1>7. Work'
  BY <1>2, <1>3, <1>4, <1>5, <1>6 DEF TInv, Work
<1>8. link => ~Handing /\ ~Out("DATA")
  BY <1>2 DEF TInv, Committing, GivenUp, Over
<1> QED BY <1>2, <1>3, <1>4, <1>6, <1>7, <1>8, Worked DEF Erasing

LEMMA ConfirmSteps ==
    ASSUME Types, IInv, TInv, Confirm
    PROVE  TInv'
BY ConfirmCases, KeyReadSteps, StoreIdSetSteps, ChunkWrittenSteps, StoreHashedSteps,
   AppCommittedSteps

-----------------------------------------------------------------------------
(* Connections and restarts *)

(* Apart, only what the firmware has to do matters. *)
LEMMA ApartSteps ==
    ASSUME ~link', IInv', Within(tx, Twos)', Work'
    PROVE  TInv'
PROOF
<1>1. Turn' /\ Sent' /\ Acks' /\ Controls' /\ OldNotes' /\ Committing'
  BY DEF Turn, Sent, Acks, Controls, OldNotes, Committing
<1>2. Buffered'
  BY DEF IInv, Apart, Buffered
<1> QED BY <1>1, <1>2 DEF TInv

LEMMA LinkDownSteps ==
    ASSUME Types, TInv, NEW r, LinkDown(r)
    PROVE  ~link' /\ Within(tx, Twos)'
PROOF
<1> DEFINE h == IF r THEN None ELSE tx.held
<1>1. None \in Twos
  BY Messages, MessageFields DEF Twos, Bytes
<1>2. h \in Twos
  BY <1>1 DEF TInv, Within
<1>3. ~link' /\ tx' = [Quiet EXCEPT !.held = h]
  BY DEF LinkDown
<1> HIDE DEF h
<1>4. tx'.q = <<>> /\ tx'.held = h
  BY <1>3 DEF Quiet
<1>5. Within(tx', Twos)
  BY <1>2, <1>4 DEF Within
<1> QED BY <1>3, <1>5 DEF Twos

(* A restart forgets what the firmware had to do, perhaps half an erasure. *)
LEMMA BootWork ==
    ASSUME Types, TInv, NEW kept, Boot(kept),
           \/ store' = store
           \/ \E s : store' = [store EXCEPT ![s] = 0]
    PROVE  Work'
PROOF
<1>1. fw' = <<Op("key", 0)>> /\ fw' # <<Op("set", Other')>>
  <2>1. fw' = <<Op("key", 0)>>
    BY DEF Boot
  <2> QED BY <2>1, Requests
<1>2. \A s \in Stores : store'[s] \in {Orig} \cup 0 .. Chunks
  <2>1. \A s \in Stores : store[s] \in {Orig} \cup 0 .. Chunks
    BY DEF TInv, Work
  <2>2. 0 \in 0 .. Chunks /\ store \in [Stores -> Int]
    BY OtaLinkAssumption DEF Types
  <2> QED BY <2>1, <2>2
<1> QED BY <1>1, <1>2 DEF Work

LEMMA ServerDownWork ==
    ASSUME Types, TInv, ServerDisconnected, ~link'
    PROVE  Work'
PROOF
<1>1. CASE dev.reset
  <2>1. store' = store /\ Boot(once)
    BY <1>1 DEF ServerDisconnected
  <2> QED BY <2>1, BootWork
<1>2. CASE ~dev.reset
  <2>1. /\ dev' = [dev EXCEPT !.busy = FALSE, !.closing = FALSE]
        /\ store' = store /\ fw' = fw
    BY <1>2 DEF ServerDisconnected, flash
  <2>2. dev'.app = dev.app /\ dev'.cs = dev.cs
    BY <2>1 DEF Types, Ram
  <2> QED BY <2>1, <2>2, SameWork DEF TInv
<1> QED BY <1>1, <1>2

LEMMA EndsSteps ==
    ASSUME Types, IInv, TInv, Ends
    PROVE  TInv'
PROOF
<1>1. IInv'
  BY EndsKeeps
<1>2. CASE Disconnect
  <2>1. LinkDown(dev.reset) /\ ServerDisconnected
    BY <1>2 DEF Disconnect
  <2>2. ~link' /\ Within(tx, Twos)'
    BY <2>1, LinkDownSteps
  <2> QED BY <1>1, <2>1, <2>2, ServerDownWork, ApartSteps
<1>3. CASE ClientPowerCut
  <2>1. CASE link
    <3>1. LinkDown(dev.reset) /\ ServerDisconnected
      BY <1>3, <2>1 DEF ClientPowerCut
    <3>2. ~link' /\ Within(tx, Twos)'
      BY <3>1, LinkDownSteps
    <3> QED BY <1>1, <3>1, <3>2, ServerDownWork, ApartSteps
  <2>2. CASE ~link
    <3>1. ~link' /\ tx' = tx /\ UNCHANGED <<store, fw, dev>>
      BY <1>3, <2>2 DEF ClientPowerCut, server, flash
    <3>2. Within(tx, Twos)' /\ Work'
      BY <3>1, SameWork DEF TInv, Twos
    <3> QED BY <1>1, <3>1, <3>2, ApartSteps
  <2> QED BY <2>1, <2>2
<1>4. ASSUME Restarts, NEW kept, Boot(kept),
             \/ store' = store
             \/ \E s : store' = [store EXCEPT ![s] = 0]
      PROVE  TInv'
  <2>1. ~link' /\ Within(tx, Twos)'
    BY <1>4, LinkDownSteps DEF Restarts
  <2> QED BY <1>1, <1>4, <2>1, BootWork, ApartSteps
<1>5. CASE CommitTimesOut
  BY <1>4, <1>5 DEF CommitTimesOut, CommitTimeout
<1>6. CASE ServerPanics
  BY <1>4, <1>6 DEF ServerPanics, EraseUnattended, WriteWhileClosing
<1>7. CASE ServerPowerCut
  <2>1. Restarts /\ PowerCut
    BY <1>7 DEF ServerPowerCut
  <2>2. PICK kept \in {0, once} : Boot(kept)
    BY <2>1 DEF PowerCut
  <2>3. store' = store \/ \E s : store' = [store EXCEPT ![s] = 0]
    BY <2>1 DEF PowerCut
  <2> QED BY <1>4, <2>1, <2>2, <2>3
<1> QED BY <1>2, <1>3, <1>5, <1>6, <1>7 DEF Ends, Unasked, LinkLost, Closed

LEMMA GiveUpSteps ==
    ASSUME Types, IInv, TInv, GiveUp
    PROVE  TInv'
PROOF
<1>1. /\ ~link /\ UNCHANGED <<link, tx>> /\ UNCHANGED <<store, fw, dev>>
  BY DEF GiveUp, ReconnectionFails, server, flash
<1>2. Within(tx, Twos)' /\ Work'
  BY <1>1, SameWork DEF TInv, Twos
<1> QED BY <1>1, <1>2, GiveUpKeeps, ApartSteps

(* A connection begins with the parser at the start of a file. *)
LEMMA ConnectSteps ==
    ASSUME Prompt, Types, IInv, TInv, Connect
    PROVE  TInv'
PROOF
<1>1. /\ ~link /\ fw = <<>> /\ UNCHANGED <<up, tx, wr, fw, store>>
      /\ dev' = initStateVariables(
                    [dev EXCEPT !.state = IF dev.cs = 0
                                          THEN "PRE_FAIL" ELSE "WAIT_FOR_HOST"])
      /\ cl' = [cl EXCEPT !.start = "timer",
                          !.state = IF @ = "WAIT_POST_TRANSFER_RECONNECTION"
                                    THEN "IDLE" ELSE @]
  BY DEF Connect, ServerConnected, ClientConnected, flash
<1>2. /\ up = None /\ wr.pend = None /\ None.t = "none" /\ tx.q = <<>>
      /\ cl.state \in {"IDLE", "WAIT_POST_TRANSFER_RECONNECTION"}
  BY <1>1, MessageFields DEF IInv, Apart, Client
<1>3. cl'.state = "IDLE" /\ PreStart' /\ ~Handing' /\ ~More'
  BY <1>1, <1>2 DEF Types, Relayer, PreStart, Handing, More
<1>4. \A t : t # "none" => ~Out(t)' /\ up'.t # t /\ wr'.pend.t # t
  BY <1>1, <1>2 DEF Out
<1>5. dev'.got = 0 /\ dev'.app = dev.app /\ dev'.cs = dev.cs
  <2> DEFINE st == IF dev.cs = 0 THEN "PRE_FAIL" ELSE "WAIT_FOR_HOST"
             d == [dev EXCEPT !.state = st]
  <2>1. dev' = initStateVariables(d) /\ d = [dev EXCEPT !.state = st]
    BY <1>1
  <2> HIDE DEF st, d
  <2>2. d.app = dev.app /\ d.cs = dev.cs /\ DOMAIN d = DOMAIN dev
    BY <2>1 DEF Types, Ram
  <2>3. dev' = [d EXCEPT !.valid = FALSE, !.got = 0, !.stage = "id",
                         !.reset = FALSE, !.sum = "none"]
    BY <2>1 DEF initStateVariables
  <2> QED BY <2>2, <2>3 DEF Types, Ram
<1>6. ~Ops({"set"})' /\ fw' = <<>>
  BY <1>1 DEF Ops
<1>7. Turn'
  <2>1. Once(tx, Bytes)'
    BY <1>1, <1>2 DEF Once
  <2> QED BY <1>3, <1>4, <1>6, <2>1 DEF Turn, Erasing
<1>8. Sent'
  BY <1>3, <1>4, <1>5 DEF Sent
<1>9. Acks' /\ Buffered' /\ OldNotes'
  BY <1>3 DEF Acks, Buffered, OldNotes
<1>10. Controls'
  BY <1>3, <1>4 DEF Controls
<1>11. Committing'
  BY <1>3, <1>4, <1>6 DEF Committing
<1>12. Work'
  BY <1>1, <1>3, <1>4, <1>5, SameWork DEF TInv
<1>13. Within(tx, Twos)'
  BY <1>1 DEF TInv, Twos
<1> QED BY <1>7, <1>8, <1>9, <1>10, <1>11, <1>12, <1>13 DEF TInv
-----------------------------------------------------------------------------
(* The invariant *)

LEMMA StartsApart ==
    ASSUME Init
    PROVE  TInv
PROOF
<1>1. /\ link = FALSE /\ tx = Quiet /\ cl = Idle
      /\ store = [s \in Stores |-> Orig] /\ fw = <<Op("key", 0)>>
      /\ dev = Booted(1, FALSE)
  BY DEF Init, ServerInit, ClientInit
<1>2. tx.q = <<>> /\ tx.held = None /\ cl.state = "IDLE" /\ dev.app = 1
  BY <1>1 DEF Quiet, Idle, Booted
<1>3. ~New /\ \A s \in Stores : store[s] = Orig
  BY <1>1, <1>2 DEF New, Stores
<1>4. Work
  BY <1>1, <1>3 DEF Work
<1>5. Within(tx, Twos)
  BY <1>2, Messages, MessageFields DEF Within, Twos, Bytes
<1> QED BY <1>1, <1>2, <1>4, <1>5
        DEF TInv, Turn, Sent, Acks, Buffered, Controls, OldNotes, Committing

LEMMA StutterSteps ==
    ASSUME TInv, UNCHANGED vars
    PROVE  TInv'
PROOF
<1>1. /\ UNCHANGED <<link, up, tx, cl, wr>> /\ UNCHANGED <<store, fw, dev>>
  BY DEF vars, server, client, flash
<1>2. /\ New' = New /\ Other' = Other /\ (\A t : Out(t)' = Out(t))
      /\ Erasing' = Erasing /\ PreStart' = PreStart /\ Handing' = Handing
      /\ Over' = Over /\ More' = More
      /\ \A t : Free(tx, t)' = Free(tx, t)
      /\ Within(tx, Ones)' = Within(tx, Ones)
      /\ Within(tx, Twos)' = Within(tx, Twos)
  BY <1>1 DEF New, Other, Out, Erasing, Ops, PreStart, Handing, Asking, Over, More,
     Ones, Twos
<1>3. Turn'
  BY <1>1, <1>2 DEF TInv, Turn
<1>4. Sent'
  <2>1. Started' = Started
    BY <1>2 DEF Started
  <2> QED BY <1>1, <1>2, <2>1 DEF TInv, Sent, Due
<1>5. Acks' /\ Buffered' /\ Controls' /\ OldNotes'
  BY <1>1, <1>2 DEF TInv, Acks, Buffered, Controls, OldNotes
<1>6. Committing'
  <2>1. GivenUp' = GivenUp
    BY <1>2 DEF GivenUp
  <2> QED BY <1>1, <1>2, <2>1 DEF TInv, Committing
<1>7. Work'
  BY <1>1, <1>2 DEF TInv, Work, Chunked, Writable
<1> QED BY <1>2, <1>3, <1>4, <1>5, <1>6, <1>7 DEF TInv

LEMMA StepSteps ==
    ASSUME Prompt, Types, IInv, TInv, [Next]_vars
    PROVE  TInv'
PROOF
<1>1. CASE Serve \/ Relay \/ Begin \/ Confirm
  BY <1>1, ServeSteps, RelaySteps, BeginSteps, ConfirmSteps
<1>2. CASE Params \/ SendHeld \/ GiveUp \/ Connect
  BY <1>2, ParamsSteps, SendHeldSteps, GiveUpSteps, ConnectSteps
<1>3. CASE FirmwareFault \/ UserAborts \/ UserDeclines
  BY <1>3, FaultSteps, UserSteps
<1>4. CASE Ends
  BY <1>4, EndsSteps
<1>5. CASE UNCHANGED vars
  BY <1>5, StutterSteps
<1> QED BY <1>1, <1>2, <1>3, <1>4, <1>5 DEF Next, System, Ends, Unasked

(***************************************************************************)
(* What entitles the client to a packet, what the parser expects, and what *)
(* the firmware has yet to write, in every state.                          *)
(***************************************************************************)
THEOREM TransferInStep ==
    ASSUME Prompt
    PROVE  Spec => [](Types /\ IInv /\ TInv)
PROOF
<1>1. Init => Types /\ IInv /\ TInv
  BY Starts, StartsApart
<1>2. (Types /\ IInv /\ TInv) /\ [Next]_vars => (Types /\ IInv /\ TInv)'
  BY StepKeeps, StepSteps
<1> QED BY <1>1, <1>2, PTL DEF Spec

(***************************************************************************)
(* The packet that reaches handleOtauFileTransfer in a transfer is the     *)
(* piece of the file its parser waits for, whatever was lost, aborted or   *)
(* had to wait for a buffer.                                               *)
(***************************************************************************)
THEOREM PacketsInStep ==
    ASSUME Prompt
    PROVE  Spec => []PieceInStep
PROOF
<1>1. ASSUME Types, IInv, TInv
      PROVE  PieceInStep
  <2> SUFFICES ASSUME up.t = "DATA"
               PROVE  LET piece == File[up.v]
                      IN  IF dev.stage = "unknown" THEN piece \in {"part", "foot"}
                          ELSE piece = dev.stage
    BY DEF PieceInStep
  <2>1. link
    BY <1>1, MessageFields DEF IInv, Apart
  <2>2. Due(up.v)
    BY <1>1, <2>1 DEF TInv, Sent
  <2> QED BY <1>1, <2>2, DuePieces
<1> QED BY <1>1, TransferInStep, PTL

(***************************************************************************)
(* Every variable holds a value of its kind; above all a store is never    *)
(* given more than the chunks of an image, and the client's position stays *)
(* in the file.                                                            *)
(***************************************************************************)
THEOREM UpgradeTypes ==
    ASSUME Prompt
    PROVE  Spec => []TypeOK
PROOF
<1>1. ASSUME Types, IInv, TInv
      PROVE  TypeOK
  <2>1. store \in [Stores -> {Orig} \cup 0 .. Chunks]
    BY <1>1 DEF Types, TInv, Work
  <2> QED BY <1>1, <2>1 DEF Types, Ram, Relayer, TypeOK
<1> QED BY <1>1, TransferInStep, PTL
=============================================================================
