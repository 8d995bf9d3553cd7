------------------------------- MODULE OtaLink -------------------------------
(***************************************************************************)
(* The GATT link an over-the-air upgrade runs over, and the file it        *)
(* carries.  The host (a hub relaying its own image, or a phone) writes    *)
(* GAIA commands to the server's command endpoint, one ATT write request   *)
(* at a time; the server confirms each write and answers with              *)
(* notifications, which take a transmit buffer of the firmware each.       *)
(***************************************************************************)
EXTENDS Integers, Sequences, SequencesExt

CONSTANTS Chunks,       \* data packets that carry the application partition
          Sigs,         \* packets that carry the signature in the footer
          TxBuffers     \* notifications the firmware can hold

ASSUME OtaLinkAssumption ==
    /\ Chunks \in Nat \ {0}
    /\ Sigs \in Nat \ {0}
    /\ TxBuffers \in Nat \ {0}

VARIABLES link,     \* the two devices are connected
          up,       \* the write request under way, or None
          tx        \* the server's notifications: [q, held, done, used]

Msg(t, v) == [t |-> t, v |-> v]
None == Msg("none", 0)
WriteCfm == Msg("write_cfm", 0)
Ack == Msg("ack", 0)
BytesReq(packets) == Msg("DATA_BYTES_REQ", packets)
ErrorInd == Msg("ERROR_IND", 0)

Times(piece, n) == [i \in 1 .. n |-> piece]

(***************************************************************************)
(* The upgrade file, as the host cuts it in packets of at most 12 octets.  *)
(* The header body (14 octets) takes two.                                  *)
(***************************************************************************)
File == <<"id", "len", "body", "body", "part", "phdr">>
            \o Times("data", Chunks) \o <<"foot", "flen">>
            \o Times("sig", Sigs)

Quiet == [q |-> <<>>, held |-> None, done |-> FALSE, used |-> 0]

\* Mutant of Notify: a notification the firmware has no buffer for is dropped.
NotifyDropped(x, m) ==
    IF x.used < TxBuffers THEN [x EXCEPT !.q = Append(@, m), !.used = @ + 1]
    ELSE x

(***************************************************************************)
(* GAIASendNotification: a notification that finds no buffer is kept, in   *)
(* the place of an earlier one, until a packet has been completed.         *)
(***************************************************************************)
Notify(x, m) ==
    IF x.used < TxBuffers
    THEN [x EXCEPT !.q = Append(@, m), !.used = @ + 1]
    ELSE [x EXCEPT !.held = m]

(* The write is confirmed before the command is looked at. *)
Heard == [tx EXCEPT !.q = Append(@, WriteCfm)]

(* A control command is acknowledged before it is carried out. *)
Acked == Notify(Heard, Ack)

(* The host has received what is at the head of the queue. *)
Taken ==
    IF Head(tx.q) = WriteCfm THEN [tx EXCEPT !.q = Tail(@)]
    ELSE [tx EXCEPT !.q = Tail(@), !.used = @ - 1,
                    !.done = @ \/ tx.held # None]

(***************************************************************************)
(* A packet has been completed since the notification was held: it is sent *)
(* again.                                                                  *)
(***************************************************************************)
Resend ==
    /\ link /\ tx.done
    /\ tx' = Notify([tx EXCEPT !.held = None, !.done = FALSE], tx.held)
    /\ UNCHANGED <<link, up>>
=============================================================================
