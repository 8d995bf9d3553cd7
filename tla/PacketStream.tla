---------------------------- MODULE PacketStream ----------------------------
(***************************************************************************)
(* What the hub promises the gateway (the ESP32 on the other end of the    *)
(* UART) about the packets its handlers queue: they reach the gateway in    *)
(* the order they were queued, and none is skipped, provided the gateway    *)
(* answers before the acknowledgement timeout and the backlog stays below   *)
(* the capacity of the packet ring.  Past either limit packets may be       *)
(* skipped, but the stream still never goes back to an older packet.        *)
(*                                                                         *)
(* Packets are numbered 1, 2, 3, ... in the order they are queued.          *)
(***************************************************************************)
EXTENDS Integers

CONSTANTS
    Slots,       \* packets the ring has room for
    PromptAcks   \* the gateway answers within the acknowledgement timeout

VARIABLES
    put,         \* packets queued so far
    out,         \* the newest packet the gateway has received
    overrun      \* the backlog has exceeded the ring

vars == <<put, out, overrun>>

Init == put = 0 /\ out = 0 /\ overrun = FALSE

\* A packet is queued.  Only with a full ring's worth of packets not yet
\* received by the gateway may that overrun the ring.
Put ==
    /\ put' = put + 1
    /\ \/ UNCHANGED overrun
       \/ put - out >= Slots - 1 /\ overrun' = TRUE
    /\ UNCHANGED out

\* The gateway receives the next packet.
DeliverNext ==
    /\ out < put
    /\ out' = out + 1
    /\ UNCHANGED <<put, overrun>>

\* Past a limit: the gateway receives some later packet.
DeliverLater ==
    /\ overrun \/ ~PromptAcks
    /\ \E n \in out + 1 .. put : out' = n
    /\ UNCHANGED <<put, overrun>>

Deliver == DeliverNext \/ DeliverLater

Next == Put \/ Deliver

Safety == Init /\ [][Next]_vars

\* While the ring has not overrun, what is queued is eventually received.
Spec == Safety /\ WF_vars(~overrun /\ Deliver)
=============================================================================
