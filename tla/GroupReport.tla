---------------------------- MODULE GroupReport ----------------------------
(***************************************************************************)
(* Reports from the mesh that the hub passes on to the gateway: the number  *)
(* of a device's groups, one of its group ids, the state of its battery.    *)
(* GroupModelEventHandler and BatteryModelEventHandler                      *)
(* (extension_model_handler.c) fill a record of each kind and schedule      *)
(* Group_Set_UartTxHandler (ONESECOND.c), which queues a packet and          *)
(* schedules itself again; all its calls share one count, Get_Group_count.  *)
(*                                                                         *)
(* A record holds the number of the event that filled it, 0 at start: its   *)
(* opcode is set by the first event of its kind and never cleared.          *)
(***************************************************************************)
EXTENDS Integers

CONSTANTS
    Tid,              \* transaction ids of the mesh messages, 0 among them
    MAX_APP_TIMERS,   \* timers the application's pool holds
    OtherMax,         \* bound: timers the rest of the application holds
    MaxEvents         \* bound: reports in one behaviour

ASSUME TidAssumption == Tid \subseteq Nat /\ 0 \in Tid
ASSUME PoolAssumption == MAX_APP_TIMERS \in Nat /\ OtherMax \in Nat /\ OtherMax <= MAX_APP_TIMERS
ASSUME EventsAssumption == MaxEvents \in Nat

Kind == {"group", "num", "battery"}

VARIABLES
    group_data, numgroup_data, battery_data,   \* the event each record holds
    previoustid,       \* transaction id of the last group report scheduled
    Get_Group_count,   \* repetitions so far, 50 when they are over
    calls,             \* running timers of Group_Set_UartTxHandler
    others,            \* timers held by the rest of the application
    events,            \* events so far
    scheduled,         \* newest event of each kind that scheduled packets
    reported,          \* newest event of each kind found in a packet
    packets,           \* packets queued so far
    since,             \* packets queued since the last group report scheduled
    owed,              \* packets asked for: 3 for a group report, 1 for a battery's
    refused            \* TimerCreate has returned TIMER_INVALID

records == <<group_data, numgroup_data, battery_data>>
history == <<events, scheduled, owed, refused>>
output  == <<reported, packets, since>>
vars    == <<records, previoustid, Get_Group_count, calls, others, history, output>>

Free == MAX_APP_TIMERS - (calls + others)

Init ==
    /\ group_data = 0 /\ numgroup_data = 0 /\ battery_data = 0
    /\ previoustid = 0 /\ Get_Group_count = 50
    /\ calls = 0 /\ others = 0
    /\ events = 0
    /\ scheduled = [k \in Kind |-> 0] /\ reported = [k \in Kind |-> 0]
    /\ packets = 0 /\ since = 0 /\ owed = 0
    /\ refused = FALSE

-----------------------------------------------------------------------------
\* TimerCreate(50 ms, Group_Set_UartTxHandler), whose result is not looked at.
Schedule(kind) ==
    /\ calls' = IF Free >= 1 THEN calls + 1 ELSE calls
    /\ refused' = (refused \/ Free < 1)
    /\ scheduled' = [scheduled EXCEPT ![kind] = events + 1]

\* Mutant of ScheduleUnlessRepeated: the count is not reset.
ScheduleKeepsCount(kind, tid) ==
    IF tid = 0 \/ tid # previoustid
      THEN /\ previoustid' = tid
           /\ Schedule(kind)
           /\ owed' = owed + 3
           /\ since' = 0
           /\ UNCHANGED Get_Group_count
      ELSE UNCHANGED <<previoustid, Get_Group_count, calls, refused, scheduled, owed, since>>

\* The common end of the cases of GroupModelEventHandler: a message with the
\* transaction id of the one before is a retransmission, unless the id is 0.
ScheduleUnlessRepeated(kind, tid) ==
    IF tid = 0 \/ tid # previoustid
      THEN /\ previoustid' = tid
           /\ Get_Group_count' = 0
           /\ Schedule(kind)
           /\ owed' = owed + 3
           /\ since' = 0
      ELSE UNCHANGED <<previoustid, Get_Group_count, calls, refused, scheduled, owed, since>>

GroupNumberReport(tid) ==
    /\ numgroup_data' = events + 1
    /\ ScheduleUnlessRepeated("num", tid)
    /\ UNCHANGED <<group_data, battery_data>>

GroupIdReport(tid) ==
    /\ group_data' = events + 1
    /\ ScheduleUnlessRepeated("group", tid)
    /\ UNCHANGED <<numgroup_data, battery_data>>

GroupModelEventHandler ==
    /\ events < MaxEvents
    /\ \E tid \in Tid : GroupNumberReport(tid) \/ GroupIdReport(tid)
    /\ events' = events + 1
    /\ UNCHANGED <<others, reported, packets>>

\* Mutant of BatteryModelEventHandler: it, too, restarts the repetitions.
BatteryRestartsCount ==
    /\ events < MaxEvents
    /\ battery_data' = events + 1
    /\ Get_Group_count' = 0
    /\ Schedule("battery")
    /\ owed' = owed + 1
    /\ events' = events + 1
    /\ UNCHANGED <<group_data, numgroup_data, previoustid, others, output>>

BatteryModelEventHandler ==
    /\ events < MaxEvents
    /\ battery_data' = events + 1
    /\ Schedule("battery")
    /\ owed' = owed + 1
    /\ events' = events + 1
    /\ UNCHANGED <<group_data, numgroup_data, previoustid, Get_Group_count, others, output>>

\* What the packet reports: each record whose opcode is set overwrites the one
\* before it.
Reports(kind) ==
    CASE kind = "battery" -> battery_data # 0
      [] kind = "num"     -> battery_data = 0 /\ numgroup_data # 0
      [] OTHER            -> battery_data = 0 /\ numgroup_data = 0

Record(kind) ==
    CASE kind = "battery" -> battery_data [] kind = "num" -> numgroup_data [] OTHER -> group_data

\* Mutant of Repeats: one call too many.
RepeatsOnceMore ==
    IF Get_Group_count <= 2
      THEN Get_Group_count' = Get_Group_count + 1 /\ UNCHANGED calls
      ELSE Get_Group_count' = 50 /\ calls' = calls - 1

\* The end of Group_Set_UartTxHandler: it schedules itself again, with the timer
\* that has just expired, while the count is below 2.
Repeats ==
    IF Get_Group_count < 2
      THEN Get_Group_count' = Get_Group_count + 1 /\ UNCHANGED calls
      ELSE Get_Group_count' = 50 /\ calls' = calls - 1

\* Mutant of Group_Set_UartTxHandler: the record is not put in the packet.
QueuesEmptyPacket ==
    /\ calls > 0
    /\ packets' = packets + 1 /\ since' = since + 1
    /\ Repeats
    /\ UNCHANGED <<records, previoustid, others, history, reported>>

Group_Set_UartTxHandler ==
    /\ calls > 0
    /\ \E k \in Kind : Reports(k) /\ reported' = [reported EXCEPT ![k] = Record(k)]
    /\ packets' = packets + 1 /\ since' = since + 1
    /\ Repeats
    /\ UNCHANGED <<records, previoustid, others, history>>

\* The rest of the application takes and returns timers of the pool.
OtherTimerCreate ==
    /\ others < OtherMax /\ Free >= 1
    /\ others' = others + 1
    /\ UNCHANGED <<records, previoustid, Get_Group_count, calls, history, output>>

OtherTimerExpires ==
    /\ others > 0
    /\ others' = others - 1
    /\ UNCHANGED <<records, previoustid, Get_Group_count, calls, history, output>>

Next ==
    \/ GroupModelEventHandler \/ BatteryModelEventHandler
    \/ Group_Set_UartTxHandler
    \/ OtherTimerCreate \/ OtherTimerExpires

Spec == Init /\ [][Next]_vars

\* A timer that runs expires.
FairSpec == Spec /\ WF_vars(Group_Set_UartTxHandler)

-----------------------------------------------------------------------------
\* The type invariant.
TypeOK ==
    /\ events \in 0 .. MaxEvents
    /\ group_data \in 0 .. events /\ numgroup_data \in 0 .. events /\ battery_data \in 0 .. events
    /\ previoustid \in Tid
    /\ Get_Group_count \in {0, 1, 2, 50}
    /\ calls \in Nat /\ others \in 0 .. OtherMax
    /\ scheduled \in [Kind -> 0 .. events] /\ reported \in [Kind -> 0 .. events]
    /\ packets \in Nat /\ since \in Nat /\ owed \in Nat
    /\ refused \in BOOLEAN

\* Packets the count still allows before a call does not schedule itself again.
Left == IF Get_Group_count < 2 THEN 2 - Get_Group_count ELSE 0

\* Reports that arrive while others are being repeated share the count with
\* them.  However they interleave, the hub never queues more packets than three
\* for each group report and one for each battery report, those still to come
\* included: the load on the packet ring is bounded by the mesh traffic, and the
\* calls cannot keep each other going.
PacketsBounded == packets + calls + Left <= owed

\* Nor does sharing the count cost a group report any of its repetitions: when
\* the calls are over, at least three packets have been queued since the last
\* one, unless the pool refused a timer.
GroupThreeTimes ==
    ~refused /\ calls = 0 /\ (scheduled["group"] # 0 \/ scheduled["num"] # 0) => since >= 3

\* A report that is scheduled is in a packet in the end, or a newer one of its
\* kind is, unless a kind that comes later in Group_Set_UartTxHandler has ever
\* been reported: that one's record then hides it.
Hidden(kind) ==
    \/ kind # "battery" /\ battery_data # 0
    \/ kind = "group" /\ numgroup_data # 0

EventuallyReported ==
    \A k \in Kind : \A e \in 1 .. MaxEvents :
        scheduled[k] = e ~> (reported[k] >= e \/ Hidden(k) \/ refused)

-----------------------------------------------------------------------------
\* The inductive invariant: a group report's repetitions are counted by
\* Get_Group_count, and one of the calls is there to continue them.
Counted ==
    /\ Get_Group_count <= 2 => since >= Get_Group_count /\ (~refused => calls >= 1)
    /\ Get_Group_count = 50 =>
          since >= 3 \/ (scheduled["group"] = 0 /\ scheduled["num"] = 0)

IInv == TypeOK /\ PacketsBounded /\ Counted
=============================================================================
