------------------------- MODULE GroupReportProofs -------------------------
(***************************************************************************)
(* Proofs about GroupReport for every set of transaction ids, pool size and *)
(* number of reports: the load on the packet ring is bounded, and sharing   *)
(* Get_Group_count costs no group report its repetitions.                   *)
(***************************************************************************)
EXTENDS GroupReport, TLAPS

USE TidAssumption, PoolAssumption, EventsAssumption
    DEF TidAssumption, PoolAssumption, EventsAssumption

\* Init establishes the inductive invariant: no report yet, none owed.
LEMMA InitIInv == Init => IInv
<1> SUFFICES ASSUME Init PROVE IInv
  OBVIOUS
<1>1. scheduled \in [Kind -> 0 .. 0] /\ reported \in [Kind -> 0 .. 0]
  BY DEF Init
<1>2. TypeOK
  <2>1. events = 0 /\ scheduled \in [Kind -> 0 .. events] /\ reported \in [Kind -> 0 .. events]
    BY <1>1 DEF Init
  <2>2. refused \in BOOLEAN
    BY DEF Init
  <2>3. QED BY <2>1, <2>2 DEF Init, TypeOK
<1>3. PacketsBounded
  BY DEF Init, PacketsBounded, Left
<1>4. scheduled["group"] = 0 /\ scheduled["num"] = 0
  BY DEF Init, Kind
<1>5. Counted
  BY <1>4 DEF Init, Counted
<1>6. QED BY <1>2, <1>3, <1>5 DEF IInv

\* Recording an event in a function over the kinds keeps its type, and so does
\* letting the number of events grow.
LEMMA RecordEvent ==
    ASSUME NEW n \in Nat, NEW m \in Nat, n <= m,
           NEW f \in [Kind -> 0 .. n], NEW k \in Kind, NEW e \in 0 .. m
    PROVE  f \in [Kind -> 0 .. m] /\ [f EXCEPT ![k] = e] \in [Kind -> 0 .. m]
<1>1. \A j \in Kind : f[j] \in 0 .. m
  OBVIOUS
<1>2. QED BY <1>1

\* A group report, scheduled or taken for a retransmission, keeps the inductive
\* invariant: it owes three packets and restarts the count with a call of its
\* own.
LEMMA GroupStep ==
    ASSUME IInv, GroupModelEventHandler
    PROVE  IInv'
<1>1. PICK tid \in Tid : GroupNumberReport(tid) \/ GroupIdReport(tid)
  BY DEF GroupModelEventHandler
<1>2. PICK kind \in {"group", "num"} : ScheduleUnlessRepeated(kind, tid)
  BY <1>1 DEF GroupNumberReport, GroupIdReport
<1>3. kind \in Kind
  BY DEF Kind
<1>4. /\ events \in Nat /\ events < MaxEvents /\ events' = events + 1
      /\ UNCHANGED <<others, reported, packets>>
      /\ UNCHANGED battery_data
  BY <1>1 DEF IInv, TypeOK, GroupModelEventHandler, GroupNumberReport, GroupIdReport
<1>5. /\ group_data' \in 0 .. events' /\ numgroup_data' \in 0 .. events'
      /\ battery_data' \in 0 .. events'
  BY <1>1, <1>4 DEF IInv, TypeOK, GroupNumberReport, GroupIdReport
<1>6. reported' \in [Kind -> 0 .. events']
  BY <1>3, <1>4, RecordEvent DEF IInv, TypeOK
<1>7. CASE tid = 0 \/ tid # previoustid
  <2>1. /\ previoustid' = tid /\ Get_Group_count' = 0 /\ owed' = owed + 3 /\ since' = 0
        /\ Schedule(kind)
    BY <1>2, <1>7 DEF ScheduleUnlessRepeated
  <2>2. scheduled' \in [Kind -> 0 .. events']
    BY <1>3, <1>4, <2>1, RecordEvent DEF IInv, TypeOK, Schedule
  <2>3. /\ calls \in Nat /\ calls' \in {calls, calls + 1} /\ refused' \in BOOLEAN
        /\ ~refused' => ~refused /\ calls' = calls + 1
    <3>1. calls \in Nat /\ others \in Nat /\ Free \in Int
      BY DEF IInv, TypeOK, Free
    <3>2. /\ calls' = IF Free >= 1 THEN calls + 1 ELSE calls
          /\ refused' = (refused \/ Free < 1)
      BY <2>1 DEF Schedule
    <3>3. ~(Free < 1) => Free >= 1
      BY <3>1
    <3>4. QED BY <3>1, <3>2, <3>3, Zenon DEF IInv, TypeOK
  <2>4. TypeOK'
    BY <1>4, <1>5, <1>6, <2>1, <2>2, <2>3 DEF IInv, TypeOK
  <2>5. PacketsBounded'
    <3>1. /\ packets \in Nat /\ owed \in Nat /\ calls \in Nat
          /\ packets + calls <= owed
      BY DEF IInv, TypeOK, PacketsBounded, Left
    <3>2. packets' = packets
      BY <1>4
    <3>3. calls' = calls \/ calls' = calls + 1
      BY <2>3
    <3>4. QED BY <2>1, <3>1, <3>2, <3>3 DEF PacketsBounded, Left
  <2>6. Counted'
    BY <2>1, <2>3 DEF Counted
  <2>7. QED BY <2>4, <2>5, <2>6 DEF IInv
<1>8. CASE ~(tid = 0 \/ tid # previoustid)
  <2>1. UNCHANGED <<previoustid, Get_Group_count, calls, refused, scheduled, owed, since>>
    BY <1>2, <1>8 DEF ScheduleUnlessRepeated
  <2>2. scheduled' \in [Kind -> 0 .. events']
    BY <1>3, <1>4, <2>1, RecordEvent DEF IInv, TypeOK
  <2>3. TypeOK'
    BY <1>4, <1>5, <1>6, <2>1, <2>2 DEF IInv, TypeOK
  <2>4. PacketsBounded' /\ Counted'
    BY <1>4, <2>1 DEF IInv, PacketsBounded, Left, Counted
  <2>5. QED BY <2>3, <2>4 DEF IInv
<1>9. QED BY <1>7, <1>8

\* A battery report keeps it: it owes one packet and adds one call, which
\* joins the repetitions if some are under way.
LEMMA BatteryStep ==
    ASSUME IInv, BatteryModelEventHandler
    PROVE  IInv'
<1>1. /\ events \in Nat /\ events' = events + 1 /\ events < MaxEvents
      /\ battery_data' = events + 1 /\ owed' = owed + 1
      /\ Schedule("battery")
      /\ UNCHANGED <<group_data, numgroup_data, previoustid, Get_Group_count, others, output>>
  BY DEF IInv, TypeOK, BatteryModelEventHandler
<1>2. "battery" \in Kind
  BY DEF Kind
<1>3. scheduled' \in [Kind -> 0 .. events'] /\ reported' \in [Kind -> 0 .. events']
  BY <1>1, <1>2, RecordEvent DEF IInv, TypeOK, Schedule, output
<1>4. /\ calls \in Nat /\ calls' \in {calls, calls + 1} /\ refused' \in BOOLEAN
      /\ ~refused' => ~refused
      /\ scheduled'["group"] = scheduled["group"] /\ scheduled'["num"] = scheduled["num"]
  BY <1>1 DEF IInv, TypeOK, Schedule, Free, Kind
<1>5. TypeOK'
  BY <1>1, <1>3, <1>4 DEF IInv, TypeOK, output
<1>6. PacketsBounded'
  <2>1. /\ packets \in Nat /\ owed \in Nat /\ Left \in Nat
        /\ packets + calls + Left <= owed
    BY DEF IInv, TypeOK, PacketsBounded, Left
  <2>2. /\ Get_Group_count' = Get_Group_count
        /\ packets' = packets /\ owed' = owed + 1
    BY <1>1 DEF output
  <2>3. calls' = calls \/ calls' = calls + 1
    BY <1>4
  <2>4. QED BY <1>4, <2>1, <2>2, <2>3 DEF PacketsBounded, Left
<1>7. Counted'
  BY <1>1, <1>4 DEF IInv, Counted, output
<1>8. QED BY <1>5, <1>6, <1>7 DEF IInv

\* A call keeps it: the packet it queues is one of those owed, and it hands the
\* repetitions on or ends after the third.
LEMMA CallStep ==
    ASSUME IInv, Group_Set_UartTxHandler
    PROVE  IInv'
<1>1. /\ calls \in Nat /\ calls > 0
      /\ packets' = packets + 1 /\ since' = since + 1
      /\ Repeats
      /\ UNCHANGED <<records, previoustid, others, history>>
  BY DEF IInv, TypeOK, Group_Set_UartTxHandler
<1>2. PICK k \in Kind : Reports(k) /\ reported' = [reported EXCEPT ![k] = Record(k)]
  BY DEF Group_Set_UartTxHandler
<1>3. Record(k) \in 0 .. events
  BY DEF IInv, TypeOK, Record
<1>4. reported' \in [Kind -> 0 .. events']
  BY <1>1, <1>2, <1>3, RecordEvent DEF IInv, TypeOK, history
<1>5. TypeOK'
  BY <1>1, <1>4 DEF IInv, TypeOK, Repeats, records, history
<1>6. PacketsBounded'
  BY <1>1 DEF IInv, TypeOK, PacketsBounded, Left, Repeats, history
<1>7. Counted'
  BY <1>1 DEF IInv, TypeOK, Counted, Repeats, history
<1>8. QED BY <1>5, <1>6, <1>7 DEF IInv

\* Every step of the hub keeps the inductive invariant.
LEMMA NextIInv == IInv /\ [Next]_vars => IInv'
<1> SUFFICES ASSUME IInv, [Next]_vars
             PROVE  IInv'
  OBVIOUS
<1>1. CASE GroupModelEventHandler
  BY <1>1, GroupStep
<1>2. CASE BatteryModelEventHandler
  BY <1>2, BatteryStep
<1>3. CASE Group_Set_UartTxHandler
  BY <1>3, CallStep
<1>4. CASE OtherTimerCreate \/ OtherTimerExpires
  BY <1>4 DEF IInv, TypeOK, PacketsBounded, Left, Counted, OtherTimerCreate, OtherTimerExpires,
              records, history, output
<1>5. CASE UNCHANGED vars
  BY <1>5 DEF IInv, TypeOK, PacketsBounded, Left, Counted, vars, records, history, output
<1>6. QED BY <1>1, <1>2, <1>3, <1>4, <1>5 DEF Next

\* The inductive invariant holds in every behaviour.
THEOREM Invariance == Spec => []IInv
BY InitIInv, NextIInv, PTL DEF Spec

\* Every variable keeps its type.
THEOREM TypeCorrect == Spec => []TypeOK
<1>1. IInv => TypeOK
  BY DEF IInv
<1>2. QED BY <1>1, Invariance, PTL

\* Whatever the reports and their timing, the hub queues at most three packets
\* for each group report and one for each battery report.
THEOREM PacketsBoundedCorrect == Spec => []PacketsBounded
<1>1. IInv => PacketsBounded
  BY DEF IInv
<1>2. QED BY <1>1, Invariance, PTL

\* However reports share the count, at least three packets follow the last
\* group report before the calls are over, unless the pool refused a timer.
THEOREM GroupThreeTimesCorrect == Spec => []GroupThreeTimes
<1>1. IInv => GroupThreeTimes
  BY DEF IInv, TypeOK, Counted, GroupThreeTimes
<1>2. QED BY <1>1, Invariance, PTL
=============================================================================
