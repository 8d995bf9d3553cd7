------------------------------ MODULE ConnParam ------------------------------
(***************************************************************************)
(* The hub as a peripheral asks the host for other connection parameters:  *)
(* after a pause (TGAP_CPP), and once the host has been quiet for another  *)
(* (TGAP_CPC), it requests a first set; a refusal is followed by retries   *)
(* and then by a second set.  The operators are the module's functions on  *)
(* its data c; timers are told apart by the handler that they call.        *)
(***************************************************************************)
EXTENDS Naturals

MaxRetry == 3       \* MAX_RETRY
OnceRetry == 2      \* num_retries of RequestConnParamsUpdateOnce

Timers == {"cpp", "cpc"}

Inactive ==
    [tid |-> "none",                        \* the timer the module knows of
     stray |-> [k \in Timers |-> 0],        \* running timers it has forgotten
     active |-> FALSE,                      \* cpc_timer_active
     id |-> FALSE,                          \* device_id is a connected device
     otau |-> FALSE,                        \* the sets are those of an upgrade
     set |-> 1, two |-> FALSE, left |-> 0, num |-> 0,
     cb |-> FALSE,                          \* update_complete_callback is set
     req |-> 0,                             \* the interval that the host is asked
                                            \* for and has not answered, or 0
     late |-> 0]                            \* requests open when their connection
                                            \* ended

(* The upper end of the set being asked for, in units of 1.25 ms. *)
MaxInterval(c) == IF ~c.otau THEN 96 ELSE IF c.set = 1 THEN 8 ELSE 32

(* tid is overwritten: a timer that it named runs on. *)
Forget(c) ==
    [c EXCEPT !.tid = "none",
              !.stray = [k \in Timers |-> IF k = c.tid THEN @[k] + 1 ELSE @[k]]]

TimerCreate(c, kind) == [Forget(c) EXCEPT !.tid = kind]

(* The timer is deleted and the device forgotten. *)
StopConnParamsUpdate(c) == [c EXCEPT !.tid = "none", !.id = FALSE]

(* processNewParams: a request has two sets. *)
processNewParams(c, otau, retries) ==
    [c EXCEPT !.tid = "none", !.id = TRUE, !.otau = otau, !.set = 1,
              !.two = TRUE, !.num = retries, !.left = retries]

RequestConnParamsUpdate(c) ==
    TimerCreate([processNewParams(c, FALSE, MaxRetry) EXCEPT !.active = FALSE],
                "cpp")

RequestConnParamsUpdateOnce(c) ==
    TimerCreate([processNewParams(c, TRUE, OnceRetry) EXCEPT !.active = TRUE],
                "cpc")

handleGapCppTimerExpiry(c) ==
    [TimerCreate(c, "cpc") EXCEPT !.active = TRUE]

\* Mutant of requestConnParamUpdate: the count is decremented past zero.
CountsDown(c, status) ==
    LET d == [Forget(c) EXCEPT !.active = FALSE, !.left = @ - 1]
    IN  CASE status = "success" -> [d EXCEPT !.req = MaxInterval(c)]
          [] status = "busy" -> TimerCreate(d, "cpc")
          [] OTHER -> d

(***************************************************************************)
(* The request is made, and made again later if the firmware is busy.  If  *)
(* it fails the callback is told (by the action that uses this).           *)
(***************************************************************************)
requestConnParamUpdate(c, status) ==
    LET d == [Forget(c) EXCEPT !.active = FALSE,
                               !.left = IF @ > 0 THEN @ - 1 ELSE @]
    IN  CASE status = "success" -> [d EXCEPT !.req = MaxInterval(c)]
          [] status = "busy" -> TimerCreate(d, "cpc")
          [] OTHER -> d

(***************************************************************************)
(* The answer to a request, whichever it was and whatever has become of    *)
(* its device.  The last refusal, of the second set, is one that the       *)
(* callback is told.                                                       *)
(***************************************************************************)
handleConnParamUpdateCfm(c, ok) ==
    IF ok THEN c
    ELSE IF c.left > 0 THEN TimerCreate(c, "cpp")
    ELSE IF c.two
    THEN TimerCreate([c EXCEPT !.two = FALSE, !.set = 2, !.left = c.num], "cpp")
    ELSE [c EXCEPT !.left = MaxRetry]

(* The host is still busy: the second pause begins again. *)
handleServerAccessed(c) ==
    IF c.active /\ c.tid # "none" THEN [c EXCEPT !.tid = "cpc"] ELSE c
=============================================================================
