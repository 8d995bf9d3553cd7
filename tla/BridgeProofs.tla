---------------------------- MODULE BridgeProofs ----------------------------
(***************************************************************************)
(* Proofs about Bridge for every set of intervals and every number of      *)
(* connections and events.                                                 *)
(***************************************************************************)
EXTENDS Bridge, TLAPS

-----------------------------------------------------------------------------
(***************************************************************************)
(* What the operators make of the data.                                    *)
(***************************************************************************)

CpType ==
    [tid : Timers \cup {"none"}, stray : [Timers -> Nat], active : BOOLEAN,
     id : BOOLEAN, otau : BOOLEAN, set : {1, 2}, two : BOOLEAN,
     left : 0 .. MaxRetry, num : 0 .. MaxRetry, cb : BOOLEAN,
     req : {0, 8, 32, 96}, late : Nat]

AppType ==
    [state : AppStates, adv : BOOLEAN, id : BOOLEAN, otau : BOOLEAN,
     mesh : BOOLEAN, cp : CpType]

LEMMA StopType ==
    ASSUME NEW c \in CpType
    PROVE  StopConnParamsUpdate(c) \in CpType
BY DEF StopConnParamsUpdate, CpType

\* Resetting the data of a connection leaves state and adverts alone.
LEMMA DataInitResult ==
    ASSUME NEW a \in AppType
    PROVE  /\ AppDataInit(a) \in AppType
           /\ AppDataInit(a).state = a.state /\ AppDataInit(a).adv = a.adv
           /\ AppDataInit(a).id = FALSE
<1>1. StopConnParamsUpdate(a.cp) \in CpType
  BY StopType DEF AppType
<1>2. QED BY <1>1 DEF AppDataInit, AppType

\* What leaving a state does to the device and the adverts.
LEMMA SetStateResult ==
    ASSUME NEW a \in AppType, NEW s \in AppStates
    PROVE  LET b == AppSetState(a, s) IN
           /\ b \in AppType /\ b.state = s
           /\ b.id = IF a.state = "disconnecting" /\ s # a.state THEN FALSE ELSE a.id
           /\ b.adv = IF a.state = "advertising" /\ s # a.state THEN FALSE ELSE a.adv
<1> DEFINE d == Leave(a)
           b == AppSetState(a, s)
<1>1. /\ d \in AppType
      /\ d.id = IF a.state = "disconnecting" THEN FALSE ELSE a.id
      /\ d.adv = IF a.state = "advertising" THEN FALSE ELSE a.adv
  <2>1. CASE a.state = "disconnecting"
    <3>1. d = AppDataInit(a)
      BY <2>1 DEF Leave
    <3>2. QED BY <2>1, <3>1, DataInitResult
  <2>2. CASE a.state = "advertising"
    BY <2>2 DEF Leave, AppType
  <2>3. CASE a.state \notin {"disconnecting", "advertising"}
    BY <2>3 DEF Leave
  <2>4. QED BY <2>1, <2>2, <2>3
<1>2. b = IF a.state = s THEN a ELSE [d EXCEPT !.state = s]
  BY DEF AppSetState
<1> HIDE DEF d, b
<1>3. CASE a.state = s
  BY <1>2, <1>3 DEF b
<1>4. CASE a.state # s
  <2>1. b = [d EXCEPT !.state = s]
    BY <1>2, <1>4
  <2>2. b \in AppType /\ b.state = s /\ b.id = d.id /\ b.adv = d.adv
    BY <1>1, <2>1 DEF AppType
  <2>3. QED BY <1>1, <1>4, <2>2 DEF b
<1>5. QED BY <1>3, <1>4

\* An advert is sent, or the hub becomes idle.
LEMMA TriggerResult ==
    ASSUME NEW a \in AppType, NEW on \in BOOLEAN
    PROVE  LET t == GattTriggerConnectableAdverts(a, on) IN
           /\ t \in AppType
           /\ on = TRUE => t.adv = TRUE /\ t.state = a.state /\ t.id = a.id
           /\ on = FALSE =>
                /\ t.state = "idle"
                /\ t.id = IF a.state = "disconnecting" THEN FALSE ELSE a.id
<1> DEFINE t == GattTriggerConnectableAdverts(a, on)
<1>1. CASE on = TRUE
  <2>1. t = [a EXCEPT !.adv = TRUE]
    BY <1>1 DEF GattTriggerConnectableAdverts
  <2> HIDE DEF t
  <2>2. t \in AppType /\ t.adv = TRUE /\ t.state = a.state /\ t.id = a.id
    BY <2>1 DEF AppType
  <2>3. QED BY <1>1, <2>2 DEF t
<1>2. CASE on = FALSE
  <2>1. t = AppSetState(a, "idle")
    BY <1>2 DEF GattTriggerConnectableAdverts
  <2>2. "idle" \in AppStates
    BY DEF AppStates
  <2> HIDE DEF t
  <2>3. /\ t \in AppType /\ t.state = "idle"
        /\ t.id = IF a.state = "disconnecting" THEN FALSE ELSE a.id
    BY <2>1, <2>2, SetStateResult
  <2>4. QED BY <1>2, <2>3 DEF t
<1>3. QED BY <1>1, <1>2

\* Back to advertising, or idle if the GATT bearer is off: the adverts run exactly
\* if it is on, whether or not they did before.
LEMMA AdvertisingResult ==
    ASSUME NEW a \in AppType, NEW on \in BOOLEAN,
           a.state \in {"init", "connected", "disconnecting"},
           a.id = FALSE
    PROVE  LET v == StartAdvertising(a, on) IN
           /\ v \in AppType /\ v.id = FALSE
           /\ v.state = IF on THEN "advertising" ELSE "idle"
           /\ v.adv = on
<1> DEFINE b == AppSetState(a, "advertising")
           v == StartAdvertising(a, on)
<1>1. "advertising" \in AppStates /\ a.state # "advertising"
  BY DEF AppStates
<1>2. b \in AppType /\ b.state = "advertising" /\ b.id = FALSE
  BY <1>1, SetStateResult
<1>3. v = GattTriggerConnectableAdverts(b, on)
  BY <1>1 DEF StartAdvertising
<1> HIDE DEF b, v
<1>4. CASE on = TRUE
  <2>1. v \in AppType /\ v.adv = TRUE /\ v.state = "advertising" /\ v.id = FALSE
    BY <1>2, <1>3, <1>4, TriggerResult
  <2>2. QED BY <1>4, <2>1 DEF v
<1>5. CASE on = FALSE
  <2>1. v = AppSetState(b, "idle")
    BY <1>3, <1>5 DEF GattTriggerConnectableAdverts
  <2>2. v \in AppType /\ v.state = "idle" /\ v.id = FALSE /\ v.adv = FALSE
    BY <1>2, <2>1, SetStateResult DEF AppStates
  <2>3. QED BY <1>5, <2>2 DEF v
<1>6. QED BY <1>4, <1>5

\* A timer is created: the one that was known before runs on unknown.
LEMMA TimerType ==
    ASSUME NEW c \in CpType, NEW k \in Timers
    PROVE  Forget(c) \in CpType /\ TimerCreate(c, k) \in CpType
<1> DEFINE f == [j \in Timers |-> IF j = c.tid THEN c.stray[j] + 1 ELSE c.stray[j]]
           d == Forget(c)
<1>1. c.stray \in [Timers -> Nat]
  BY DEF CpType
<1>2. f \in [Timers -> Nat]
  BY <1>1
<1>3. d = [c EXCEPT !.tid = "none", !.stray = f]
  BY DEF Forget
<1> HIDE DEF f, d
<1>4. d \in CpType
  BY <1>2, <1>3 DEF CpType
<1>5. TimerCreate(c, k) = [d EXCEPT !.tid = k]
  BY DEF TimerCreate, d
<1>6. TimerCreate(c, k) \in CpType
  BY <1>4, <1>5 DEF CpType
<1>7. QED BY <1>4, <1>6 DEF d

LEMMA ParamsType ==
    ASSUME NEW c \in CpType, NEW up \in BOOLEAN, NEW n \in 0 .. MaxRetry
    PROVE  processNewParams(c, up, n) \in CpType
BY DEF processNewParams, CpType

\* A new update changes nothing else of the application's data.
LEMMA RequestResult ==
    ASSUME NEW a \in AppType
    PROVE  LET r == AppRequestConnParamUpdate(a) IN
           r \in AppType /\ r.state = a.state /\ r.adv = a.adv /\ r.id = a.id
<1> DEFINE c == StopConnParamsUpdate(a.cp)
           q == processNewParams(c, FALSE, MaxRetry)
           u == processNewParams(c, TRUE, OnceRetry)
           p == [q EXCEPT !.active = FALSE]
           o == [u EXCEPT !.active = TRUE]
           e == IF a.otau THEN TimerCreate(o, "cpc") ELSE TimerCreate(p, "cpp")
           r == AppRequestConnParamUpdate(a)
<1>1. r = [a EXCEPT !.cp = e]
  BY DEF AppRequestConnParamUpdate, RequestConnParamsUpdate, RequestConnParamsUpdateOnce
<1>2. c \in CpType
  BY StopType DEF AppType
<1> HIDE DEF c
<1>3. MaxRetry \in 0 .. MaxRetry /\ OnceRetry \in 0 .. MaxRetry
  BY DEF MaxRetry, OnceRetry
<1>4. q \in CpType /\ u \in CpType
  BY <1>2, <1>3, ParamsType
<1> HIDE DEF q, u
<1>5. p \in CpType /\ o \in CpType
  BY <1>4 DEF CpType
<1> HIDE DEF p, o
<1>6. "cpp" \in Timers /\ "cpc" \in Timers
  BY DEF Timers
<1>7. e \in CpType
  BY <1>5, <1>6, TimerType
<1> HIDE DEF e, r
<1>8. r \in AppType /\ r.state = a.state /\ r.adv = a.adv /\ r.id = a.id
  BY <1>1, <1>7 DEF AppType
<1>9. QED BY <1>8 DEF r

LEMMA PauseType ==
    ASSUME NEW c \in CpType
    PROVE  handleGapCppTimerExpiry(c) \in CpType
<1> DEFINE t == TimerCreate(c, "cpc")
<1>1. handleGapCppTimerExpiry(c) = [t EXCEPT !.active = TRUE]
  BY DEF handleGapCppTimerExpiry
<1>2. t \in CpType
  BY TimerType DEF Timers
<1> HIDE DEF t
<1>3. QED BY <1>1, <1>2 DEF CpType

Statuses == {"success", "busy", "failed"}

\* The request has been made, is made again later, or has failed; the count of
\* retries stays at zero.
LEMMA MadeType ==
    ASSUME NEW c \in CpType, NEW status \in Statuses
    PROVE  requestConnParamUpdate(c, status) \in CpType
<1> DEFINE f == Forget(c)
           n == IF f.left > 0 THEN f.left - 1 ELSE f.left
           e == [f EXCEPT !.active = FALSE, !.left = n]
           d == requestConnParamUpdate(c, status)
<1>1. d = CASE status = "success" -> [e EXCEPT !.req = MaxInterval(c)]
            [] status = "busy" -> TimerCreate(e, "cpc")
            [] OTHER -> e
  BY DEF requestConnParamUpdate
<1>2. f \in CpType
  BY TimerType DEF Timers
<1> HIDE DEF f
<1>3. n \in 0 .. MaxRetry
  BY <1>2 DEF CpType, MaxRetry
<1> HIDE DEF n
<1>4. e \in CpType
  BY <1>2, <1>3 DEF CpType
<1> HIDE DEF e, d
<1>5. MaxInterval(c) \in {0, 8, 32, 96}
  BY DEF MaxInterval
<1>6. CASE status = "success"
  <2>1. d = [e EXCEPT !.req = MaxInterval(c)]
    BY <1>1, <1>6
  <2>2. d \in CpType
    BY <1>4, <1>5, <2>1 DEF CpType
  <2>3. QED BY <2>2 DEF d
<1>7. CASE status = "busy"
  <2>1. d = TimerCreate(e, "cpc")
    BY <1>1, <1>7
  <2>2. "cpc" \in Timers
    BY DEF Timers
  <2>3. d \in CpType
    BY <1>4, <2>1, <2>2, TimerType
  <2>4. QED BY <2>3 DEF d
<1>8. CASE status = "failed"
  BY <1>1, <1>4, <1>8 DEF d
<1>9. QED BY <1>6, <1>7, <1>8 DEF Statuses

LEMMA AnswerType ==
    ASSUME NEW c \in CpType, NEW ok \in BOOLEAN
    PROVE  handleConnParamUpdateCfm(c, ok) \in CpType
<1> DEFINE s == [c EXCEPT !.two = FALSE, !.set = 2, !.left = c.num]
           l == [c EXCEPT !.left = MaxRetry]
           d == handleConnParamUpdateCfm(c, ok)
<1>1. d = IF ok THEN c
          ELSE IF c.left > 0 THEN TimerCreate(c, "cpp")
          ELSE IF c.two THEN TimerCreate(s, "cpp") ELSE l
  BY DEF handleConnParamUpdateCfm
<1>2. c.num \in 0 .. MaxRetry /\ MaxRetry \in 0 .. MaxRetry /\ "cpp" \in Timers
  BY DEF CpType, MaxRetry, Timers
<1>3. s \in CpType /\ l \in CpType
  BY <1>2 DEF CpType
<1> HIDE DEF s, l, d
<1>4. TimerCreate(c, "cpp") \in CpType /\ TimerCreate(s, "cpp") \in CpType
  BY <1>2, <1>3, TimerType
<1>5. QED BY <1>1, <1>3, <1>4 DEF d

LEMMA AccessType ==
    ASSUME NEW c \in CpType
    PROVE  handleServerAccessed(c) \in CpType
BY DEF handleServerAccessed, CpType, Timers

LEMMA ToldType ==
    ASSUME NEW c \in CpType
    PROVE  Told(c) \in CpType
BY DEF Told, CpType

\* Nothing is open any more for the connection that ends.
LEMMA OverdueType ==
    ASSUME NEW c \in CpType
    PROVE  Overdue(c) \in CpType
<1> DEFINE n == IF c.req # 0 THEN c.late + 1 ELSE c.late
<1>1. n \in Nat
  BY DEF CpType
<1>2. Overdue(c) = [c EXCEPT !.req = 0, !.late = n]
  BY DEF Overdue
<1> HIDE DEF n
<1>3. QED BY <1>1, <1>2 DEF CpType

\* A timer goes off, the one that is known or one of the others.
LEMMA ExpiredType ==
    ASSUME app \in AppType, NEW k \in Timers, NEW c \in Expired(k)
    PROVE  c \in CpType
<1> DEFINE p == app.cp
           u == [p EXCEPT !.stray[k] = @ - 1]
<1>1. p \in CpType
  BY DEF AppType
<1>2. p.stray[k] \in Nat /\ p.stray \in [Timers -> Nat]
  BY <1>1 DEF CpType
<1>3. c \in (IF p.tid = k THEN {[p EXCEPT !.tid = "none"]} ELSE {})
            \cup (IF p.stray[k] > 0 THEN {u} ELSE {})
  BY DEF Expired
<1>4. (p.tid = k /\ c = [p EXCEPT !.tid = "none"]) \/ (p.stray[k] > 0 /\ c = u)
  BY <1>3
<1>5. CASE p.tid = k /\ c = [p EXCEPT !.tid = "none"]
  BY <1>1, <1>5 DEF CpType
<1>6. CASE p.stray[k] > 0 /\ c = u
  <2>1. [p.stray EXCEPT ![k] = @ - 1] \in [Timers -> Nat]
    BY <1>2, <1>6
  <2>2. c = [p EXCEPT !.stray = [p.stray EXCEPT ![k] = @ - 1]]
    BY <1>1, <1>6 DEF CpType
  <2>3. QED BY <1>1, <2>1, <2>2 DEF CpType
<1>7. QED BY <1>4, <1>5, <1>6

-----------------------------------------------------------------------------
(***************************************************************************)
(* The inductive invariants.                                               *)
(***************************************************************************)

Durations == Intervals \cup {0, 8, 32, 96}
Upgrades  == {"no", "wait", "run"}

Types ==
    /\ app \in AppType /\ cm \in {"down", "up", "closing"}
    /\ iv \in Durations /\ upd \in Durations /\ ota \in Upgrades
    /\ bridge \in BOOLEAN /\ assoc \in {"no", "started", "yes"}
    /\ stored \in BearerStates /\ applied \in BearerStates

\* Application and connection manager agree as far as they do whatever happens: a
\* free hub has no device, and advertises if its state says so; a hub that is
\* connected knows its device, whatever its state.
Agree ==
    /\ cm = "down" =>
         /\ app.id = FALSE /\ app.state \in {"advertising", "idle"}
         /\ app.state = "advertising" => app.adv = TRUE
    /\ cm = "up" => app.id = TRUE /\ app.state # "disconnecting"
    /\ cm # "down" /\ OfConnection(app.state) => app.id = TRUE

\* Once the hub has panicked, only the bearers are as they should be.
Link == (panic = "none" => Agree) /\ BearersFollowLink

\* The data after a start: nothing is left of the time before.
LEMMA BootedResult ==
    ASSUME stored \in BearerStates
    PROVE  /\ Booted \in AppType /\ Booted.id = FALSE
           /\ Booted.state = IF stored.gatt THEN "advertising" ELSE "idle"
           /\ Booted.adv = stored.gatt
<1> DEFINE a == AppDataInit(Reset)
           v == StartAdvertising(a, stored.gatt)
<1>1. Inactive \in CpType
  BY DEF Inactive, CpType, MaxRetry, Timers
<1>2. Reset \in AppType /\ Reset.state = "init"
  BY <1>1 DEF Reset, AppType, AppStates
<1>3. a \in AppType /\ a.state = "init" /\ a.id = FALSE
  BY <1>2, DataInitResult
<1>4. stored.gatt \in BOOLEAN
  BY DEF BearerStates
<1>5. Booted = v
  BY DEF Booted
<1> HIDE DEF a
<1>6. /\ v \in AppType /\ v.id = FALSE
      /\ v.state = IF stored.gatt THEN "advertising" ELSE "idle"
      /\ v.adv = stored.gatt
  BY <1>3, <1>4, AdvertisingResult
<1> HIDE DEF v
<1>7. QED BY <1>5, <1>6

\* A change of the parameter update's data is no change of anything else.
LEMMA CpStep ==
    ASSUME app \in AppType, NEW c \in CpType, app' = [app EXCEPT !.cp = c]
    PROVE  /\ app' \in AppType /\ app'.state = app.state /\ app'.adv = app.adv
           /\ app'.id = app.id
BY DEF AppType

\* The end of a connection: the hub is free and advertises, or it has panicked.
LEMMA DisconnectedResult ==
    ASSUME app \in AppType, stored \in BearerStates, Disconnected
    PROVE  /\ panic = "none" /\ cm # "down" /\ cm' = "down"
           /\ iv' = 0 /\ upd' = 0 /\ ota' = "no"
           /\ applied' = stored /\ UNCHANGED <<bridge, assoc, stored>>
           /\ app' \in AppType
           /\ panic' = "none" =>
                /\ OfConnection(app.state) /\ app'.id = FALSE
                /\ app'.state = IF stored.gatt THEN "advertising" ELSE "idle"
                /\ app'.adv = stored.gatt
<1> DEFINE c == Overdue(app.cp)
           b == [app EXCEPT !.cp = c]
           a == GaiaOtauInProgress(b, FALSE)
           d == AppDataInit(a)
           v == StartAdvertising(d, stored.gatt)
<1>1. /\ panic = "none" /\ cm # "down" /\ cm' = "down"
      /\ iv' = 0 /\ upd' = 0 /\ ota' = "no"
      /\ applied' = stored /\ UNCHANGED <<bridge, assoc, stored>>
  BY DEF Disconnected
<1>2. IF OfConnection(app.state) THEN app' = v /\ panic' = panic
      ELSE app' = a /\ panic' = "app_panic_invalid_state"
  BY DEF Disconnected
<1>3. c \in CpType
  BY OverdueType DEF AppType
<1> HIDE DEF c
<1>4. b \in AppType /\ b.state = app.state
  BY <1>3 DEF AppType
<1> HIDE DEF b
<1>5. a \in AppType /\ a.state = app.state
  BY <1>4 DEF AppType, GaiaOtauInProgress
<1> HIDE DEF a
<1>6. d \in AppType /\ d.state = app.state /\ d.id = FALSE
  BY <1>5, DataInitResult
<1> HIDE DEF d
<1>7. stored.gatt \in BOOLEAN
  BY DEF BearerStates
<1>8. CASE OfConnection(app.state)
  <2>1. d.state \in {"init", "connected", "disconnecting"}
    BY <1>6, <1>8 DEF OfConnection
  <2>2. /\ v \in AppType /\ v.id = FALSE
        /\ v.state = IF stored.gatt THEN "advertising" ELSE "idle"
        /\ v.adv = stored.gatt
    BY <1>6, <1>7, <2>1, AdvertisingResult
  <2> HIDE DEF v
  <2>3. QED BY <1>1, <1>2, <1>8, <2>2
<1>9. CASE ~OfConnection(app.state)
  <2>1. app' = a /\ panic' # "none"
    BY <1>2, <1>9
  <2>2. QED BY <1>1, <1>5, <2>1
<1>10. QED BY <1>8, <1>9

\* A request is made for a device, or the hub panics.
LEMMA RequestStep ==
    ASSUME Types, NEW c \in CpType, NEW status \in Statuses, Request(c, status)
    PROVE  /\ app' \in AppType /\ app'.state = app.state /\ app'.adv = app.adv
           /\ app'.id = app.id /\ ota' \in Upgrades
<1>1. CASE ~c.id
  BY <1>1 DEF Request, Types
<1>2. CASE c.id
  <2> DEFINE r == requestConnParamUpdate(c, status)
             d == IF status = "failed" THEN Told(r) ELSE r
  <2>1. /\ app' = [app EXCEPT !.cp = d]
        /\ ota' = IF status = "failed" THEN Continues ELSE ota
    BY <1>2 DEF Request
  <2>2. r \in CpType
    BY MadeType
  <2> HIDE DEF r
  <2>3. d \in CpType
    BY <2>2, ToldType
  <2> HIDE DEF d
  <2>4. /\ app' \in AppType /\ app'.state = app.state /\ app'.adv = app.adv
        /\ app'.id = app.id
    BY <2>1, <2>3, CpStep DEF Types
  <2>5. ota' \in Upgrades
    BY <2>1 DEF Continues, Types, Upgrades
  <2>6. QED BY <2>4, <2>5
<1>3. QED BY <1>1, <1>2

\* A refusal, of this connection's request or of a former one's.
LEMMA RefuseStep ==
    ASSUME Types, NEW c \in CpType, Refuse(c)
    PROVE  /\ app' \in AppType /\ app'.state = app.state /\ app'.adv = app.adv
           /\ app'.id = app.id /\ ota' \in Upgrades
<1> DEFINE d == handleConnParamUpdateCfm(c, FALSE)
           g == c.left = 0 /\ ~c.two
           e == IF g THEN Told(d) ELSE d
<1>1. app' = [app EXCEPT !.cp = e] /\ ota' = IF g THEN Continues ELSE ota
  BY DEF Refuse
<1>2. d \in CpType
  BY AnswerType
<1> HIDE DEF d, g
<1>3. e \in CpType
  BY <1>2, ToldType
<1> HIDE DEF e
<1>4. /\ app' \in AppType /\ app'.state = app.state /\ app'.adv = app.adv
      /\ app'.id = app.id
  BY <1>1, <1>3, CpStep DEF Types
<1>5. ota' \in Upgrades
  BY <1>1 DEF Continues, Types, Upgrades
<1>6. QED BY <1>4, <1>5

\* An upgrade starts, with the parameters as they are or on the way to its own.
LEMMA UpgradeResult ==
    ASSUME Types, UpgradeStarts
    PROVE  /\ ota' \in Upgrades /\ UNCHANGED <<cm, iv, upd, bearers, panic>>
           /\ app' \in AppType /\ app'.state = app.state /\ app'.adv = app.adv
           /\ app'.id = app.id
<1> DEFINE a == GaiaOtauInProgress(app, TRUE)
           c == StopConnParamsUpdate(a.cp)
           t == [a.cp EXCEPT !.cb = TRUE]
           w == [a EXCEPT !.cp = t]
           r == AppRequestConnParamUpdate(w)
<1>1. /\ ota' \in Upgrades /\ UNCHANGED <<cm, iv, upd, bearers, panic>>
      /\ app' = [a EXCEPT !.cp = c] \/ app' = r
  BY DEF UpgradeStarts, Upgrades
<1>2. /\ a \in AppType /\ a.state = app.state /\ a.adv = app.adv /\ a.id = app.id
      /\ a.cp \in CpType
  BY DEF GaiaOtauInProgress, Types, AppType
<1> HIDE DEF a
<1>3. c \in CpType
  BY <1>2, StopType
<1>4. t \in CpType
  BY <1>2 DEF CpType
<1> HIDE DEF c, t
<1>5. /\ w \in AppType /\ w.state = app.state /\ w.adv = app.adv /\ w.id = app.id
  BY <1>2, <1>4 DEF AppType
<1> HIDE DEF w
<1>6. r \in AppType /\ r.state = app.state /\ r.adv = app.adv /\ r.id = app.id
  BY <1>5, RequestResult
<1> HIDE DEF r
<1>7. CASE app' = [a EXCEPT !.cp = c]
  BY <1>1, <1>2, <1>3, <1>7 DEF AppType
<1>8. CASE app' = r
  BY <1>1, <1>6, <1>8
<1>9. QED BY <1>1, <1>7, <1>8

-----------------------------------------------------------------------------
(***************************************************************************)
(* The initial states.                                                     *)
(***************************************************************************)

LEMMA InitInvariants == Init => Types /\ Link
<1> SUFFICES ASSUME Init PROVE Types /\ Link
  OBVIOUS
<1>1. /\ bridge \in BOOLEAN /\ assoc \in {"no", "started", "yes"}
      /\ stored \in BearerStates /\ applied = stored
  BY DEF Init
<1>2. app = Booted /\ cm = "down" /\ iv = 0 /\ upd = 0 /\ ota = "no"
  BY DEF Init
<1>3. Types
  BY <1>1, <1>2, BootedResult DEF Types, Durations, Upgrades
<1>4. stored.gatt \in BOOLEAN
  BY <1>1 DEF BearerStates
<1>5. Link
  BY <1>1, <1>2, <1>4, BootedResult DEF Link, Agree, BearersFollowLink
<1>6. QED BY <1>3, <1>5

-----------------------------------------------------------------------------
(***************************************************************************)
(* The steps that leave connection, adverts and bearers as they are.       *)
(***************************************************************************)

ParamsActions ==
    \/ HostAccess \/ UpgradeStarts \/ PauseEnds \/ RequestDue \/ UpdateAccepted
    \/ UpdateRefused \/ LateRefusal \/ HostUpdates

LEMMA ParamsStep ==
    ASSUME Types, ParamsActions
    PROVE  /\ UNCHANGED <<cm, bearers>>
           /\ app'.state = app.state /\ app'.adv = app.adv /\ app'.id = app.id
           /\ panic = "none" /\ Types'
<1>0. app \in AppType /\ app.cp \in CpType /\ "cpp" \in Timers /\ "cpc" \in Timers
  BY DEF Types, AppType, Timers
<1> DEFINE Result == /\ app' \in AppType /\ app'.state = app.state
                     /\ app'.adv = app.adv /\ app'.id = app.id
                     /\ ota' \in Upgrades
<1>1. CASE HostAccess
  <2> DEFINE d == handleServerAccessed(app.cp)
  <2>1. app' = [app EXCEPT !.cp = d] /\ panic = "none" /\ UNCHANGED <<conn, bearers>>
    BY <1>1 DEF HostAccess, Event
  <2>2. d \in CpType
    BY <1>0, AccessType
  <2> HIDE DEF d
  <2>3. Result
    BY <1>0, <2>1, <2>2, CpStep DEF Types, conn
  <2>4. QED BY <2>1, <2>3 DEF Types, conn, bearers
<1>2. CASE UpgradeStarts
  <2>1. Result /\ UNCHANGED <<cm, iv, upd, bearers>>
    BY <1>2, UpgradeResult
  <2>2. panic = "none"
    BY <1>2 DEF UpgradeStarts, Running
  <2>3. QED BY <2>1, <2>2 DEF Types, bearers
<1>3. CASE PauseEnds
  <2>1. PICK c \in Expired("cpp") : app' = [app EXCEPT !.cp = handleGapCppTimerExpiry(c)]
    BY <1>3 DEF PauseEnds
  <2> DEFINE d == handleGapCppTimerExpiry(c)
  <2>2. d \in CpType
    BY <1>0, ExpiredType, PauseType
  <2>3. app' = [app EXCEPT !.cp = d]
    BY <2>1
  <2> HIDE DEF d
  <2>4. panic = "none" /\ UNCHANGED <<conn, bearers>>
    BY <1>3 DEF PauseEnds, Running
  <2>5. Result
    BY <1>0, <2>2, <2>3, <2>4, CpStep DEF Types, conn
  <2>6. QED BY <2>4, <2>5 DEF Types, conn, bearers
<1>4. CASE RequestDue
  <2>1. PICK c \in Expired("cpc"), status \in Statuses :
           /\ Running \/ Event
           /\ Request(c, status) /\ UNCHANGED <<cm, iv, upd, bearers, conns>>
    BY <1>4 DEF RequestDue, Statuses
  <2>2. c \in CpType
    BY <1>0, ExpiredType
  <2>3. Result
    BY <2>1, <2>2, RequestStep
  <2>4. panic = "none"
    BY <2>1 DEF Running, Event
  <2>5. QED BY <2>1, <2>3, <2>4 DEF Types, bearers
<1>5. CASE UpdateAccepted
  <2> DEFINE c == [app.cp EXCEPT !.req = 0]
             d == handleConnParamUpdateCfm(c, TRUE)
  <2>1. /\ app' = [app EXCEPT !.cp = d] /\ upd' = app.cp.req /\ panic = "none"
        /\ UNCHANGED <<cm, iv, ota, bearers>>
    BY <1>5 DEF UpdateAccepted, Running, Answered
  <2>2. c \in CpType
    BY <1>0 DEF CpType
  <2> HIDE DEF c
  <2>3. d \in CpType
    BY <2>2, AnswerType
  <2> HIDE DEF d
  <2>4. Result
    BY <1>0, <2>1, <2>3, CpStep DEF Types
  <2>5. upd' \in Durations
    BY <1>0, <2>1 DEF CpType, Durations
  <2>6. QED BY <2>1, <2>4, <2>5 DEF Types, bearers
<1>6. CASE UpdateRefused
  <2> DEFINE c == [app.cp EXCEPT !.req = 0]
  <2>1. Refuse(c) /\ panic = "none" /\ UNCHANGED <<cm, iv, upd, bearers>>
    BY <1>6 DEF UpdateRefused, Running, Answered
  <2>2. c \in CpType
    BY <1>0 DEF CpType
  <2> HIDE DEF c
  <2>3. Result
    BY <2>1, <2>2, RefuseStep
  <2>4. QED BY <2>1, <2>3 DEF Types, bearers
<1>7. CASE LateRefusal
  <2> DEFINE n == app.cp.late - 1
             c == [app.cp EXCEPT !.late = n]
  <2>1. Refuse(c) /\ panic = "none" /\ app.cp.late > 0 /\ UNCHANGED <<cm, iv, upd, bearers>>
    BY <1>7 DEF LateRefusal, Running
  <2>2. n \in Nat
    BY <1>0, <2>1 DEF CpType
  <2> HIDE DEF n
  <2>3. c \in CpType
    BY <1>0, <2>2 DEF CpType
  <2> HIDE DEF c
  <2>4. Result
    BY <2>1, <2>3, RefuseStep
  <2>5. QED BY <2>1, <2>4 DEF Types, bearers
<1>8. CASE HostUpdates
  <2>1. panic = "none" /\ upd' \in Durations /\ UNCHANGED <<cm, iv, bearers>>
    BY <1>8 DEF HostUpdates, Event, Durations
  <2>2. UNCHANGED <<app, ota>> \/ \E status \in Statuses : Request(app.cp, status)
    BY <1>8 DEF HostUpdates, Statuses
  <2>3. Result
    <3>1. CASE UNCHANGED <<app, ota>>
      BY <3>1 DEF Types
    <3>2. CASE \E status \in Statuses : Request(app.cp, status)
      BY <1>0, <3>2, RequestStep
    <3>3. QED BY <2>2, <3>1, <3>2
  <2>4. QED BY <2>1, <2>3 DEF Types, bearers
<1>9. QED BY <1>1, <1>2, <1>3, <1>4, <1>5, <1>6, <1>7, <1>8 DEF ParamsActions

-----------------------------------------------------------------------------
(***************************************************************************)
(* The other steps, one by one: types, and what becomes of the link.       *)
(***************************************************************************)

LEMMA ConnectStep ==
    ASSUME Types, Connect
    PROVE  /\ Types' /\ cm = "down" /\ cm' = "up" /\ panic = "none"
           /\ applied'.prom = TRUE
           /\ Agree => app'.id = TRUE /\ app'.state = "connected"
<1> DEFINE b == [app EXCEPT !.id = TRUE]
           a == AppSetState(b, "connected")
<1>1. /\ cm = "down" /\ cm' = "up" /\ panic = "none" /\ iv' \in Durations
      /\ UNCHANGED <<upd, ota, bridge, assoc, stored>>
      /\ applied' = [stored EXCEPT !.prom = TRUE]
      /\ app' = AppRequestConnParamUpdate(a)
  BY DEF Connect, Running, Durations
<1>2. b \in AppType /\ b.id = TRUE /\ b.state = app.state
  BY DEF Types, AppType
<1> HIDE DEF b
<1>3. /\ a \in AppType /\ a.state = "connected"
      /\ app.state # "disconnecting" => a.id = TRUE
  <2>1. "connected" \in AppStates
    BY DEF AppStates
  <2>2. /\ a \in AppType /\ a.state = "connected"
        /\ a.id = IF b.state = "disconnecting" /\ "connected" # b.state
                  THEN FALSE ELSE b.id
    BY <1>2, <2>1, SetStateResult
  <2>3. QED BY <1>2, <2>2
<1> HIDE DEF a
<1>4. app' \in AppType /\ app'.state = a.state /\ app'.id = a.id
  BY <1>1, <1>3, RequestResult
<1>5. applied' \in BearerStates /\ applied'.prom = TRUE
  BY <1>1 DEF Types, BearerStates
<1>6. Types'
  BY <1>1, <1>4, <1>5 DEF Types
<1>7. Agree => app'.id = TRUE /\ app'.state = "connected"
  BY <1>1, <1>3, <1>4 DEF Agree
<1>8. QED BY <1>1, <1>5, <1>6, <1>7

LEMMA PairingStep ==
    ASSUME Types, PairingFails
    PROVE  /\ Types' /\ cm = "up" /\ cm' \in {"up", "closing"} /\ panic = "none"
           /\ UNCHANGED bearers
           /\ app'.state = "disconnecting"
           /\ Agree => app'.id = TRUE /\ cm' = "closing"
<1>1. /\ cm = "up" /\ panic = "none" /\ UNCHANGED <<iv, upd, ota, bearers>>
      /\ app' = AppSetState(app, "disconnecting")
      /\ cm' = IF app.state # "disconnecting" /\ app.id THEN "closing" ELSE cm
  BY DEF PairingFails, Event
<1>2. /\ app' \in AppType /\ app'.state = "disconnecting"
      /\ app'.id = app.id
  <2>1. "disconnecting" \in AppStates /\ app \in AppType
    BY DEF AppStates, Types
  <2>2. /\ app' \in AppType /\ app'.state = "disconnecting"
        /\ app'.id = IF app.state = "disconnecting" /\ "disconnecting" # app.state
                     THEN FALSE ELSE app.id
    BY <1>1, <2>1, SetStateResult
  <2>3. QED BY <2>2
<1>3. Types'
  BY <1>1, <1>2 DEF Types, bearers
<1>4. QED BY <1>1, <1>2, <1>3 DEF Agree

\* The advert timer: with the bearer on nothing but the next advert, with the
\* bearer off the end of whatever state the application is in.
LEMMA AdvertStep ==
    ASSUME Types, gattAdvertTimerHandler
    PROVE  /\ Types' /\ panic = "none" /\ app.adv = TRUE /\ UNCHANGED <<cm, bearers, panic>>
           /\ stored.gatt = TRUE =>
                app'.adv = TRUE /\ app'.state = app.state /\ app'.id = app.id
           /\ stored.gatt = FALSE =>
                /\ app'.state = "idle"
                /\ app'.id = IF app.state = "disconnecting" THEN FALSE ELSE app.id
<1> DEFINE b == [app EXCEPT !.adv = FALSE]
<1>1. /\ panic = "none" /\ app.adv /\ UNCHANGED <<conn, bearers, panic>>
      /\ app' = GattTriggerConnectableAdverts(b, stored.gatt)
  BY DEF gattAdvertTimerHandler, Running
<1>2. b \in AppType /\ b.state = app.state /\ b.id = app.id /\ app.adv \in BOOLEAN
  BY DEF Types, AppType
<1> HIDE DEF b
<1>3. stored.gatt \in BOOLEAN
  BY DEF Types, BearerStates
<1>4. /\ app' \in AppType
      /\ stored.gatt = TRUE =>
           app'.adv = TRUE /\ app'.state = app.state /\ app'.id = app.id
      /\ stored.gatt = FALSE =>
           /\ app'.state = "idle"
           /\ app'.id = IF app.state = "disconnecting" THEN FALSE ELSE app.id
  <2> DEFINE t == GattTriggerConnectableAdverts(b, stored.gatt)
  <2>1. /\ t \in AppType
        /\ stored.gatt = TRUE => t.adv = TRUE /\ t.state = b.state /\ t.id = b.id
        /\ stored.gatt = FALSE =>
             /\ t.state = "idle"
             /\ t.id = IF b.state = "disconnecting" THEN FALSE ELSE b.id
    BY <1>2, <1>3, TriggerResult
  <2>2. app' = t
    BY <1>1
  <2> HIDE DEF t
  <2>3. CASE stored.gatt = TRUE
    BY <1>2, <2>1, <2>2, <2>3
  <2>4. CASE stored.gatt = FALSE
    BY <1>2, <2>1, <2>2, <2>4
  <2>5. QED BY <1>3, <2>3, <2>4
<1>5. Types'
  BY <1>1, <1>4 DEF Types, conn, bearers
<1>6. QED BY <1>1, <1>2, <1>4, <1>5 DEF conn

\* A bearer event of a connected hub is stored; of any other it is applied.
LEMMA BearerStep ==
    ASSUME Types, BearerStateEvent
    PROVE  /\ Types' /\ panic = "none" /\ UNCHANGED <<cm, panic>>
           /\ app.id = TRUE => UNCHANGED <<app, applied>>
           /\ app.id = FALSE =>
                /\ applied' = stored'
                /\ stored'.gatt = TRUE =>
                     app'.adv = TRUE /\ app'.state = app.state /\ app'.id = FALSE
                /\ stored'.gatt = FALSE => app'.state = "idle" /\ app'.id = FALSE
<1>1. /\ panic = "none" /\ UNCHANGED <<conn, bridge, assoc, panic>>
      /\ stored' \in BearerStates
      /\ IF app.id THEN UNCHANGED <<app, applied>>
         ELSE /\ app' = GattTriggerConnectableAdverts(app, stored'.gatt)
              /\ applied' = stored'
  BY DEF BearerStateEvent, Event
<1>2. app \in AppType /\ app.id \in BOOLEAN /\ stored'.gatt \in BOOLEAN
  BY <1>1 DEF Types, AppType, BearerStates
<1>3. CASE app.id = TRUE
  BY <1>1, <1>3 DEF Types, conn
<1>4. CASE app.id = FALSE
  <2>1. /\ app' = GattTriggerConnectableAdverts(app, stored'.gatt)
        /\ applied' = stored'
    BY <1>1, <1>4
  <2>2. /\ app' \in AppType
        /\ stored'.gatt = TRUE =>
             app'.adv = TRUE /\ app'.state = app.state /\ app'.id = FALSE
        /\ stored'.gatt = FALSE => app'.state = "idle" /\ app'.id = FALSE
    BY <1>2, <1>4, <2>1, TriggerResult
  <2>3. Types'
    BY <1>1, <2>1, <2>2 DEF Types, conn
  <2>4. QED BY <1>1, <1>4, <2>1, <2>2, <2>3 DEF conn
<1>5. QED BY <1>2, <1>3, <1>4

\* The association: the bearers follow it, the adverts do not.
AssociationActions ==
    AssociationStarted \/ AssociationFailed \/ AssociationComplete \/ RemoveAssociation

LEMMA AssociationStep ==
    ASSUME Types, AssociationActions
    PROVE  /\ Types' /\ panic = "none" /\ UNCHANGED <<app, cm, panic>>
           /\ \/ UNCHANGED <<stored, applied>>
              \/ /\ stored'.gatt = stored.gatt
                 /\ applied' = IF app.id THEN applied ELSE stored'
              \/ /\ assoc # "no" /\ assoc' = "no"
                 /\ applied' = stored' /\ applied'.prom = TRUE
<1>1. panic = "none" /\ UNCHANGED <<app, conn, bridge, panic>>
  BY DEF AssociationActions, AssociationStarted, AssociationFailed,
         AssociationComplete, RemoveAssociation, Event, Running
<1>2. CASE AssociationStarted \/ AssociationFailed
  BY <1>1, <1>2 DEF AssociationStarted, AssociationFailed, Types, conn
<1>3. CASE AssociationComplete
  <2>1. stored' = [stored EXCEPT !.prom = FALSE] /\ assoc' = "yes"
    BY <1>3 DEF AssociationComplete
  <2>2. stored' \in BearerStates /\ stored'.gatt = stored.gatt
    BY <2>1 DEF Types, BearerStates
  <2>3. applied' = IF app.id THEN applied ELSE stored'
    BY <1>3 DEF AssociationComplete
  <2>4. QED BY <1>1, <2>1, <2>2, <2>3 DEF Types, conn
<1>4. CASE RemoveAssociation
  <2>1. /\ assoc # "no" /\ assoc' = "no"
        /\ stored' = Unassociated /\ applied' = Unassociated
    BY <1>4 DEF RemoveAssociation
  <2>2. Unassociated \in BearerStates /\ Unassociated.prom = TRUE
    BY DEF Unassociated, Types, BearerStates
  <2>3. QED BY <1>1, <2>1, <2>2 DEF Types, conn
<1>5. QED BY <1>2, <1>3, <1>4 DEF AssociationActions

\* The connection has been updated, or the application has panicked.
LEMMA UpdatedStep ==
    ASSUME Types, ConnectionUpdated
    PROVE  /\ Types' /\ panic = "none" /\ UNCHANGED <<cm, bearers>>
           /\ app'.state = app.state /\ app'.adv = app.adv
           /\ OfConnection(app.state) => app'.id = TRUE
           /\ ~OfConnection(app.state) => panic' # "none"
<1>1. panic = "none" /\ upd' = 0 /\ UNCHANGED <<cm, bearers>>
  BY DEF ConnectionUpdated, Running
<1>2. CASE OfConnection(app.state)
  <2> DEFINE b == [app EXCEPT !.id = TRUE]
             c == Told(app.cp)
  <2>1. app' = [b EXCEPT !.cp = c] /\ iv' = upd /\ ota' = Continues
    BY <1>2 DEF ConnectionUpdated
  <2>2. c \in CpType
    BY ToldType DEF Types, AppType
  <2>3. b \in AppType /\ b.id = TRUE /\ b.state = app.state /\ b.adv = app.adv
    BY DEF Types, AppType
  <2> HIDE DEF b, c
  <2>4. app' \in AppType /\ app'.id = TRUE /\ app'.state = app.state /\ app'.adv = app.adv
    BY <2>1, <2>2, <2>3 DEF AppType
  <2>5. ota' \in Upgrades
    BY <2>1 DEF Continues, Types, Upgrades
  <2>6. Types'
    BY <1>1, <2>1, <2>4, <2>5 DEF Types, Durations, bearers
  <2>7. QED BY <1>1, <1>2, <2>4, <2>6
<1>3. CASE ~OfConnection(app.state)
  <2>1. UNCHANGED <<app, iv, ota>> /\ panic' = "app_panic_invalid_state"
    BY <1>3 DEF ConnectionUpdated
  <2>2. Types'
    BY <1>1, <2>1 DEF Types, Durations, bearers
  <2>3. QED BY <1>1, <1>3, <2>1, <2>2
<1>4. QED BY <1>2, <1>3

\* A restart.
LEMMA PowerStep ==
    ASSUME Types, PowerCycle
    PROVE  /\ Types' /\ panic = "none" /\ cm' = "down" /\ applied' = stored
           /\ stored' = stored /\ app'.id = FALSE
           /\ app'.state = IF stored.gatt THEN "advertising" ELSE "idle"
           /\ app'.adv = stored.gatt
<1>1. /\ panic = "none" /\ cm' = "down" /\ iv' = 0 /\ upd' = 0 /\ ota' = "no"
      /\ applied' = stored /\ app' = Booted /\ UNCHANGED <<bridge, stored>>
      /\ assoc' \in {"no", "started", "yes"}
  BY DEF PowerCycle, Event, Types
<1>2. QED BY <1>1, BootedResult DEF Types, Durations, Upgrades

-----------------------------------------------------------------------------
(***************************************************************************)
(* What every step keeps, and what it may not do.                          *)
(***************************************************************************)

LEMMA NextCases ==
    ASSUME [Next]_vars
    PROVE  \/ ParamsActions \/ Connect \/ PairingFails \/ HangUp
           \/ Disconnected \/ PowerCycle \/ gattAdvertTimerHandler
           \/ BearerStateEvent \/ AssociationActions \/ ConnectionUpdated
           \/ UNCHANGED vars
BY DEF Next, LinkLost, HungUp, ParamsActions, AssociationActions

LEMMA NextTypes ==
    ASSUME Types, [Next]_vars
    PROVE  Types'
<1>1. CASE HangUp
  BY <1>1 DEF HangUp, Types, bearers
<1>2. CASE Disconnected
  BY <1>2, DisconnectedResult DEF Types, Durations, Upgrades
<1>3. CASE UNCHANGED vars
  BY <1>3 DEF Types, vars
<1>4. QED
  BY <1>1, <1>2, <1>3, NextCases, ParamsStep, ConnectStep, PairingStep, AdvertStep,
     BearerStep, AssociationStep, UpdatedStep, PowerStep

LEMMA LinkStep ==
    ASSUME Types, Link, [Next]_vars
    PROVE  Link'
<1>0. app.id \in BOOLEAN /\ stored.gatt \in BOOLEAN /\ applied.prom \in BOOLEAN
  BY DEF Types, AppType, BearerStates
<1>1. CASE ParamsActions
  BY <1>1, ParamsStep DEF Link, Agree, BearersFollowLink, bearers
<1>2. CASE Connect
  <2>1. Agree'
    BY <1>2, ConnectStep DEF Link, Agree
  <2>2. QED BY <1>2, <2>1, ConnectStep DEF Link, BearersFollowLink
<1>3. CASE PairingFails
  <2>1. Agree'
    BY <1>3, PairingStep DEF Link, Agree
  <2>2. QED BY <1>3, <2>1, PairingStep DEF Link, BearersFollowLink, bearers
<1>4. CASE HangUp
  <2>1. /\ cm = "up" /\ cm' = "closing" /\ panic = "none"
        /\ UNCHANGED <<app, bearers, panic>>
    BY <1>4 DEF HangUp, Event
  <2>2. Agree'
    BY <2>1 DEF Link, Agree
  <2>3. QED BY <2>1, <2>2 DEF Link, BearersFollowLink
<1>5. CASE Disconnected
  <2>1. /\ cm' = "down" /\ applied' = stored /\ stored' = stored
        /\ panic' = "none" =>
             /\ app'.id = FALSE
             /\ app'.state = IF stored.gatt THEN "advertising" ELSE "idle"
             /\ app'.adv = stored.gatt
    BY <1>5, DisconnectedResult DEF Types
  <2>2. panic' = "none" => Agree'
    BY <1>0, <2>1 DEF Agree
  <2>3. QED BY <2>1, <2>2 DEF Link, BearersFollowLink
<1>6. CASE PowerCycle
  <2>1. Agree'
    BY <1>0, <1>6, PowerStep DEF Agree
  <2>2. QED BY <1>6, <2>1, PowerStep DEF Link, BearersFollowLink
<1>7. CASE gattAdvertTimerHandler
  <2>1. Agree
    BY <1>7, AdvertStep DEF Link
  <2>2. Agree'
    <3>1. CASE stored.gatt = TRUE
      BY <1>7, <2>1, <3>1, AdvertStep DEF Agree
    <3>2. CASE stored.gatt = FALSE
      BY <1>7, <2>1, <3>2, AdvertStep DEF Agree, OfConnection
    <3>3. QED BY <1>0, <3>1, <3>2
  <2>3. QED BY <1>7, <2>2, AdvertStep DEF Link, BearersFollowLink, bearers
<1>8. CASE BearerStateEvent
  <2>1. Agree /\ BearersFollowLink
    BY <1>8, BearerStep DEF Link
  <2>2. stored'.gatt \in BOOLEAN
    BY NextTypes DEF Types, BearerStates
  <2>3. CASE app.id = TRUE
    <3>1. cm # "down" /\ UNCHANGED <<app, applied, cm>>
      BY <1>8, <2>1, <2>3, BearerStep DEF Agree
    <3>2. QED BY <2>1, <3>1 DEF Link, Agree, BearersFollowLink
  <2>4. CASE app.id = FALSE
    <3>1. /\ cm # "up" /\ cm' = cm /\ applied' = stored' /\ app'.id = FALSE
          /\ app'.state = app.state \/ app'.state = "idle"
          /\ app'.state # "idle" => app'.adv = TRUE
      BY <1>8, <2>1, <2>2, <2>4, BearerStep DEF Agree
    <3>2. Agree'
      BY <2>1, <2>4, <3>1 DEF Agree, OfConnection
    <3>3. QED BY <3>1, <3>2 DEF Link, BearersFollowLink
  <2>5. QED BY <1>0, <2>3, <2>4
<1>9. CASE AssociationActions
  <2>1. Agree /\ BearersFollowLink /\ UNCHANGED <<app, cm>>
    BY <1>9, AssociationStep DEF Link
  <2>2. Agree'
    BY <2>1 DEF Agree
  <2>3. BearersFollowLink'
    <3>1. \/ UNCHANGED <<stored, applied>>
          \/ applied' = IF app.id THEN applied ELSE stored'
          \/ applied' = stored' /\ applied'.prom = TRUE
      BY <1>9, AssociationStep
    <3>2. CASE UNCHANGED <<stored, applied>>
      BY <2>1, <3>2 DEF BearersFollowLink
    <3>3. CASE applied' = IF app.id THEN applied ELSE stored'
      <4>1. cm = "down" => applied' = stored'
        BY <2>1, <3>3 DEF Agree
      <4>2. cm = "up" => applied' = applied
        BY <2>1, <3>3 DEF Agree
      <4>3. QED BY <2>1, <4>1, <4>2 DEF BearersFollowLink
    <3>4. CASE applied' = stored' /\ applied'.prom = TRUE
      BY <3>4 DEF BearersFollowLink
    <3>5. QED BY <3>1, <3>2, <3>3, <3>4
  <2>4. QED BY <2>2, <2>3 DEF Link
<1>10. CASE ConnectionUpdated
  <2>1. ASSUME panic' = "none"
        PROVE  Agree'
    <3>1. /\ OfConnection(app.state) /\ app'.state = app.state /\ app'.id = TRUE
          /\ panic = "none" /\ cm' = cm
      BY <1>10, <2>1, UpdatedStep
    <3>2. cm # "down" /\ (cm = "up" => app.state # "disconnecting")
      BY <3>1 DEF Link, Agree, OfConnection
    <3>3. QED BY <3>1, <3>2 DEF Agree
  <2>2. QED BY <1>10, <2>1, UpdatedStep DEF Link, BearersFollowLink, bearers
<1>11. CASE UNCHANGED vars
  BY <1>11 DEF Link, Agree, BearersFollowLink, vars
<1>12. QED
  BY <1>1, <1>2, <1>3, <1>4, <1>5, <1>6, <1>7, <1>8, <1>9, <1>10, <1>11, NextCases

\* The adverts stop only in the one way that is known.
LEMMA FindableStep ==
    ASSUME Types, Link, [Next]_vars, Findable, ~Findable'
    PROVE  app.state = "idle" /\ assoc # "no" /\ assoc' = "no"
<1>0. /\ panic' = "none" /\ cm' = "down" /\ stored'.gatt /\ app'.adv # TRUE
      /\ app'.adv \in BOOLEAN /\ stored'.gatt = TRUE
  BY NextTypes DEF Findable, Types, AppType, BearerStates
<1>1. stored.gatt \in BOOLEAN /\ app.id \in BOOLEAN /\ app.adv \in BOOLEAN
  BY DEF Types, AppType, BearerStates
<1>2. CASE ParamsActions
  BY <1>0, <1>2, ParamsStep DEF Findable, bearers
<1>3. CASE Connect \/ PairingFails \/ HangUp
  BY <1>0, <1>3, ConnectStep, PairingStep DEF HangUp
<1>4. CASE Disconnected
  BY <1>0, <1>4, DisconnectedResult DEF Types
<1>5. CASE PowerCycle
  BY <1>0, <1>5, PowerStep
<1>6. CASE gattAdvertTimerHandler
  BY <1>0, <1>6, AdvertStep DEF bearers
<1>7. CASE BearerStateEvent
  <2>1. cm = "down" /\ panic = "none"
    BY <1>0, <1>7, BearerStep
  <2>2. app.id = FALSE
    BY <2>1 DEF Link, Agree
  <2>3. QED BY <1>0, <1>7, <2>2, BearerStep
<1>8. CASE AssociationActions
  <2>1. cm = "down" /\ panic = "none" /\ app' = app /\ app.adv # TRUE
    BY <1>0, <1>8, AssociationStep
  <2>2. app.state = "idle"
    BY <2>1 DEF Link, Agree
  <2>3. stored.gatt # TRUE
    BY <2>1 DEF Findable
  <2>4. QED BY <1>0, <1>8, <2>1, <2>2, <2>3, AssociationStep
<1>9. CASE ConnectionUpdated
  <2>1. panic = "none" /\ cm = "down" /\ OfConnection(app.state)
    BY <1>0, <1>9, UpdatedStep
  <2>2. QED BY <2>1 DEF Link, Agree, OfConnection
<1>10. CASE UNCHANGED vars
  BY <1>0, <1>10 DEF Findable, vars
<1>11. QED
  BY <1>2, <1>3, <1>4, <1>5, <1>6, <1>7, <1>8, <1>9, <1>10, NextCases

\* The application leaves the states of a connection only as it is known to.
LEMMA ConnectedStep ==
    ASSUME Types, Link, [Next]_vars, cm # "down", cm' # "down",
           OfConnection(app.state), ~OfConnection(app'.state)
    PROVE  app.adv /\ ~stored.gatt
<1>1. stored.gatt \in BOOLEAN /\ app.id \in BOOLEAN /\ app.adv \in BOOLEAN
  BY DEF Types, AppType, BearerStates
<1>2. CASE gattAdvertTimerHandler
  BY <1>1, <1>2, AdvertStep
<1>3. CASE BearerStateEvent
  <2>1. app.id = TRUE
    BY <1>3, BearerStep DEF Link, Agree
  <2>2. QED BY <1>3, <2>1, BearerStep
<1>4. CASE PairingFails
  BY <1>4, PairingStep DEF OfConnection
<1>5. CASE ParamsActions \/ ConnectionUpdated
  BY <1>5, ParamsStep, UpdatedStep
<1>6. CASE HangUp \/ AssociationActions \/ UNCHANGED vars
  BY <1>6, AssociationStep DEF HangUp, vars
<1>7. CASE Connect \/ Disconnected \/ PowerCycle
  BY <1>7, ConnectStep, PowerStep DEF Disconnected
<1>8. QED BY <1>2, <1>3, <1>4, <1>5, <1>6, <1>7, NextCases

-----------------------------------------------------------------------------
(***************************************************************************)
(* The theorems.                                                           *)
(***************************************************************************)

\* Every variable holds a value of the kind the code gives it.
THEOREM TypeCorrect == Spec => []TypeOK
<1>1. Init => Types
  BY InitInvariants
<1>2. Types /\ [Next]_vars => Types'
  BY NextTypes
<1>3. Types => TypeOK
  BY DEF Types, TypeOK, AppType, CpType, Durations, Upgrades
<1>4. QED BY <1>1, <1>2, <1>3, PTL DEF Spec

\* The mesh stack is promiscuous while a host is connected and has the stored
\* bearer state otherwise, whatever host, mesh and supply do
\* (AppUpdateBearerState, handleConnNotify).
THEOREM BearersAreRight == Spec => []BearersFollowLink
<1>1. Init => Types /\ Link
  BY InitInvariants
<1>2. Types /\ Link /\ [Next]_vars => Types' /\ Link'
  BY NextTypes, LinkStep
<1>3. Link => BearersFollowLink
  BY DEF Link
<1>4. QED BY <1>1, <1>2, <1>3, PTL DEF Spec

\* A hub that can be found goes on being found unless its association is removed
\* while it is idle (GattTriggerConnectableAdverts, RemoveAssociation).
THEOREM StaysFindableCorrect == Spec => StaysFindable
<1>1. Init => Types /\ Link
  BY InitInvariants
<1>2. Types /\ Link /\ [Next]_vars => Types' /\ Link'
  BY NextTypes, LinkStep
<1>3. Types /\ Link /\ [Next]_vars
        => [Findable /\ ~Findable'
              => app.state = "idle" /\ assoc # "no" /\ assoc' = "no"]_vars
  BY FindableStep
<1>4. QED BY <1>1, <1>2, <1>3, PTL DEF Spec, StaysFindable

\* Only the advert timer that finds the bearer off takes the application out of
\* the states in which the events of a connection do not make it panic
\* (gattAdvertTimerHandler, handleCmConnectionUpdated).
THEOREM ConnectedUntilAdvertCorrect == Spec => ConnectedUntilAdvert
<1>1. Init => Types /\ Link
  BY InitInvariants
<1>2. Types /\ Link /\ [Next]_vars => Types' /\ Link'
  BY NextTypes, LinkStep
<1>3. Types /\ Link /\ [Next]_vars
        => [cm # "down" /\ cm' # "down"
            /\ OfConnection(app.state) /\ ~OfConnection(app'.state)
              => app.adv /\ ~stored.gatt]_vars
  BY ConnectedStep
<1>4. QED BY <1>1, <1>2, <1>3, PTL DEF Spec, ConnectedUntilAdvert
=============================================================================
