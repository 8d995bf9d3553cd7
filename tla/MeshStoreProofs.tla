--------------------------- MODULE MeshStoreProofs ---------------------------
(***************************************************************************)
(* Proofs about MeshStore for every number of firmware versions and        *)
(* restarts.  A handler has written its items in its order when todo is    *)
(* empty; until then what counts is the value an item will end with.       *)
(***************************************************************************)
EXTENDS MeshStore, TLAPS

Defaulted == {"bearer", "ttl", "groups"}

\* The item i ends with x when the writes s have been done to a store in which
\* it has the value v.
Ends(s, i, v, x) ==
    /\ \A k \in 1 .. Len(s) :
          s[k].item = i /\ (\A j \in 1 .. Len(s) : j > k => s[j].item # i)
             => s[k].value = x
    /\ (\A k \in 1 .. Len(s) : s[k].item # i) => v = x

\* Wherever the version is written, the items that it vouches for have been.
Ordered(s, n) ==
    /\ \A k \in 1 .. Len(s) : s[k].item \in Defaulted => s[k].value # "blank"
    /\ \A k \in 1 .. Len(s) : s[k].item = "version" =>
          \A i \in Defaulted : n[i] # "blank" \/ \E j \in 1 .. Len(s) : j < k /\ s[j].item = i

Settles(i, x) == Ends(todo, i, nvm[i], x)

-----------------------------------------------------------------------------
(***************************************************************************)
(* Sequences of writes.                                                     *)
(***************************************************************************)

LEMMA EndsEmpty == \A i, v, x : Ends(<<>>, i, v, x) <=> v = x
BY DEF Ends

LEMMA TailFacts ==
    ASSUME NEW S, NEW s \in Seq(S), s # <<>>
    PROVE  /\ Tail(s) \in Seq(S) /\ Len(s) \in Nat /\ Len(s) > 0
           /\ Len(Tail(s)) = Len(s) - 1 /\ s[1] \in S
           /\ \A k \in 1 .. Len(s) - 1 : Tail(s)[k] = s[k + 1]
OBVIOUS

\* The first write is done: the items end with what they would have.
LEMMA EndsTail ==
    ASSUME NEW S, NEW s \in Seq(S), s # <<>>, NEW i, NEW v, NEW x, Ends(s, i, v, x)
    PROVE  Ends(Tail(s), i, IF s[1].item = i THEN s[1].value ELSE v, x)
<1> DEFINE t == Tail(s)
           w == IF s[1].item = i THEN s[1].value ELSE v
<1>1. /\ Len(s) \in Nat /\ Len(s) > 0 /\ Len(t) = Len(s) - 1
      /\ \A k \in 1 .. Len(s) - 1 : t[k] = s[k + 1]
  BY TailFacts
<1> HIDE DEF t
<1>2. ASSUME NEW k \in 1 .. Len(t), t[k].item = i,
             \A j \in 1 .. Len(t) : j > k => t[j].item # i
      PROVE  t[k].value = x
  <2>1. k + 1 \in 1 .. Len(s) /\ t[k] = s[k + 1]
    BY <1>1
  <2>2. ASSUME NEW j \in 1 .. Len(s), j > k + 1 PROVE s[j].item # i
    <3>1. j - 1 \in 1 .. Len(t) /\ j - 1 > k /\ t[j - 1] = s[j]
      BY <1>1, <2>2
    <3>2. QED BY <1>2, <3>1
  <2>3. QED BY <1>2, <2>1, <2>2 DEF Ends
<1>3. ASSUME \A k \in 1 .. Len(t) : t[k].item # i
      PROVE  w = x
  <2>1. ASSUME NEW j \in 1 .. Len(s), j > 1 PROVE s[j].item # i
    <3>1. j - 1 \in 1 .. Len(t) /\ t[j - 1] = s[j]
      BY <1>1, <2>1
    <3>2. QED BY <1>3, <3>1
  <2>2. CASE s[1].item = i
    BY <1>1, <2>1, <2>2 DEF Ends
  <2>3. CASE s[1].item # i
    <3>1. \A j \in 1 .. Len(s) : s[j].item # i
      BY <1>1, <2>1, <2>3
    <3>2. QED BY <2>3, <3>1 DEF Ends
  <2>4. QED BY <2>2, <2>3
<1> HIDE DEF w
<1>4. Ends(t, i, w, x)
  BY <1>2, <1>3 DEF Ends
<1>5. QED BY <1>4 DEF t, w

LEMMA EndsOne ==
    ASSUME NEW j, NEW y, NEW i, NEW v
    PROVE  /\ Ends(<<Write(j, y)>>, j, v, y)
           /\ i # j => Ends(<<Write(j, y)>>, i, v, v)
BY DEF Ends, Write

\* All the defaults, of a fresh store or of another version.
LEMMA DefaultsResult ==
    LET s == WriteDefaults
        f == WriteFresh \o WriteDefaults IN
    /\ Len(s) = 5 /\ Len(f) = 8
    /\ s[1] = Write("bearer", "promiscuous") /\ s[2] = Write("ttl", "default")
    /\ s[3] = Write("groups", "partial") /\ s[4] = Write("groups", "default")
    /\ s[5] = Write("version", firmware)
    /\ f[1] = Write("assoc", "none") /\ f[2] = Write("uuid", "set")
    /\ f[3] = Write("sanity", "magic")
    /\ f[4] = s[1] /\ f[5] = s[2] /\ f[6] = s[3] /\ f[7] = s[4] /\ f[8] = s[5]
BY DEF WriteDefaults, WriteFresh, WriteGroups

-----------------------------------------------------------------------------
(***************************************************************************)
(* The inductive invariants.                                                *)
(***************************************************************************)

Vals == Nat \cup {"blank", "created", "magic", "none", "associated", "set", "default",
                  "partial", "assigned", "joined", "promiscuous", "private"}
Rec  == [item : Item, value : Vals]
Typed(s) == s \in Seq(Rec) /\ \A k \in 1 .. Len(s) : s[k].value \in Value(s[k].item)

RamType ==
    [assoc : {"blank", "none", "started", "associated"},
     bearer : {"blank", "promiscuous", "private"}, ttl : {"blank", "default", "set"},
     groups : {"blank", "partial", "default", "assigned", "gateway"}]

Types ==
    /\ nvm \in [Item -> Vals] /\ \A i \in Item : nvm[i] \in Value(i)
    /\ Typed(todo)
    /\ phase \in {"opening", "reading", "starting", "running"}
    /\ fresh \in BOOLEAN /\ advert \in BOOLEAN /\ ram \in RamType
    /\ firmware \in 1 .. MaxVersion /\ restarts \in 0 .. MaxRestarts /\ cut \in BOOLEAN

\* A store of the firmware's version is complete, and will be whenever the
\* version is written.
Versioned == VersionLast /\ Ordered(todo, nvm)

\* The store has been created and checked by the time it is used; what the hub
\* runs with is what the store will hold when the handler ends.
Mirrored ==
    /\ phase # "opening" => Settles("store", "created") /\ Settles("sanity", "magic")
    /\ phase \in {"starting", "running"} =>
          Settles("bearer", ram.bearer) /\ Settles("ttl", ram.ttl)
    /\ phase = "running" =>
          /\ Settles("assoc", IF ram.assoc = "started" THEN "none" ELSE ram.assoc)
          /\ ram.groups # "gateway" => Settles("groups", ram.groups)
          /\ ram.assoc = "none" => advert

\* A store with this association state, network and groups is one of a hub that
\* is in a network, or of one that has left no trace of any.
Coherent(a, n, g) ==
    /\ Settles("assoc", a) /\ Settles("network", n) /\ Settles("groups", g)
    /\ a = "associated" <=> n = "joined"
    /\ g = "assigned" => a = "associated"
    /\ n = "joined" => Settles("store", "created") /\ Settles("sanity", "magic")
    /\ fresh = TRUE /\ phase # "running" => n # "joined"

Clean == cut = FALSE => \E a, n, g : Coherent(a, n, g)

IInv == Types /\ Versioned /\ Mirrored /\ Clean

-----------------------------------------------------------------------------
(***************************************************************************)
(* Types.                                                                   *)
(***************************************************************************)

LEMMA ValueFacts ==
    /\ Value("store") = {"blank", "created"} /\ Value("sanity") = {"blank", "magic"}
    /\ Value("version") = 0 .. firmware
    /\ Value("assoc") = {"blank", "none", "associated"} /\ Value("uuid") = {"blank", "set"}
    /\ Value("bearer") = {"blank", "promiscuous", "private"}
    /\ Value("ttl") = {"blank", "default", "set"}
    /\ Value("groups") = {"blank", "partial", "default", "assigned"}
    /\ Value("network") = {"blank", "joined"}
BY DEF Value, Bearer

LEMMA TypedEmpty == Typed(<<>>)
BY DEF Typed

LEMMA TypedJoin ==
    ASSUME NEW s, NEW t, Typed(s), Typed(t)
    PROVE  Typed(s \o t)
BY DEF Typed

LEMMA TypedOne ==
    ASSUME NEW i \in Item, NEW v \in Value(i), v \in Vals
    PROVE  Typed(<<Write(i, v)>>)
BY DEF Typed, Rec, Write

LEMMA TypedWrites ==
    ASSUME firmware \in Nat
    PROVE  /\ \A v \in {"none", "associated"} : Typed(<<Write("assoc", v)>>)
           /\ \A v \in Bearer : Typed(<<Write("bearer", v)>>)
           /\ Typed(<<Write("ttl", "set")>>) /\ Typed(<<Write("ttl", "default")>>)
           /\ Typed(<<Write("groups", "assigned")>>)
           /\ Typed(<<Write("network", "blank")>>) /\ Typed(<<Write("network", "joined")>>)
           /\ Typed(<<Write("store", "created")>>) /\ Typed(<<Write("sanity", "magic")>>)
           /\ Typed(WriteGroups) /\ Typed(WriteDefaults) /\ Typed(WriteFresh)
<1>1. /\ \A v \in {"none", "associated"} : Typed(<<Write("assoc", v)>>)
      /\ \A v \in Bearer : Typed(<<Write("bearer", v)>>)
      /\ Typed(<<Write("ttl", "set")>>) /\ Typed(<<Write("ttl", "default")>>)
      /\ Typed(<<Write("groups", "assigned")>>)
      /\ Typed(<<Write("network", "blank")>>) /\ Typed(<<Write("network", "joined")>>)
      /\ Typed(<<Write("store", "created")>>) /\ Typed(<<Write("sanity", "magic")>>)
      /\ Typed(<<Write("groups", "partial")>>) /\ Typed(<<Write("groups", "default")>>)
      /\ Typed(<<Write("uuid", "set")>>)
  BY TypedOne, ValueFacts DEF Item, Vals, Bearer
<1>2. Typed(<<Write("version", firmware)>>)
  <2>1. "version" \in Item /\ firmware \in Vals
    BY DEF Item, Vals
  <2>2. firmware \in 0 .. firmware
    OBVIOUS
  <2>3. firmware \in Value("version")
    BY <2>2, ValueFacts
  <2> QED BY <2>1, <2>3, TypedOne
<1>3. Typed(WriteGroups)
  <2>1. WriteGroups = <<Write("groups", "partial")>> \o <<Write("groups", "default")>>
    BY DEF WriteGroups
  <2>2. QED BY <1>1, <2>1, TypedJoin
<1>4. Typed(WriteDefaults)
  <2>1. <<Write("bearer", "promiscuous"), Write("ttl", "default")>>
            = <<Write("bearer", "promiscuous")>> \o <<Write("ttl", "default")>>
    OBVIOUS
  <2>2. Typed(<<Write("bearer", "promiscuous"), Write("ttl", "default")>>)
    BY <1>1, <2>1, TypedJoin DEF Bearer
  <2>3. QED BY <1>2, <1>3, <2>2, TypedJoin DEF WriteDefaults
<1>5. Typed(WriteFresh)
  <2>1. WriteFresh = (<<Write("assoc", "none")>> \o <<Write("uuid", "set")>>)
                         \o <<Write("sanity", "magic")>>
    BY DEF WriteFresh
  <2>2. QED BY <1>1, <2>1, TypedJoin
<1>6. QED BY <1>1, <1>3, <1>4, <1>5

LEMMA PrimeTyped ==
    ASSUME Typed(todo'), \A i \in Item : Value(i)' = Value(i)
    PROVE  Typed(todo)'
<1>1. todo' \in Seq(Rec) /\ \A k \in 1 .. Len(todo') : todo'[k].value \in Value(todo'[k].item)
  BY DEF Typed
<1>2. \A k \in 1 .. Len(todo') : todo'[k] \in Rec
  BY <1>1
<1>3. \A k \in 1 .. Len(todo') : todo'[k].item \in Item
  BY <1>2 DEF Rec
<1>4. QED BY <1>1, <1>3 DEF Typed

\* A handler leaves the store to its writes and the firmware as it is.
LEMMA HandlerTypes ==
    ASSUME Types, UNCHANGED <<nvm, firmware, restarts, cut>>, Typed(todo'),
           phase' \in {"opening", "reading", "starting", "running"},
           fresh' \in BOOLEAN, advert' \in BOOLEAN, ram' \in RamType
    PROVE  Types'
<1>1. \A i \in Item : Value(i)' = Value(i)
  BY DEF Value, Types
<1>2. Typed(todo)'
  BY <1>1, PrimeTyped
<1>3. QED BY <1>1, <1>2 DEF Types

LEMMA InitTypes == Init => Types
<1> SUFFICES ASSUME Init PROVE Types
  OBVIOUS
<1>1. nvm \in [Item -> Vals] /\ \A i \in Item : nvm[i] \in Value(i)
  BY ValueFacts DEF Init, Item, Vals
<1>2. Typed(todo)
  BY TypedEmpty DEF Init
<1>3. ram \in RamType
  BY DEF Init, Zeroed, RamType
<1>4. firmware \in 1 .. MaxVersion /\ restarts \in 0 .. MaxRestarts
  BY VersionAssumption DEF Init
<1>5. QED BY <1>1, <1>2, <1>3, <1>4 DEF Init, Types

\* The first write of the handler is done.
LEMMA WriteTypes == Types /\ Nvm_Write => Types'
<1> SUFFICES ASSUME Types, Nvm_Write PROVE Types'
  OBVIOUS
<1>1. /\ todo \in Seq(Rec) /\ todo # <<>>
      /\ \A k \in 1 .. Len(todo) : todo[k].value \in Value(todo[k].item)
  BY DEF Types, Typed, Nvm_Write
<1>2. /\ Tail(todo) \in Seq(Rec) /\ Len(todo) \in Nat /\ Len(todo) > 0
      /\ Len(Tail(todo)) = Len(todo) - 1 /\ todo[1] \in Rec
      /\ \A k \in 1 .. Len(todo) - 1 : Tail(todo)[k] = todo[k + 1]
  BY <1>1, TailFacts
<1>3. /\ nvm' = [nvm EXCEPT ![todo[1].item] = todo[1].value] /\ todo' = Tail(todo)
      /\ UNCHANGED <<phase, fresh, ram, advert, firmware, restarts, cut>>
  BY DEF Nvm_Write
<1>4. todo[1].value \in Value(todo[1].item) /\ todo[1].item \in Item /\ todo[1].value \in Vals
  BY <1>1, <1>2 DEF Rec
<1>5. nvm' \in [Item -> Vals] /\ \A i \in Item : nvm'[i] \in Value(i)
  BY <1>3, <1>4 DEF Types
<1>6. Typed(todo')
  BY <1>1, <1>2, <1>3 DEF Typed
<1>7. \A i \in Item : Value(i)' = Value(i)
  BY <1>3 DEF Value
<1>8. Typed(todo)'
  BY <1>6, <1>7, PrimeTyped
<1>9. QED BY <1>3, <1>5, <1>7, <1>8 DEF Types

LEMMA StartTypes == Types /\ (NvmProcessEvent \/ readPersistentStore \/ AppMeshInit) => Types'
<1> SUFFICES ASSUME Types, NvmProcessEvent \/ readPersistentStore \/ AppMeshInit PROVE Types'
  OBVIOUS
<1>1. firmware \in Nat /\ Typed(todo) /\ ram \in RamType
  BY VersionAssumption DEF Types
<1>2. CASE NvmProcessEvent
  <2>1. Typed(todo') /\ fresh' \in BOOLEAN /\ phase' \in {"opening", "reading"}
    BY <1>1, <1>2, TypedWrites DEF NvmProcessEvent, Types
  <2>2. UNCHANGED <<nvm, ram, advert, firmware, restarts, cut>>
    BY <1>2 DEF NvmProcessEvent
  <2>3. QED BY <2>1, <2>2, HandlerTypes DEF Types
<1>3. CASE readPersistentStore
  <2>1. phase' = "starting" /\ UNCHANGED <<nvm, fresh, advert, firmware, restarts, cut>>
    BY <1>3 DEF readPersistentStore
  <2>2. CASE ~fresh /\ nvm["version"] = firmware
    <3>1. ram' = [ram EXCEPT !.bearer = nvm["bearer"], !.ttl = nvm["ttl"]] /\ todo' = todo
      BY <1>3, <2>2 DEF readPersistentStore
    <3>2. /\ nvm["bearer"] \in {"blank", "promiscuous", "private"}
          /\ nvm["ttl"] \in {"blank", "default", "set"}
      BY ValueFacts DEF Types, Item
    <3>3. ram' \in RamType
      BY <1>1, <3>1, <3>2 DEF RamType
    <3>4. QED BY <1>1, <2>1, <3>1, <3>3, HandlerTypes DEF Types
  <2>3. CASE ~(~fresh /\ nvm["version"] = firmware)
    <3>1. /\ ram' = [ram EXCEPT !.bearer = "promiscuous", !.ttl = "default"]
          /\ todo' = (IF fresh THEN WriteFresh ELSE <<>>) \o WriteDefaults
      BY <1>3, <2>3 DEF readPersistentStore
    <3>2. Typed(todo')
      BY <1>1, <3>1, TypedWrites, TypedEmpty, TypedJoin
    <3>3. ram' \in RamType
      BY <1>1, <3>1 DEF RamType
    <3>4. QED BY <2>1, <3>2, <3>3, HandlerTypes DEF Types
  <2>4. QED BY <2>2, <2>3
<1>4. CASE AppMeshInit
  <2>1. /\ nvm["groups"] \in {"blank", "partial", "default", "assigned"}
        /\ nvm["assoc"] \in {"blank", "none", "associated"}
    BY ValueFacts DEF Types, Item
  <2>2. ram' = [ram EXCEPT !.groups = nvm["groups"], !.assoc = nvm["assoc"]]
    BY <1>4 DEF AppMeshInit
  <2>3. ram' \in RamType
    BY <1>1, <2>1, <2>2 DEF RamType
  <2>4. Typed(todo') /\ phase' = "running" /\ advert' \in BOOLEAN
    BY <1>1, <1>4, TypedWrites, TypedEmpty DEF AppMeshInit
  <2>5. UNCHANGED <<nvm, fresh, firmware, restarts, cut>>
    BY <1>4 DEF AppMeshInit
  <2>6. QED BY <2>3, <2>4, <2>5, HandlerTypes DEF Types
<1>5. QED BY <1>2, <1>3, <1>4

Events == AssocStarted \/ AssocComplete \/ AssocFailed \/ deviceIdAdvertTimeoutHandler
          \/ RemoveAssociation \/ SetBearer \/ SetTtl \/ HandleGroupSetMsg
          \/ GatewaySetsGroups

LEMMA EventTypes ==
    ASSUME Types, Events
    PROVE  Types' /\ phase = "running" /\ todo = <<>>
           /\ UNCHANGED <<nvm, phase, fresh, firmware, restarts, cut>>
<1>1. /\ phase = "running" /\ todo = <<>>
      /\ UNCHANGED <<nvm, phase, fresh, firmware, restarts, cut>>
  BY DEF Events, AssocStarted, AssocComplete, AssocFailed, deviceIdAdvertTimeoutHandler,
         RemoveAssociation, SetBearer, SetTtl, HandleGroupSetMsg, GatewaySetsGroups,
         Running, Idle, Stays
<1>2. firmware \in Nat /\ Typed(todo) /\ ram \in RamType
  BY VersionAssumption DEF Types
<1> SUFFICES Typed(todo') /\ advert' \in BOOLEAN /\ ram' \in RamType
  BY <1>1, HandlerTypes DEF Types
<1>3. CASE AssocStarted \/ deviceIdAdvertTimeoutHandler \/ GatewaySetsGroups
  BY <1>2, <1>3 DEF AssocStarted, deviceIdAdvertTimeoutHandler, GatewaySetsGroups, Types, RamType
<1>4. CASE AssocComplete
  <2>1. todo' = (<<Write("network", "joined")>> \o <<Write("assoc", "associated")>>)
                    \o <<Write("bearer", "private")>>
    BY <1>4 DEF AssocComplete
  <2>2. Typed(todo')
    BY <1>2, <2>1, TypedWrites, TypedJoin DEF Bearer
  <2>3. QED BY <1>2, <1>4, <2>2 DEF AssocComplete, Types, RamType
<1>5. CASE AssocFailed
  <2>1. Typed(todo')
    BY <1>2, <1>5, TypedWrites DEF AssocFailed
  <2>2. QED BY <1>2, <1>5, <2>1 DEF AssocFailed, RamType
<1>6. CASE RemoveAssociation
  <2>1. <<Write("network", "blank"), Write("bearer", "promiscuous"),
          Write("assoc", "none"), Write("ttl", "default")>>
            = ((<<Write("network", "blank")>> \o <<Write("bearer", "promiscuous")>>)
                  \o <<Write("assoc", "none")>>) \o <<Write("ttl", "default")>>
    OBVIOUS
  <2>2. Typed(<<Write("network", "blank"), Write("bearer", "promiscuous"),
                Write("assoc", "none"), Write("ttl", "default")>>)
    BY <1>2, <2>1, TypedWrites, TypedJoin DEF Bearer
  <2>3. Typed(todo')
    BY <1>2, <1>6, <2>2, TypedWrites, TypedJoin DEF RemoveAssociation
  <2>4. QED BY <1>6, <2>3 DEF RemoveAssociation, RamType
<1>7. CASE SetBearer
  <2>1. PICK b \in BearerCommands :
           ram' = [ram EXCEPT !.bearer = b] /\ todo' = <<Write("bearer", b)>>
    BY <1>7 DEF SetBearer
  <2>2. b \in Bearer
    BY CommandAssumption
  <2>3. Typed(todo')
    BY <1>2, <2>1, <2>2, TypedWrites
  <2>4. ram' \in RamType /\ advert' = advert
    BY <1>2, <1>7, <2>1, <2>2 DEF SetBearer, RamType, Bearer
  <2>5. QED BY <2>3, <2>4 DEF Types
<1>8. CASE SetTtl \/ HandleGroupSetMsg
  <2>1. Typed(todo')
    BY <1>2, <1>8, TypedWrites DEF SetTtl, HandleGroupSetMsg
  <2>2. QED BY <1>2, <1>8, <2>1 DEF SetTtl, HandleGroupSetMsg, RamType, Types
<1>9. QED BY <1>3, <1>4, <1>5, <1>6, <1>7, <1>8 DEF Events

LEMMA BootTypes == Types /\ (Restart \/ Update) => Types'
<1> SUFFICES ASSUME Types, Restart \/ Update PROVE Types'
  OBVIOUS
<1>1. nvm' = nvm /\ todo' = <<>> /\ phase' = "opening" /\ fresh' = FALSE /\ advert' = FALSE
      /\ ram' = Zeroed
  BY DEF Restart, Update, Boot
<1>2. /\ firmware' \in 1 .. MaxVersion /\ restarts' \in 0 .. MaxRestarts /\ cut' \in BOOLEAN
      /\ firmware \in Nat /\ firmware' \in Nat /\ firmware <= firmware'
  <2>1. firmware \in Nat /\ firmware >= 1 /\ restarts \in Nat
    BY VersionAssumption DEF Types
  <2>2. /\ firmware' \in 1 .. MaxVersion /\ firmware' \in Nat /\ firmware <= firmware'
        /\ restarts' \in 0 .. MaxRestarts
    BY <2>1, VersionAssumption DEF Restart, Update, Types
  <2>3. cut' = (cut \/ ~Running) \/ cut' = cut
    BY DEF Restart, Update
  <2>4. cut' \in BOOLEAN
    BY <2>3, Zenon DEF Types
  <2>5. QED BY <2>1, <2>2, <2>4
<1>3. \A i \in Item : nvm[i] \in Value(i)'
  <2>1. ASSUME NEW i \in Item, i # "version" PROVE nvm[i] \in Value(i)'
    <3>1. Value(i)' = Value(i)
      BY <2>1 DEF Value, Item
    <3>2. QED BY <3>1 DEF Types
  <2>2. nvm["version"] \in Value("version")'
    <3>1. nvm["version"] \in 0 .. firmware
      BY ValueFacts DEF Types, Item
    <3>2. Value("version")' = 0 .. firmware'
      BY DEF Value
    <3>3. QED BY <1>2, <3>1, <3>2
  <2>3. QED BY <2>1, <2>2
<1>4. Typed(todo)'
  BY <1>1 DEF Typed
<1>5. ram' \in RamType
  BY <1>1 DEF Zeroed, RamType
<1>6. QED BY <1>1, <1>2, <1>3, <1>4, <1>5 DEF Types

LEMMA NextTypes == Types /\ [Next]_vars => Types'
<1> SUFFICES ASSUME Types, [Next]_vars PROVE Types'
  OBVIOUS
<1>1. CASE UNCHANGED vars
  <2>1. \A i \in Item : Value(i)' = Value(i)
    BY <1>1 DEF Value, vars
  <2>2. Typed(todo)'
    BY <1>1, <2>1, PrimeTyped DEF vars, Types
  <2>3. QED BY <1>1, <2>1, <2>2 DEF vars, Types
<1>2. QED
  BY <1>1, WriteTypes, StartTypes, EventTypes, BootTypes DEF Next, StartUp, MeshEvent, Events

-----------------------------------------------------------------------------
(***************************************************************************)
(* What the items end with after each handler.                              *)
(***************************************************************************)

Joining == <<Write("network", "joined"), Write("assoc", "associated"),
             Write("bearer", "private")>>
Leaving == <<Write("network", "blank"), Write("bearer", "promiscuous"),
             Write("assoc", "none"), Write("ttl", "default")>> \o WriteGroups

LEMMA JoiningResult ==
    ASSUME NEW v, NEW i
    PROVE  /\ Ends(Joining, "network", v, "joined") /\ Ends(Joining, "assoc", v, "associated")
           /\ Ends(Joining, "bearer", v, "private")
           /\ i \in {"store", "sanity", "ttl", "groups"} => Ends(Joining, i, v, v)
           /\ Ordered(Joining, nvm)
<1> DEFINE s == Joining
<1>1. /\ Len(s) = 3 /\ s[1].item = "network" /\ s[2].item = "assoc" /\ s[3].item = "bearer"
      /\ s[1].value = "joined" /\ s[2].value = "associated" /\ s[3].value = "private"
  BY DEF Joining, Write
<1> HIDE DEF s
<1>2. \A k \in 1 .. Len(s) : k = 1 \/ k = 2 \/ k = 3
  BY <1>1
<1>3. /\ Ends(s, "network", v, "joined") /\ Ends(s, "assoc", v, "associated")
      /\ Ends(s, "bearer", v, "private")
  BY <1>1, <1>2 DEF Ends
<1>4. i \in {"store", "sanity", "ttl", "groups"} => Ends(s, i, v, v)
  BY <1>1, <1>2 DEF Ends
<1>5. Ordered(s, nvm)
  BY <1>1, <1>2 DEF Ordered, Defaulted
<1>6. QED BY <1>3, <1>4, <1>5 DEF s

LEMMA LeavingResult ==
    ASSUME NEW v, NEW i
    PROVE  /\ Ends(Leaving, "network", v, "blank") /\ Ends(Leaving, "assoc", v, "none")
           /\ Ends(Leaving, "bearer", v, "promiscuous") /\ Ends(Leaving, "ttl", v, "default")
           /\ Ends(Leaving, "groups", v, "default")
           /\ i \in {"store", "sanity"} => Ends(Leaving, i, v, v)
           /\ Ordered(Leaving, nvm)
<1> DEFINE s == Leaving
<1>1. /\ Len(s) = 6 /\ s[1].item = "network" /\ s[2].item = "bearer" /\ s[3].item = "assoc"
      /\ s[4].item = "ttl" /\ s[5].item = "groups" /\ s[6].item = "groups"
      /\ s[1].value = "blank" /\ s[2].value = "promiscuous" /\ s[3].value = "none"
      /\ s[4].value = "default" /\ s[5].value = "partial" /\ s[6].value = "default"
  BY DEF Leaving, WriteGroups, Write
<1> HIDE DEF s
<1>2. \A k \in 1 .. Len(s) : k = 1 \/ k = 2 \/ k = 3 \/ k = 4 \/ k = 5 \/ k = 6
  BY <1>1
<1>3. /\ Ends(s, "network", v, "blank") /\ Ends(s, "assoc", v, "none")
      /\ Ends(s, "bearer", v, "promiscuous") /\ Ends(s, "ttl", v, "default")
  BY <1>1, <1>2 DEF Ends
<1>4. Ends(s, "groups", v, "default")
  BY <1>1, <1>2 DEF Ends
<1>5. i \in {"store", "sanity"} => Ends(s, i, v, v)
  BY <1>1, <1>2 DEF Ends
<1>6. Ordered(s, nvm)
  BY <1>1, <1>2 DEF Ordered, Defaulted
<1>7. QED BY <1>3, <1>4, <1>5, <1>6 DEF s

LEMMA VersionResult ==
    ASSUME NEW v, NEW i
    PROVE  LET s == WriteDefaults IN
           /\ Ends(s, "bearer", v, "promiscuous") /\ Ends(s, "ttl", v, "default")
           /\ Ends(s, "groups", v, "default")
           /\ i \in {"store", "sanity", "assoc", "network"} => Ends(s, i, v, v)
           /\ Ordered(s, nvm)
<1> DEFINE s == WriteDefaults
<1>1. /\ Len(s) = 5 /\ s[1].item = "bearer" /\ s[2].item = "ttl" /\ s[3].item = "groups"
      /\ s[4].item = "groups" /\ s[5].item = "version"
      /\ s[1].value = "promiscuous" /\ s[2].value = "default" /\ s[3].value = "partial"
      /\ s[4].value = "default"
  BY DefaultsResult DEF Write
<1> HIDE DEF s
<1>2. \A k \in 1 .. Len(s) : k = 1 \/ k = 2 \/ k = 3 \/ k = 4 \/ k = 5
  BY <1>1
<1>3. /\ Ends(s, "bearer", v, "promiscuous") /\ Ends(s, "ttl", v, "default")
      /\ Ends(s, "groups", v, "default")
  BY <1>1, <1>2 DEF Ends
<1>4. i \in {"store", "sanity", "assoc", "network"} => Ends(s, i, v, v)
  BY <1>1, <1>2 DEF Ends
<1>5. Ordered(s, nvm)
  BY <1>1, <1>2 DEF Ordered, Defaulted
<1>6. QED BY <1>3, <1>4, <1>5 DEF s

LEMMA FreshResult ==
    ASSUME NEW v, NEW i
    PROVE  LET s == WriteFresh \o WriteDefaults IN
           /\ Ends(s, "bearer", v, "promiscuous") /\ Ends(s, "ttl", v, "default")
           /\ Ends(s, "groups", v, "default") /\ Ends(s, "assoc", v, "none")
           /\ Ends(s, "sanity", v, "magic")
           /\ i \in {"store", "network"} => Ends(s, i, v, v)
           /\ Ordered(s, nvm)
<1> DEFINE s == WriteFresh \o WriteDefaults
<1>1. /\ Len(s) = 8 /\ s[1].item = "assoc" /\ s[2].item = "uuid" /\ s[3].item = "sanity"
      /\ s[4].item = "bearer" /\ s[5].item = "ttl" /\ s[6].item = "groups"
      /\ s[7].item = "groups" /\ s[8].item = "version"
      /\ s[1].value = "none" /\ s[3].value = "magic" /\ s[4].value = "promiscuous"
      /\ s[5].value = "default" /\ s[6].value = "partial" /\ s[7].value = "default"
  BY DefaultsResult DEF Write
<1> HIDE DEF s
<1>2. \A k \in 1 .. Len(s) : k = 1 \/ k = 2 \/ k = 3 \/ k = 4 \/ k = 5 \/ k = 6 \/ k = 7 \/ k = 8
  BY <1>1
<1>3. /\ Ends(s, "bearer", v, "promiscuous") /\ Ends(s, "ttl", v, "default")
      /\ Ends(s, "groups", v, "default")
  BY <1>1, <1>2 DEF Ends
<1>4. Ends(s, "assoc", v, "none") /\ Ends(s, "sanity", v, "magic")
  BY <1>1, <1>2 DEF Ends
<1>5. i \in {"store", "network"} => Ends(s, i, v, v)
  BY <1>1, <1>2 DEF Ends
<1>6. Ordered(s, nvm)
  BY <1>1, <1>2 DEF Ordered, Defaulted
<1>7. QED BY <1>3, <1>4, <1>5, <1>6 DEF s

-----------------------------------------------------------------------------
(***************************************************************************)
(* The version vouches for the items.                                       *)
(***************************************************************************)

LEMMA OrderedFew ==
    ASSUME NEW n
    PROVE  /\ Ordered(<<>>, n)
           /\ \A i, v : i # "version" /\ v # "blank" => Ordered(<<Write(i, v)>>, n)
           /\ \A v : Ordered(<<Write("network", v)>>, n)
BY DEF Ordered, Write, Defaulted

LEMMA WriteVersioned == Types /\ Versioned /\ Nvm_Write => Versioned'
<1> SUFFICES ASSUME Types, Versioned, Nvm_Write PROVE Versioned'
  OBVIOUS
<1>1. /\ todo \in Seq(Rec) /\ todo # <<>> /\ nvm \in [Item -> Vals]
      /\ nvm' = [nvm EXCEPT ![todo[1].item] = todo[1].value] /\ todo' = Tail(todo)
      /\ firmware' = firmware
  BY DEF Types, Typed, Nvm_Write
<1>2. /\ Len(todo) \in Nat /\ Len(todo) > 0 /\ Len(todo') = Len(todo) - 1 /\ todo[1] \in Rec
      /\ \A k \in 1 .. Len(todo) - 1 : todo'[k] = todo[k + 1]
  BY <1>1, TailFacts
<1>3. todo[1].item \in Item /\ 1 \in 1 .. Len(todo)
  BY <1>2 DEF Rec
<1>4. Defaulted \subseteq Item /\ "version" \in Item /\ "version" \notin Defaulted
  BY DEF Defaulted, Item
<1>5. \A i \in Item : nvm'[i] = IF i = todo[1].item THEN todo[1].value ELSE nvm[i]
  BY <1>1, <1>3
<1>6. \A i \in Defaulted : nvm[i] # "blank" \/ todo[1].item = i => nvm'[i] # "blank"
  BY <1>3, <1>4, <1>5 DEF Versioned, Ordered
<1>7. ASSUME nvm'["version"] = firmware, NEW i \in Defaulted PROVE nvm'[i] # "blank"
  <2>1. CASE todo[1].item = "version"
    <3>1. nvm[i] # "blank" \/ \E j \in 1 .. Len(todo) : j < 1 /\ todo[j].item = i
      BY <1>3, <2>1 DEF Versioned, Ordered
    <3>2. QED BY <1>2, <1>6, <3>1
  <2>2. CASE todo[1].item # "version"
    <3>1. nvm["version"] = firmware
      BY <1>4, <1>5, <1>7, <2>2
    <3>2. nvm[i] # "blank"
      BY <3>1 DEF Versioned, VersionLast, Defaulted
    <3>3. QED BY <1>6, <3>2
  <2>3. QED BY <2>1, <2>2
<1>8. ASSUME NEW k \in 1 .. Len(todo'), todo'[k].item \in Defaulted PROVE todo'[k].value # "blank"
  <2>1. k + 1 \in 1 .. Len(todo) /\ todo'[k] = todo[k + 1]
    BY <1>2
  <2>2. QED BY <1>8, <2>1 DEF Versioned, Ordered
<1>9. ASSUME NEW k \in 1 .. Len(todo'), todo'[k].item = "version", NEW i \in Defaulted
      PROVE  nvm'[i] # "blank" \/ \E j \in 1 .. Len(todo') : j < k /\ todo'[j].item = i
  <2>1. k + 1 \in 1 .. Len(todo) /\ todo'[k] = todo[k + 1]
    BY <1>2
  <2>2. nvm[i] # "blank" \/ \E j \in 1 .. Len(todo) : j < k + 1 /\ todo[j].item = i
    BY <1>9, <2>1 DEF Versioned, Ordered
  <2>3. CASE nvm[i] # "blank"
    BY <1>6, <2>3
  <2>4. ASSUME NEW j \in 1 .. Len(todo), j < k + 1, todo[j].item = i
        PROVE  nvm'[i] # "blank" \/ \E h \in 1 .. Len(todo') : h < k /\ todo'[h].item = i
    <3>1. CASE j = 1
      BY <1>6, <2>4, <3>1
    <3>2. CASE j # 1
      <4>1. j - 1 \in 1 .. Len(todo') /\ j - 1 < k /\ todo'[j - 1] = todo[j]
        BY <1>2, <2>4, <3>2
      <4>2. QED BY <2>4, <4>1
    <3>3. QED BY <3>1, <3>2
  <2>5. QED BY <2>2, <2>3, <2>4
<1>10. VersionLast'
  BY <1>1, <1>7 DEF VersionLast, Defaulted
<1>11. Ordered(todo, nvm)'
  BY <1>8, <1>9 DEF Ordered
<1>12. QED BY <1>10, <1>11 DEF Versioned

LEMMA NextVersioned == Types /\ Versioned /\ [Next]_vars => Versioned'
<1> SUFFICES ASSUME Types, Versioned, [Next]_vars PROVE Versioned'
  OBVIOUS
<1>1. ASSUME nvm' = nvm, firmware' = firmware, Ordered(todo', nvm) PROVE Versioned'
  BY <1>1 DEF Versioned, VersionLast, Ordered
<1>2. CASE NvmProcessEvent
  <2>1. \/ todo' = <<Write("store", "created")>> \/ todo' = <<Write("sanity", "magic")>>
        \/ todo' = todo
    BY <1>2 DEF NvmProcessEvent
  <2>2. Ordered(todo', nvm)
    BY <2>1, OrderedFew DEF Versioned
  <2>3. QED BY <1>1, <1>2, <2>2 DEF NvmProcessEvent
<1>3. CASE readPersistentStore
  <2>1. \/ todo' = todo \/ todo' = WriteFresh \o WriteDefaults \/ todo' = <<>> \o WriteDefaults
    BY <1>3 DEF readPersistentStore
  <2>2. <<>> \o WriteDefaults = WriteDefaults
    BY DEF WriteDefaults, WriteGroups
  <2>3. Ordered(todo', nvm)
    BY <2>1, <2>2, VersionResult, FreshResult DEF Versioned
  <2>4. QED BY <1>1, <1>3, <2>3 DEF readPersistentStore
<1>4. CASE AppMeshInit
  BY <1>1, <1>4, OrderedFew DEF AppMeshInit
<1>5. CASE Events
  <2>1. todo = <<>> /\ nvm' = nvm /\ firmware' = firmware
    BY <1>5, EventTypes
  <2>2. Ordered(todo', nvm)
    <3>1. CASE AssocStarted \/ deviceIdAdvertTimeoutHandler \/ GatewaySetsGroups
      BY <2>1, <3>1, OrderedFew DEF AssocStarted, deviceIdAdvertTimeoutHandler, GatewaySetsGroups
    <3>2. CASE AssocComplete
      BY <3>2, JoiningResult DEF AssocComplete, Joining
    <3>3. CASE RemoveAssociation
      BY <3>3, LeavingResult DEF RemoveAssociation, Leaving
    <3>4. CASE AssocFailed \/ SetTtl \/ HandleGroupSetMsg
      BY <3>4, OrderedFew DEF AssocFailed, SetTtl, HandleGroupSetMsg
    <3>5. CASE SetBearer
      <4>1. PICK b \in BearerCommands : todo' = <<Write("bearer", b)>>
        BY <3>5 DEF SetBearer
      <4>2. b # "blank"
        BY CommandAssumption DEF Bearer
      <4>3. QED BY <4>1, <4>2, OrderedFew
    <3>6. QED BY <1>5, <3>1, <3>2, <3>3, <3>4, <3>5 DEF Events
  <2>3. QED BY <1>1, <2>1, <2>2
<1>6. CASE Restart
  BY <1>1, <1>6, OrderedFew DEF Restart, Boot
<1>7. CASE Update
  <2>1. nvm' = nvm /\ todo' = <<>> /\ firmware' = firmware + 1
    BY <1>7 DEF Update, Boot
  <2>2. nvm["version"] \in 0 .. firmware /\ firmware \in Nat
    BY ValueFacts, VersionAssumption DEF Types, Item
  <2>3. nvm'["version"] # firmware'
    BY <2>1, <2>2
  <2>4. QED BY <2>1, <2>3, OrderedFew DEF Versioned, VersionLast
<1>8. CASE UNCHANGED vars
  BY <1>1, <1>8 DEF vars, Versioned
<1>9. QED
  BY <1>2, <1>3, <1>4, <1>5, <1>6, <1>7, <1>8, WriteVersioned
  DEF Next, StartUp, MeshEvent, Events

-----------------------------------------------------------------------------
(***************************************************************************)
(* The store follows what the hub runs with.                                *)
(***************************************************************************)

LEMMA WriteEnds ==
    ASSUME Types, Nvm_Write, NEW i \in Item, NEW x, Settles(i, x)
    PROVE  Ends(todo', i, nvm'[i], x)
<1>1. /\ todo \in Seq(Rec) /\ todo # <<>> /\ nvm \in [Item -> Vals]
      /\ nvm' = [nvm EXCEPT ![todo[1].item] = todo[1].value] /\ todo' = Tail(todo)
  BY DEF Types, Typed, Nvm_Write
<1>2. todo[1].item \in Item
  <2>1. todo[1] \in Rec
    BY <1>1, TailFacts
  <2>2. QED BY <2>1 DEF Rec
<1>3. nvm'[i] = IF todo[1].item = i THEN todo[1].value ELSE nvm[i]
  BY <1>1, <1>2
<1>4. Ends(Tail(todo), i, IF todo[1].item = i THEN todo[1].value ELSE nvm[i], x)
  BY <1>1, EndsTail DEF Settles
<1>5. QED BY <1>1, <1>3, <1>4

LEMMA WriteMirrored == Types /\ Mirrored /\ Nvm_Write => Mirrored'
<1> SUFFICES ASSUME Types, Mirrored, Nvm_Write PROVE Mirrored'
  OBVIOUS
<1>1. UNCHANGED <<phase, ram, advert>>
  BY DEF Nvm_Write
<1>2. \A i \in Item : \A x : Settles(i, x) => Ends(todo', i, nvm'[i], x)
  BY WriteEnds
<1>3. QED BY <1>1, <1>2 DEF Mirrored, Settles, Item

LEMMA Rest == todo = <<>> => \A i, x : Settles(i, x) <=> nvm[i] = x
BY EndsEmpty DEF Settles

LEMMA StartMirrored ==
    Types /\ Mirrored /\ (NvmProcessEvent \/ readPersistentStore \/ AppMeshInit) => Mirrored'
<1> SUFFICES ASSUME Types, Mirrored, NvmProcessEvent \/ readPersistentStore \/ AppMeshInit
             PROVE  Mirrored'
  OBVIOUS
<1>0. todo = <<>> /\ nvm' = nvm
  BY DEF NvmProcessEvent, readPersistentStore, AppMeshInit, Idle
<1>1. CASE NvmProcessEvent
  <2>1. CASE nvm["store"] = "blank"
    <3>1. phase' = "opening"
      BY <1>1, <2>1 DEF NvmProcessEvent
    <3>2. QED BY <3>1 DEF Mirrored
  <2>2. CASE nvm["store"] # "blank"
    <3>1. nvm["store"] = "created" /\ nvm["sanity"] \in {"blank", "magic"}
      BY <2>2, ValueFacts DEF Types, Item
    <3>2. /\ phase' = "reading"
          /\ todo' = IF nvm["sanity"] # "magic" THEN <<Write("sanity", "magic")>> ELSE todo
      BY <1>1, <2>2 DEF NvmProcessEvent
    <3>3. Ends(todo', "store", nvm'["store"], "created")
      BY <1>0, <3>1, <3>2, EndsOne, EndsEmpty
    <3>4. Ends(todo', "sanity", nvm'["sanity"], "magic")
      BY <1>0, <3>1, <3>2, EndsOne, EndsEmpty
    <3>5. QED BY <3>2, <3>3, <3>4 DEF Mirrored, Settles
  <2>3. QED BY <2>1, <2>2
<1>2. CASE readPersistentStore
  <2>1. phase = "reading" /\ phase' = "starting"
    BY <1>2 DEF readPersistentStore
  <2>2. nvm["store"] = "created" /\ nvm["sanity"] = "magic"
    BY <1>0, <2>1, Rest DEF Mirrored
  <2>3. CASE ~fresh /\ nvm["version"] = firmware
    <3>1. ram' = [ram EXCEPT !.bearer = nvm["bearer"], !.ttl = nvm["ttl"]] /\ todo' = todo
      BY <1>2, <2>3 DEF readPersistentStore
    <3>2. ram'.bearer = nvm["bearer"] /\ ram'.ttl = nvm["ttl"]
      BY <3>1 DEF Types, RamType
    <3>3. QED BY <1>0, <2>1, <2>2, <3>1, <3>2, EndsEmpty DEF Mirrored, Settles
  <2>4. CASE ~(~fresh /\ nvm["version"] = firmware)
    <3>1. /\ ram' = [ram EXCEPT !.bearer = "promiscuous", !.ttl = "default"]
          /\ todo' = (IF fresh THEN WriteFresh ELSE <<>>) \o WriteDefaults
      BY <1>2, <2>4 DEF readPersistentStore
    <3>2. ram'.bearer = "promiscuous" /\ ram'.ttl = "default"
      BY <3>1 DEF Types, RamType
    <3>3. <<>> \o WriteDefaults = WriteDefaults
      BY DEF WriteDefaults, WriteGroups
    <3>4. todo' = WriteFresh \o WriteDefaults \/ todo' = WriteDefaults
      BY <3>1, <3>3
    <3>5. /\ Ends(todo', "store", nvm["store"], "created")
          /\ Ends(todo', "sanity", nvm["sanity"], "magic")
          /\ Ends(todo', "bearer", nvm["bearer"], "promiscuous")
          /\ Ends(todo', "ttl", nvm["ttl"], "default")
      BY <2>2, <3>4, VersionResult, FreshResult
    <3>6. QED BY <1>0, <2>1, <3>2, <3>5 DEF Mirrored, Settles
  <2>5. QED BY <2>3, <2>4
<1>3. CASE AppMeshInit
  <2>1. phase = "starting" /\ phase' = "running"
    BY <1>3 DEF AppMeshInit
  <2>2. /\ nvm["store"] = "created" /\ nvm["sanity"] = "magic"
        /\ nvm["bearer"] = ram.bearer /\ nvm["ttl"] = ram.ttl
    BY <1>0, <2>1, Rest DEF Mirrored
  <2>3. ram' = [ram EXCEPT !.groups = nvm["groups"], !.assoc = nvm["assoc"]]
    BY <1>3 DEF AppMeshInit
  <2>4. /\ ram'.groups = nvm["groups"] /\ ram'.assoc = nvm["assoc"]
        /\ ram'.bearer = ram.bearer /\ ram'.ttl = ram.ttl
    BY <2>3 DEF Types, RamType
  <2>5. nvm["assoc"] # "started"
    BY ValueFacts DEF Types, Item
  <2>6. todo' = <<Write("network", "blank")>> \/ todo' = <<>>
    BY <1>3 DEF AppMeshInit
  <2>7. \A i \in {"store", "sanity", "bearer", "ttl", "assoc", "groups"} :
            Ends(todo', i, nvm[i], nvm[i])
    BY <2>6, EndsOne, EndsEmpty
  <2>8. advert' = (nvm["assoc"] = "none")
    BY <1>3 DEF AppMeshInit
  <2>9. ram'.assoc = "none" => advert'
    BY <2>4, <2>8
  <2>10. QED BY <1>0, <2>1, <2>2, <2>4, <2>5, <2>7, <2>9 DEF Mirrored, Settles
<1>4. QED BY <1>1, <1>2, <1>3

LEMMA EventMirrored == Types /\ Mirrored /\ Events => Mirrored'
<1> SUFFICES ASSUME Types, Mirrored, Events PROVE Mirrored'
  OBVIOUS
<1>0. /\ phase = "running" /\ phase' = "running" /\ todo = <<>> /\ nvm' = nvm
  BY EventTypes
<1>1. /\ nvm["store"] = "created" /\ nvm["sanity"] = "magic"
      /\ nvm["bearer"] = ram.bearer /\ nvm["ttl"] = ram.ttl
      /\ nvm["assoc"] = IF ram.assoc = "started" THEN "none" ELSE ram.assoc
      /\ ram.groups # "gateway" => nvm["groups"] = ram.groups
      /\ ram.assoc = "none" => advert
  BY <1>0, Rest DEF Mirrored
<1>2. ram \in RamType
  BY DEF Types
<1> SUFFICES /\ Ends(todo', "store", nvm["store"], "created")
             /\ Ends(todo', "sanity", nvm["sanity"], "magic")
             /\ Ends(todo', "bearer", nvm["bearer"], ram'.bearer)
             /\ Ends(todo', "ttl", nvm["ttl"], ram'.ttl)
             /\ Ends(todo', "assoc", nvm["assoc"],
                      IF ram'.assoc = "started" THEN "none" ELSE ram'.assoc)
             /\ ram'.groups # "gateway" => Ends(todo', "groups", nvm["groups"], ram'.groups)
             /\ ram'.assoc = "none" => advert'
  BY <1>0 DEF Mirrored, Settles
<1>3. CASE AssocStarted
  <2>1. /\ ram.assoc = "none" /\ ram' = [ram EXCEPT !.assoc = "started"] /\ todo' = <<>>
    BY <1>0, <1>3 DEF AssocStarted
  <2>2. /\ ram'.assoc = "started" /\ ram'.bearer = ram.bearer /\ ram'.ttl = ram.ttl
        /\ ram'.groups = ram.groups
    BY <1>2, <2>1 DEF RamType
  <2>3. QED BY <1>1, <2>1, <2>2, EndsEmpty
<1>4. CASE AssocComplete
  <2>1. /\ ram' = [ram EXCEPT !.assoc = "associated", !.bearer = "private"]
        /\ todo' = Joining
    BY <1>4 DEF AssocComplete, Joining
  <2>2. /\ ram'.assoc = "associated" /\ ram'.bearer = "private" /\ ram'.ttl = ram.ttl
        /\ ram'.groups = ram.groups
    BY <1>2, <2>1 DEF RamType
  <2>3. QED BY <1>1, <2>1, <2>2, JoiningResult
<1>5. CASE AssocFailed
  <2>1. /\ ram' = [ram EXCEPT !.assoc = "none"] /\ todo' = <<Write("assoc", "none")>>
        /\ advert' = TRUE
    BY <1>5 DEF AssocFailed
  <2>2. /\ ram'.assoc = "none" /\ ram'.bearer = ram.bearer /\ ram'.ttl = ram.ttl
        /\ ram'.groups = ram.groups
    BY <1>2, <2>1 DEF RamType
  <2>3. QED BY <1>1, <2>1, <2>2, EndsOne
<1>6. CASE deviceIdAdvertTimeoutHandler
  <2>1. ram' = ram /\ todo' = <<>> /\ advert' = (ram.assoc = "none")
    BY <1>0, <1>6 DEF deviceIdAdvertTimeoutHandler
  <2>2. ram'.assoc = "none" => advert'
    BY <2>1
  <2>3. QED BY <1>1, <2>1, <2>2, EndsEmpty
<1>7. CASE RemoveAssociation
  <2>1. /\ ram' = [assoc |-> "none", bearer |-> "promiscuous", ttl |-> "default",
                    groups |-> "default"]
        /\ todo' = Leaving /\ advert' = TRUE
    BY <1>7 DEF RemoveAssociation, Leaving
  <2>2. QED BY <1>1, <2>1, LeavingResult
<1>8. CASE SetBearer
  <2>1. PICK b \in BearerCommands :
           ram' = [ram EXCEPT !.bearer = b] /\ todo' = <<Write("bearer", b)>>
    BY <1>8 DEF SetBearer
  <2>2. /\ ram'.assoc = ram.assoc /\ ram'.bearer = b /\ ram'.ttl = ram.ttl
        /\ ram'.groups = ram.groups
    BY <1>2, <2>1 DEF RamType
  <2>3. advert' = advert
    BY <1>8 DEF SetBearer
  <2>4. QED BY <1>1, <2>1, <2>2, <2>3, EndsOne
<1>9. CASE SetTtl
  <2>1. ram' = [ram EXCEPT !.ttl = "set"] /\ todo' = <<Write("ttl", "set")>> /\ advert' = advert
    BY <1>9 DEF SetTtl
  <2>2. /\ ram'.assoc = ram.assoc /\ ram'.bearer = ram.bearer /\ ram'.ttl = "set"
        /\ ram'.groups = ram.groups
    BY <1>2, <2>1 DEF RamType
  <2>3. QED BY <1>1, <2>1, <2>2, EndsOne
<1>10. CASE HandleGroupSetMsg
  <2>1. /\ ram' = [ram EXCEPT !.groups = "assigned"]
        /\ todo' = <<Write("groups", "assigned")>> /\ advert' = advert
    BY <1>10 DEF HandleGroupSetMsg
  <2>2. /\ ram'.assoc = ram.assoc /\ ram'.bearer = ram.bearer /\ ram'.ttl = ram.ttl
        /\ ram'.groups = "assigned"
    BY <1>2, <2>1 DEF RamType
  <2>3. QED BY <1>1, <2>1, <2>2, EndsOne
<1>11. CASE GatewaySetsGroups
  <2>1. ram' = [ram EXCEPT !.groups = "gateway"] /\ todo' = <<>> /\ advert' = advert
    BY <1>0, <1>11 DEF GatewaySetsGroups
  <2>2. /\ ram'.assoc = ram.assoc /\ ram'.bearer = ram.bearer /\ ram'.ttl = ram.ttl
        /\ ram'.groups = "gateway"
    BY <1>2, <2>1 DEF RamType
  <2>3. QED BY <1>1, <2>1, <2>2, EndsEmpty
<1>12. QED
  BY <1>3, <1>4, <1>5, <1>6, <1>7, <1>8, <1>9, <1>10, <1>11 DEF Events

LEMMA NextMirrored == Types /\ Mirrored /\ [Next]_vars => Mirrored'
<1> SUFFICES ASSUME Types, Mirrored, [Next]_vars PROVE Mirrored'
  OBVIOUS
<1>1. CASE Restart \/ Update
  BY <1>1 DEF Restart, Update, Boot, Mirrored
<1>2. CASE UNCHANGED vars
  BY <1>2 DEF vars, Mirrored, Settles
<1>3. QED
  BY <1>1, <1>2, WriteMirrored, StartMirrored, EventMirrored
  DEF Next, StartUp, MeshEvent, Events

-----------------------------------------------------------------------------
(***************************************************************************)
(* Until a handler is cut short, network, state and groups agree.           *)
(***************************************************************************)

LEMMA WriteClean == Types /\ Clean /\ Nvm_Write => Clean'
<1> SUFFICES ASSUME Types, Clean, Nvm_Write, cut' = FALSE
             PROVE  (\E a, n, g : Coherent(a, n, g))'
  BY DEF Clean
<1>1. UNCHANGED <<phase, fresh, cut>>
  BY DEF Nvm_Write
<1>2. PICK a, n, g : Coherent(a, n, g)
  BY <1>1 DEF Clean
<1>3. \A i \in Item : \A x : Settles(i, x) => Ends(todo', i, nvm'[i], x)
  BY WriteEnds
<1>4. Coherent(a, n, g)'
  BY <1>1, <1>2, <1>3 DEF Coherent, Settles, Item
<1>5. QED BY <1>4

\* The values of a store at rest.
Settled == \* network, state and groups agree, outside handlers
    /\ nvm["assoc"] = "associated" <=> nvm["network"] = "joined"
    /\ nvm["groups"] = "assigned" => nvm["assoc"] = "associated"
    /\ nvm["network"] = "joined" => nvm["store"] = "created" /\ nvm["sanity"] = "magic"
    /\ fresh = TRUE /\ phase # "running" => nvm["network"] # "joined"

LEMMA CleanAtRest ==
    ASSUME Clean, todo = <<>>, cut = FALSE
    PROVE  Settled
<1>1. PICK a, n, g : Coherent(a, n, g)
  BY DEF Clean
<1>2. /\ nvm["assoc"] = a /\ nvm["network"] = n /\ nvm["groups"] = g
      /\ n = "joined" => nvm["store"] = "created" /\ nvm["sanity"] = "magic"
  BY <1>1, Rest DEF Coherent
<1>3. QED BY <1>1, <1>2 DEF Coherent, Settled

\* What a handler has to leave behind.
LEMMA CleanFrom ==
    ASSUME NEW a, NEW n, NEW g, nvm' = nvm,
           Ends(todo', "assoc", nvm["assoc"], a), Ends(todo', "network", nvm["network"], n),
           Ends(todo', "groups", nvm["groups"], g),
           a = "associated" <=> n = "joined",
           g = "assigned" => a = "associated",
           n = "joined" => /\ Ends(todo', "store", nvm["store"], "created")
                           /\ Ends(todo', "sanity", nvm["sanity"], "magic"),
           fresh' = TRUE /\ phase' # "running" => n # "joined"
    PROVE  Clean'
<1>1. Coherent(a, n, g)'
  BY DEF Coherent, Settles
<1>2. QED BY <1>1 DEF Clean

\* Nothing written.
LEMMA CleanStays ==
    ASSUME Settled, nvm' = nvm, todo' = <<>>,
           fresh' = TRUE /\ phase' # "running" => nvm["network"] # "joined"
    PROVE  Clean'
<1>1. \A i \in Item : Ends(todo', i, nvm[i], nvm[i])
  BY EndsEmpty
<1>2. /\ Ends(todo', "assoc", nvm["assoc"], nvm["assoc"])
      /\ Ends(todo', "network", nvm["network"], nvm["network"])
      /\ Ends(todo', "groups", nvm["groups"], nvm["groups"])
      /\ Ends(todo', "store", nvm["store"], nvm["store"])
      /\ Ends(todo', "sanity", nvm["sanity"], nvm["sanity"])
  BY <1>1 DEF Item
<1>3. nvm["network"] = "joined" => /\ Ends(todo', "store", nvm["store"], "created")
                                  /\ Ends(todo', "sanity", nvm["sanity"], "magic")
  BY <1>2 DEF Settled
<1>4. /\ nvm["assoc"] = "associated" <=> nvm["network"] = "joined"
      /\ nvm["groups"] = "assigned" => nvm["assoc"] = "associated"
  BY DEF Settled
<1>5. QED BY <1>2, <1>3, <1>4, CleanFrom

LEMMA StartClean ==
    Types /\ Clean /\ (NvmProcessEvent \/ readPersistentStore \/ AppMeshInit) => Clean'
<1> SUFFICES ASSUME Types, Clean, NvmProcessEvent \/ readPersistentStore \/ AppMeshInit
             PROVE  Clean'
  OBVIOUS
<1>0. todo = <<>> /\ nvm' = nvm /\ cut' = cut /\ phase # "running"
  BY DEF NvmProcessEvent, readPersistentStore, AppMeshInit, Idle
<1> SUFFICES ASSUME cut = FALSE PROVE Clean'
  BY <1>0 DEF Clean
<1>1. Settled
  BY <1>0, CleanAtRest
<1> DEFINE a == nvm["assoc"]
           n == nvm["network"]
           g == nvm["groups"]
<1>2. CASE NvmProcessEvent
  <2>1. \/ todo' = <<Write("store", "created")>> /\ nvm["store"] = "blank"
        \/ todo' = <<Write("sanity", "magic")>> /\ nvm["sanity"] # "magic"
        \/ todo' = <<>> /\ fresh' = fresh
    BY <1>0, <1>2 DEF NvmProcessEvent
  <2>2. \A i \in {"assoc", "network", "groups"} : Ends(todo', i, nvm[i], nvm[i])
    BY <2>1, EndsOne, EndsEmpty
  <2>3. n = "joined" => todo' = <<>> /\ fresh' = fresh
    BY <1>1, <2>1 DEF Settled
  <2>4. n = "joined" => /\ Ends(todo', "store", nvm["store"], "created")
                        /\ Ends(todo', "sanity", nvm["sanity"], "magic")
    BY <1>1, <2>3, EndsEmpty DEF Settled
  <2>5. fresh' = TRUE /\ phase' # "running" => n # "joined"
    BY <1>0, <1>1, <2>3 DEF Settled
  <2>6. QED BY <1>0, <1>1, <2>2, <2>4, <2>5, CleanFrom DEF Settled
<1>3. CASE readPersistentStore
  <2>1. phase' = "starting" /\ fresh' = fresh
    BY <1>3 DEF readPersistentStore
  <2>2. <<>> \o WriteDefaults = WriteDefaults
    BY DEF WriteDefaults, WriteGroups
  <2>3. \/ todo' = <<>>
        \/ fresh = TRUE /\ todo' = WriteFresh \o WriteDefaults
        \/ todo' = WriteDefaults
    BY <1>0, <1>3, <2>2 DEF readPersistentStore, Types
  <2>4. CASE todo' = <<>>
    BY <1>0, <1>1, <2>1, <2>4, CleanStays DEF Settled
  <2>5. CASE fresh = TRUE /\ todo' = WriteFresh \o WriteDefaults
    <3>1. n # "joined"
      BY <1>0, <1>1, <2>5 DEF Settled
    <3>2. /\ Ends(todo', "assoc", a, "none") /\ Ends(todo', "network", n, n)
          /\ Ends(todo', "groups", g, "default")
      BY <2>5, FreshResult
    <3>3. QED BY <1>0, <3>1, <3>2, CleanFrom
  <2>6. CASE todo' = WriteDefaults
    <3>1. /\ \A i \in {"assoc", "network", "store", "sanity"} : Ends(todo', i, nvm[i], nvm[i])
          /\ Ends(todo', "groups", g, "default")
      BY <2>6, VersionResult
    <3>2. n = "joined" => /\ Ends(todo', "store", nvm["store"], "created")
                          /\ Ends(todo', "sanity", nvm["sanity"], "magic")
      BY <1>1, <3>1 DEF Settled
    <3>3. a = "associated" <=> n = "joined"
      BY <1>1 DEF Settled
    <3>4. fresh' = TRUE /\ phase' # "running" => n # "joined"
      BY <1>0, <1>1, <2>1 DEF Settled
    <3>5. QED BY <1>0, <3>1, <3>2, <3>3, <3>4, CleanFrom
  <2>7. QED BY <2>3, <2>4, <2>5, <2>6
<1>4. CASE AppMeshInit
  <2>1. phase' = "running"
    BY <1>4 DEF AppMeshInit
  <2>2. \/ a = "none" /\ todo' = <<Write("network", "blank")>>
        \/ todo' = <<>>
    BY <1>4 DEF AppMeshInit
  <2>3. CASE a = "none" /\ todo' = <<Write("network", "blank")>>
    <3>1. g # "assigned"
      BY <1>1, <2>3 DEF Settled
    <3>2. /\ Ends(todo', "assoc", a, a) /\ Ends(todo', "network", n, "blank")
          /\ Ends(todo', "groups", g, g)
      BY <2>3, EndsOne
    <3>3. QED BY <1>0, <2>1, <2>3, <3>1, <3>2, CleanFrom
  <2>4. CASE todo' = <<>>
    BY <1>0, <1>1, <2>1, <2>4, CleanStays
  <2>5. QED BY <2>2, <2>3, <2>4
<1>5. QED BY <1>2, <1>3, <1>4

LEMMA EventClean == Types /\ Mirrored /\ Clean /\ Events => Clean'
<1> SUFFICES ASSUME Types, Mirrored, Clean, Events PROVE Clean'
  OBVIOUS
<1>0. /\ phase = "running" /\ phase' = "running" /\ todo = <<>> /\ nvm' = nvm /\ cut' = cut
  BY EventTypes
<1> SUFFICES ASSUME cut = FALSE PROVE Clean'
  BY <1>0 DEF Clean
<1>1. Settled
  BY <1>0, CleanAtRest
<1>2. /\ nvm["store"] = "created" /\ nvm["sanity"] = "magic"
      /\ nvm["assoc"] = IF ram.assoc = "started" THEN "none" ELSE ram.assoc
  BY <1>0, Rest DEF Mirrored
<1> DEFINE a == nvm["assoc"]
           n == nvm["network"]
           g == nvm["groups"]
<1>3. CASE \/ AssocStarted \/ deviceIdAdvertTimeoutHandler \/ GatewaySetsGroups
           \/ SetBearer \/ SetTtl
  <2>1. \/ todo' = <<>> \/ \E b : todo' = <<Write("bearer", b)>>
        \/ todo' = <<Write("ttl", "set")>>
    BY <1>0, <1>3 DEF AssocStarted, deviceIdAdvertTimeoutHandler, GatewaySetsGroups,
                      SetBearer, SetTtl
  <2>2. \A i \in {"assoc", "network", "groups", "store", "sanity"} : Ends(todo', i, nvm[i], nvm[i])
    BY <2>1, EndsOne, EndsEmpty
  <2>3. QED BY <1>0, <1>1, <1>2, <2>2, CleanFrom DEF Settled
<1>4. CASE AssocComplete
  <2>1. todo' = Joining
    BY <1>4 DEF AssocComplete, Joining
  <2>2. /\ Ends(todo', "assoc", a, "associated") /\ Ends(todo', "network", n, "joined")
        /\ Ends(todo', "groups", g, g)
        /\ Ends(todo', "store", nvm["store"], "created")
        /\ Ends(todo', "sanity", nvm["sanity"], "magic")
    BY <1>2, <2>1, JoiningResult
  <2>3. QED BY <1>0, <2>2, CleanFrom
<1>5. CASE AssocFailed
  <2>1. ram.assoc = "started" /\ todo' = <<Write("assoc", "none")>>
    BY <1>5 DEF AssocFailed
  <2>2. n # "joined" /\ g # "assigned"
    BY <1>1, <1>2, <2>1 DEF Settled
  <2>3. /\ Ends(todo', "assoc", a, "none") /\ Ends(todo', "network", n, n)
        /\ Ends(todo', "groups", g, g)
    BY <2>1, EndsOne
  <2>4. QED BY <1>0, <2>2, <2>3, CleanFrom
<1>6. CASE RemoveAssociation
  <2>1. todo' = Leaving
    BY <1>6 DEF RemoveAssociation, Leaving
  <2>2. /\ Ends(todo', "assoc", a, "none") /\ Ends(todo', "network", n, "blank")
        /\ Ends(todo', "groups", g, "default")
    BY <2>1, LeavingResult
  <2>3. QED BY <1>0, <2>2, CleanFrom
<1>7. CASE HandleGroupSetMsg
  <2>1. n = "joined" /\ todo' = <<Write("groups", "assigned")>>
    BY <1>7 DEF HandleGroupSetMsg
  <2>2. a = "associated"
    BY <1>1, <2>1 DEF Settled
  <2>3. /\ \A i \in {"assoc", "network", "store", "sanity"} : Ends(todo', i, nvm[i], nvm[i])
        /\ Ends(todo', "groups", g, "assigned")
    BY <2>1, EndsOne
  <2>4. QED BY <1>0, <1>2, <2>1, <2>2, <2>3, CleanFrom
<1>8. QED BY <1>3, <1>4, <1>5, <1>6, <1>7 DEF Events

LEMMA NextClean == Types /\ Mirrored /\ Clean /\ [Next]_vars => Clean'
<1> SUFFICES ASSUME Types, Mirrored, Clean, [Next]_vars PROVE Clean'
  OBVIOUS
<1>1. CASE Restart \/ Update
  <2>1. nvm' = nvm /\ todo' = <<>> /\ phase' = "opening" /\ fresh' = FALSE
    BY <1>1 DEF Restart, Update, Boot
  <2>2. cut' = FALSE => cut = FALSE /\ todo = <<>>
    BY <1>1 DEF Restart, Update, Running, Idle, Types
  <2>3. CASE cut' = FALSE
    <3>1. Settled
      BY <2>2, <2>3, CleanAtRest
    <3>2. QED BY <2>1, <3>1, CleanStays
  <2>4. CASE cut' # FALSE
    BY <2>4 DEF Clean
  <2>5. QED BY <2>3, <2>4
<1>2. CASE UNCHANGED vars
  BY <1>2 DEF vars, Clean, Coherent, Settles
<1>3. QED
  BY <1>1, <1>2, WriteClean, StartClean, EventClean DEF Next, StartUp, MeshEvent, Events

-----------------------------------------------------------------------------
(***************************************************************************)
(* The theorems.                                                            *)
(***************************************************************************)

LEMMA Invariant == Spec => []IInv
<1>1. Init => IInv
  <2> SUFFICES ASSUME Init PROVE IInv
    OBVIOUS
  <2>1. Types
    BY InitTypes
  <2>2. /\ \A i \in Item : nvm[i] = IF i = "version" THEN 0 ELSE "blank"
        /\ todo = <<>> /\ phase = "opening" /\ fresh = FALSE /\ firmware = 1
    BY DEF Init
  <2>3. Versioned
    BY <2>2, OrderedFew DEF Versioned, VersionLast, Item
  <2>4. Mirrored
    BY <2>2 DEF Mirrored
  <2>5. Coherent("blank", "blank", "blank")
    BY <2>2, Rest DEF Coherent, Item
  <2>6. QED BY <2>1, <2>3, <2>4, <2>5 DEF IInv, Clean
<1>2. IInv /\ [Next]_vars => IInv'
  BY NextTypes, NextVersioned, NextMirrored, NextClean DEF IInv
<1>3. QED BY <1>1, <1>2, PTL DEF Spec

\* Every item, write and variable holds a value of the kind the code gives it.
THEOREM TypeCorrect == Spec => []TypeOK
<1>1. IInv => TypeOK
  <2> SUFFICES ASSUME Types PROVE TypeOK
    BY DEF IInv
  <2>1. todo \in Seq(Rec) /\ \A k \in 1 .. Len(todo) : todo[k].value \in Value(todo[k].item)
    BY DEF Types, Typed
  <2>2. \A k \in 1 .. Len(todo) : todo[k] \in Rec
    BY <2>1
  <2>3. \A k \in 1 .. Len(todo) : todo[k].item \in Item
    BY <2>2 DEF Rec
  <2>4. /\ ram.assoc \in {"blank", "none", "started", "associated"}
        /\ ram.bearer \in Value("bearer") /\ ram.ttl \in Value("ttl")
        /\ ram.groups \in Value("groups") \union {"gateway"}
    BY ValueFacts DEF Types, RamType
  <2>5. QED BY <2>1, <2>3, <2>4 DEF Types, TypeOK
<1>2. QED BY <1>1, Invariant, PTL

\* A store that names the firmware's version has all the items that are reset
\* with it, wherever a restart cut the writes short (readPersistentStore).
THEOREM VersionIsLast == Spec => []VersionLast
<1>1. IInv => VersionLast
  BY DEF IInv, Versioned
<1>2. QED BY <1>1, Invariant, PTL

\* Between handlers the store holds what the hub runs with
\* (appProcessMeshEvent, HandleGroupSetMsg, RemoveAssociation, AppMeshInit).
THEOREM StoreFollows == Spec => []StoreHoldsState
<1>1. IInv => StoreHoldsState
  <2>1. ASSUME IInv, Running
        PROVE  /\ ram.assoc = nvm["assoc"] \/ ram.assoc = "started"
               /\ ram.bearer = nvm["bearer"] /\ ram.ttl = nvm["ttl"]
               /\ ram.groups = nvm["groups"] \/ ram.groups = "gateway"
    BY <2>1, Rest DEF Running, Idle, IInv, Mirrored
  <2>2. QED BY <2>1 DEF StoreHoldsState
<1>2. QED BY <1>1, Invariant, PTL

\* A hub that runs unassociated advertises itself (InitiateAssociation,
\* deviceIdAdvertTimeoutHandler).
THEOREM AdvertisesItself == Spec => []UnassociatedAdvertises
<1>1. IInv => UnassociatedAdvertises
  BY DEF IInv, Mirrored, UnassociatedAdvertises, Running
<1>2. QED BY <1>1, Invariant, PTL

\* Until a start or a handler is cut short an associated hub has a network
\* (RemoveAssociation, CSR_MESH_ASSOC_COMPLETE_EVENT).
THEOREM AssociatedIsInNetwork == Spec => []AssociatedHasNetwork
<1>1. IInv => AssociatedHasNetwork
  <2> SUFFICES ASSUME IInv, cut = FALSE, Running, ram.assoc = "associated"
               PROVE  nvm["network"] = "joined"
    BY DEF AssociatedHasNetwork, IInv, Types
  <2>1. phase = "running" /\ todo = <<>>
    BY DEF Running, Idle
  <2>2. Settled /\ nvm["assoc"] = "associated"
    BY <2>1, Rest, CleanAtRest DEF IInv, Mirrored
  <2>3. QED BY <2>2 DEF Settled
<1>2. QED BY <1>1, Invariant, PTL

\* And one that is not associated has no group of an earlier network.
THEOREM UnassociatedHasNoGroups == Spec => []UnassociatedIsReset
<1>1. IInv => UnassociatedIsReset
  <2> SUFFICES ASSUME IInv, cut = FALSE, Running, ram.assoc = "none"
               PROVE  nvm["groups"] # "assigned"
    BY DEF UnassociatedIsReset, IInv, Types
  <2>1. phase = "running" /\ todo = <<>>
    BY DEF Running, Idle
  <2>2. Settled /\ nvm["assoc"] = "none"
    BY <2>1, Rest, CleanAtRest DEF IInv, Mirrored
  <2>3. QED BY <2>2 DEF Settled
<1>2. QED BY <1>1, Invariant, PTL
=============================================================================
