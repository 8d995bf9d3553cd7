--------------------------- MODULE OtaUpdateProofs ---------------------------
(***************************************************************************)
(* Theorems about OtaUpdate, for every file, every number of buffers,      *)
(* connections and faults, and whatever the user aborts: the store the hub *)
(* boots from is whole, what is run on trial has been verified, and the    *)
(* two stores implement the abstract two stages.  They hold of a firmware  *)
(* that has done what it was asked before the next connection (Prompt);    *)
(* that the mesh is taken up again (MeshResumes) holds of any.             *)
(*                                                                         *)
(* None of it is inductive.  The server alone would erase what it boots    *)
(* from if the commands came in another order, so the invariant says in    *)
(* which order they can come: what the client has still to send (Client),  *)
(* which notifications can be under way (Stale), where a transfer stands   *)
(* (Transfer), and that a new application refuses any file (Flash).        *)
(***************************************************************************)
EXTENDS OtaUpdate, SequenceTheorems, TLAPS

\* The values of the fields
Kinds == {"none", "write_cfm", "ack", "ACK", "CONNECT", "conn_ack",
          "DISCONNECT_REQ", "disc_ack", "SYNC_REQ", "SYNC_CFM",
          "START_REQ", "START_CFM", "START_DATA_REQ", "DATA_BYTES_REQ",
          "DATA", "ERROR_IND", "ABORT_REQ", "ABORT_CFM", "VALID_DONE_REQ",
          "VALID_CFM", "COMPLETE", "TRANSFER_COMPLETE_RES",
          "IN_PROGRESS_RES", "COMMIT_REQ", "COMMIT_CFM", "COMPLETE_IND"}
Works == {"key", "set", "chunk", "hash", "run"}
Places == {"IDLE", "CONNECT", "SYNC_REQ", "START_REQ",
           "START_REQ_AFTER_REBOOT", "DATA_REQ", "TRANSFER",
           "WAIT_VALIDATION", "WAIT_VALIDATION_RSP",
           "WAIT_POST_TRANSFER_DISCONNECT",
           "WAIT_POST_TRANSFER_RECONNECTION", "IN_PROGRESS_REQ",
           "COMMIT_REQ", "DISCONNECT", "ABORTING_DISCONNECT"}
Modes == {"PRE_FAIL", "WAIT_FOR_HOST", "WAIT_FOR_DEVICE", "IN_PROGRESS",
          "ABORTED"}
Pieces == {"id", "len", "body", "part", "phdr", "data", "foot", "flen", "sig"}
Steps == {"id", "len", "body", "unknown", "phdr", "data", "flen", "sig"}

Message == [t : Kinds, v : Nat]
Queue == [q : Seq(Message), held : Message, done : BOOLEAN, used : Int]
Request == [t : Works, s : Stores \cup {0}]
Ram == [app : Stores, cs : Stores \cup {0}, state : Modes, stage : Steps,
        got : Nat, valid : BOOLEAN, reset : BOOLEAN, upgraded : BOOLEAN,
        last : BOOLEAN, sum : {"none", "image", "junk"},
        part : Stores \cup {0}, timer : BOOLEAN, field : {"version", "nvm"},
        trial : BOOLEAN, commit_cfm : BOOLEAN, busy : BOOLEAN, cb : BOOLEAN,
        closing : BOOLEAN]
Relayer == [state : Places, left : Int, eof : BOOLEAN, off : 0 .. Len(File),
            start : {"no", "timer", "done"}, closing : BOOLEAN, mesh : BOOLEAN]

Types ==
    /\ link \in BOOLEAN /\ up \in Message /\ tx \in Queue
    /\ cl \in Relayer /\ wr \in [busy : BOOLEAN, pend : Message]
    /\ resume \in {"start", "post"} /\ store \in [Stores -> Int]
    /\ committed \in Stores /\ once \in Stores \cup {0}
    /\ fw \in Seq(Request) /\ dev \in Ram

Other == 3 - dev.app
New == store[dev.app] # Orig

Out(t) == up.t = t \/ wr.pend.t = t

\* What the client can still do in this connection
PreStart == \/ cl.state \in {"CONNECT", "SYNC_REQ", "START_REQ"}
            \/ cl.state = "IDLE" /\ cl.start = "timer"
Handing == cl.state \in {"DATA_REQ", "TRANSFER"}
Asking == cl.state \in {"WAIT_VALIDATION", "WAIT_VALIDATION_RSP"}
Over == ~(PreStart \/ Handing \/ Asking)
PreCommit == PreStart \/ cl.state \in {"START_REQ_AFTER_REBOOT", "IN_PROGRESS_REQ"}

Ops(kinds) == \E i \in 1 .. Len(fw) : fw[i].t \in kinds

(***************************************************************************)
(* Apart, nothing is under way on the link and nobody waits for an answer. *)
(***************************************************************************)
Apart ==
    ~link => /\ up = None /\ ~wr.busy /\ tx.q = <<>> /\ ~tx.done /\ tx.used = 0
             /\ cl.state \in {"IDLE", "WAIT_POST_TRANSFER_RECONNECTION"}
             /\ cl.mesh \/ cl.state = "WAIT_POST_TRANSFER_RECONNECTION"
             /\ ~dev.busy /\ ~dev.closing

(***************************************************************************)
(* The client sends each of the commands that must not be repeated once in *)
(* a connection, and the packets of the file in their order.               *)
(***************************************************************************)
Client ==
    /\ ~wr.busy => up = None /\ wr.pend = None
    /\ link => /\ cl.start \in {"timer", "done"}
               /\ cl.start = "timer" => cl.state = "IDLE"
    /\ PreStart => \A t \in {"START_DATA_REQ", "DATA", "TRANSFER_COMPLETE_RES",
                             "ABORT_REQ"} : ~Out(t)
    /\ Out("ABORT_REQ") =>
        Over /\ \A t \in {"START_DATA_REQ", "DATA", "TRANSFER_COMPLETE_RES"} : ~Out(t)
    /\ Out("TRANSFER_COMPLETE_RES") => Over
    /\ ~(up.t = "START_DATA_REQ" /\ wr.pend.t = "START_DATA_REQ")
    /\ PreCommit => ~Out("COMMIT_CFM")
    /\ ~(up.t = "COMMIT_CFM" /\ wr.pend.t = "COMMIT_CFM")
    /\ \A m \in {up, wr.pend} :
        m.t = "DATA" => /\ m.v \in 1 .. Len(File)
                        /\ Handing => m.v <= cl.off
    /\ up.t = "DATA" /\ wr.pend.t = "DATA" => up.v < wr.pend.v

(***************************************************************************)
(* What is in flash.  An old application is the committed one and writes   *)
(* the other store.  A new one takes no file, because its version is not   *)
(* below the file's; until it is committed the old one stays whole.        *)
(***************************************************************************)
Flash ==
    /\ (dev.cs = 0) <=> (fw = <<Op("key", 0)>>)
    /\ Ops({"key"}) => dev.cs = 0
    /\ link => dev.cs # 0
    /\ ~New => /\ dev.app = committed /\ dev.cs \in {0, dev.app}
               /\ Ops({"chunk"}) => dev.part = Other
               /\ \A i \in 1 .. Len(fw) :
                    \/ fw[i].t = "key"
                    \/ fw[i].t \in {"set", "chunk", "hash"} /\ fw[i].s = Other
    /\ New => /\ store[dev.app] = Chunks
              /\ dev.stage \in {"id", "len", "body"} /\ dev.field = "version"
              /\ dev.got = 0 /\ ~dev.upgraded /\ once = 0
              /\ fw \in {<<>>, <<Op("key", 0)>>, <<Op("run", dev.app)>>,
                         <<Op("set", Other)>>}
              /\ fw = <<Op("run", dev.app)>> => dev.cs = Other
              /\ dev.app # committed =>
                    /\ store[committed] = Orig /\ dev.cs \in {0, committed}
                    /\ fw # <<Op("set", Other)>>
              /\ link /\ (PreCommit \/ Out("COMMIT_CFM")) => fw = <<>>
    /\ once # 0 => /\ ~New /\ link /\ dev.closing /\ dev.reset
                   /\ once = Other /\ store[Other] = Chunks
                   /\ ~Ops({"set", "chunk"})

(***************************************************************************)
(* Where a transfer to an old application stands: given up, not yet        *)
(* writing, writing, or written and being verified.  The header of the     *)
(* partition is the fifth packet; Beyond says that it does not come again. *)
(***************************************************************************)
Beyond ==
    /\ up.t = "DATA" => up.v > 5
    /\ wr.pend.t = "DATA" => wr.pend.v > 5
    /\ Handing => cl.off >= 5

Started == ~PreStart /\ ~Out("START_DATA_REQ")

GivenUp == Over /\ \A t \in {"START_DATA_REQ", "DATA", "TRANSFER_COMPLETE_RES"} : ~Out(t)

Fresh ==
    /\ fw = <<>> /\ dev.sum = "none" /\ ~dev.valid /\ dev.stage # "data"
    /\ ~Started => dev.state # "IN_PROGRESS"
    /\ dev.stage \in {"unknown", "phdr"} => dev.got = 0
    /\ dev.stage = "phdr" => Started /\ Beyond

Writing ==
    /\ Started /\ Beyond
    /\ dev.stage = "data" /\ dev.part = Other
    /\ dev.sum = "none" /\ ~dev.valid /\ ~Ops({"hash"})
    /\ dev.got = 0 => ~Ops({"chunk"})
    /\ dev.got # 0 => ~dev.last

Written ==
    /\ Started /\ Beyond
    /\ dev.stage \in {"unknown", "flen", "sig"} /\ dev.part = Other
    /\ \A i, j \in 1 .. Len(fw) : i < j /\ fw[i].t = "hash" => fw[j].t = "hash"
    /\ dev.sum # "none" => ~Ops({"set", "chunk"})
    /\ dev.sum = "image" \/ dev.valid => store[Other] = Chunks
    /\ dev.valid => ~Ops({"set", "chunk"})

Transfer ==
    link /\ ~New =>
        /\ GivenUp \/ Fresh \/ Writing \/ Written
        /\ Out("TRANSFER_COMPLETE_RES") => dev.valid

(***************************************************************************)
(* The start of a connection, step by step, and why the notification of    *)
(* completion that may have been held back since an earlier connection is  *)
(* not taken for one of this: it comes before the first answer to a        *)
(* control command.                                                        *)
(***************************************************************************)
Opening ==
    /\ link /\ cl.state = "IDLE" /\ cl.start = "timer" =>
        /\ up = None /\ ~wr.busy /\ tx.q = <<>> /\ ~tx.done /\ tx.used = 0
        /\ dev.state # "WAIT_FOR_DEVICE"
    /\ cl.state = "CONNECT" =>
        /\ link /\ wr.pend = None /\ ~tx.done /\ dev.state # "WAIT_FOR_DEVICE"
        /\ \/ /\ up = Msg("CONNECT", 0) /\ wr.busy
              /\ tx.q = <<>> /\ tx.used = 0
           \/ /\ up = None /\ wr.busy
              /\ tx.q = <<WriteCfm, Msg("conn_ack", 0)>> /\ tx.used = 1
           \/ /\ up = None /\ ~wr.busy
              /\ tx.q = <<Msg("conn_ack", 0)>> /\ tx.used = 1

Stale ==
    link /\ ~New /\ ~dev.valid =>
        /\ tx.held.t = "COMPLETE" =>
            \/ Over \/ cl.state \in {"IDLE", "CONNECT"}
            \/ /\ cl.state = "SYNC_REQ" /\ tx.done /\ tx.q = <<>> /\ tx.used = 0
               /\ dev.state # "WAIT_FOR_DEVICE"
        /\ \A i \in 1 .. Len(tx.q) :
            tx.q[i].t = "COMPLETE" =>
                Over \/ (cl.state = "SYNC_REQ" /\ i = 1)

IInv == Apart /\ Client /\ Flash /\ Transfer /\ Opening /\ Stale

-----------------------------------------------------------------------------
(* The file, the notifications and the writes *)

LEMMA FileParts ==
    /\ File \in Seq(Pieces) /\ Len(File) = 8 + Chunks + Sigs
    /\ \A v \in 1 .. Len(File) : File[v] = "part" => v = 5
PROOF
<1> DEFINE H == <<"id", "len", "body", "body", "part", "phdr">>
           D == Times("data", Chunks)
           F == <<"foot", "flen">>
           S == Times("sig", Sigs)
<1>1. D \in Seq(Pieces) /\ Len(D) = Chunks /\ \A i \in 1 .. Chunks : D[i] # "part"
  BY OtaLinkAssumption DEF Times, Pieces
<1>2. S \in Seq(Pieces) /\ Len(S) = Sigs /\ \A i \in 1 .. Sigs : S[i] # "part"
  BY OtaLinkAssumption DEF Times, Pieces
<1>3. H \in Seq(Pieces) /\ Len(H) = 6 /\ \A i \in 1 .. 6 : H[i] = "part" => i = 5
  BY DEF Pieces
<1>4. F \in Seq(Pieces) /\ Len(F) = 2 /\ \A i \in 1 .. 2 : F[i] # "part"
  BY DEF Pieces
<1>5. File = H \o D \o F \o S
  BY DEF File
<1> HIDE DEF H, D, F, S
<1>6. ASSUME NEW a \in Seq(Pieces), NEW b \in Seq(Pieces),
             \A i \in 1 .. Len(a) : a[i] = "part" => i = 5,
             \A i \in 1 .. Len(b) : b[i] # "part"
      PROVE  /\ a \o b \in Seq(Pieces) /\ Len(a \o b) = Len(a) + Len(b)
             /\ \A i \in 1 .. Len(a \o b) : (a \o b)[i] = "part" => i = 5
  <2>1. Len(a) \in Nat /\ Len(b) \in Nat
    OBVIOUS
  <2> QED BY <1>6, <2>1, ConcatProperties
<1> DEFINE HD == H \o D
           HDF == HD \o F
<1>7. /\ HD \in Seq(Pieces) /\ Len(HD) = 6 + Chunks
      /\ \A i \in 1 .. Len(HD) : HD[i] = "part" => i = 5
  BY <1>1, <1>3, <1>6
<1>8. /\ HDF \in Seq(Pieces) /\ Len(HDF) = 6 + Chunks + 2
      /\ \A i \in 1 .. Len(HDF) : HDF[i] = "part" => i = 5
  <2> HIDE DEF HD
  <2> QED BY <1>7, <1>4, <1>6
<1>9. /\ File \in Seq(Pieces) /\ Len(File) = 8 + Chunks + Sigs
      /\ \A i \in 1 .. Len(File) : File[i] = "part" => i = 5
  <2>1. File = HDF \o S
    BY <1>5
  <2> HIDE DEF HDF
  <2>2. /\ HDF \o S \in Seq(Pieces) /\ Len(HDF \o S) = Len(HDF) + Len(S)
        /\ \A i \in 1 .. Len(HDF \o S) : (HDF \o S)[i] = "part" => i = 5
    BY <1>8, <1>2, <1>6
  <2>3. Len(HDF) + Len(S) = 8 + Chunks + Sigs
    BY <1>8, <1>2, OtaLinkAssumption
  <2> QED BY <2>1, <2>2, <2>3
<1> QED BY <1>9

(***************************************************************************)
(* tx' continues tx with messages of the kinds in M only.                  *)
(***************************************************************************)
Grows(x, y, M) ==
    /\ y \in Queue /\ y.done = x.done /\ Len(x.q) <= Len(y.q)
    /\ \A i \in 1 .. Len(y.q) :
        IF i <= Len(x.q) THEN y.q[i] = x.q[i] ELSE y.q[i].t \in M
    /\ y.held = x.held \/ y.held.t \in M

LEMMA NotifyGrows ==
    ASSUME NEW x \in Queue, NEW m \in Message
    PROVE  Grows(x, Notify(x, m), {m.t})
PROOF
<1>1. Len(x.q) \in Nat /\ x.q \in Seq(Message)
  BY DEF Queue
<1>2. CASE x.used < TxBuffers
  <2> DEFINE y == Notify(x, m)
  <2>1. y = [x EXCEPT !.q = Append(@, m), !.used = @ + 1]
    BY <1>2 DEF Notify
  <2>2. y.q = Append(x.q, m) /\ y.held = x.held /\ y.done = x.done
    BY <2>1 DEF Queue
  <2>a. x.used + 1 \in Int /\ Append(x.q, m) \in Seq(Message)
    BY <1>1 DEF Queue
  <2>b. y \in Queue
    BY <2>1, <2>a DEF Queue
  <2>3. /\ Len(Append(x.q, m)) = Len(x.q) + 1
        /\ \A i \in 1 .. Len(x.q) + 1 :
            Append(x.q, m)[i] = IF i <= Len(x.q) THEN x.q[i] ELSE m
    BY <1>1
  <2> QED BY <2>2, <2>b, <2>3, <1>1 DEF Grows
<1>3. CASE ~(x.used < TxBuffers)
  <2>1. Notify(x, m) = [x EXCEPT !.held = m]
    BY <1>3 DEF Notify
  <2> QED BY <2>1, <1>1 DEF Grows, Queue
<1> QED BY <1>2, <1>3

LEMMA Messages ==
    /\ \A t \in Kinds, v \in Nat : Msg(t, v) \in Message
    /\ \A t \in Kinds : Req(t) \in Message
    /\ {None, WriteCfm, Ack, Yes, ErrorInd, SyncCfm, StartCfm} \subseteq Message
    /\ \A n \in Nat : BytesReq(n) \in Message
BY DEF Message, Msg, None, WriteCfm, Ack, Yes, ErrorInd, BytesReq, Req, SyncCfm,
       StartCfm, Kinds

LEMMA MessageFields ==
    /\ \A t, v : Msg(t, v).t = t /\ Msg(t, v).v = v
    /\ \A t : Req(t).t = t /\ Req(t).v = 0
    /\ None.t = "none" /\ WriteCfm.t = "write_cfm" /\ Ack.t = "ack"
    /\ Yes.t = "ACK" /\ ErrorInd.t = "ERROR_IND"
    /\ \A n : BytesReq(n).t = "DATA_BYTES_REQ"
    /\ SyncCfm.t = "SYNC_CFM" /\ StartCfm.t = "START_CFM"
BY DEF Msg, None, WriteCfm, Ack, Yes, ErrorInd, BytesReq, Req, SyncCfm, StartCfm

LEMMA HeardGrows == tx \in Queue => Grows(tx, Heard, {"write_cfm"})
BY Messages, MessageFields DEF Grows, Queue, Heard

LEMMA GrowsFurther ==
    ASSUME NEW x, NEW y, NEW z, NEW M, NEW N, Grows(x, y, M), Grows(y, z, N),
           x.q \in Seq(Message)
    PROVE  Grows(x, z, M \cup N)
PROOF
<1>1. Len(x.q) \in Nat /\ Len(y.q) \in Nat /\ Len(z.q) \in Nat
  BY DEF Grows, Queue
<1> QED BY <1>1 DEF Grows

LEMMA AckedGrows == tx \in Queue => Grows(tx, Acked, {"write_cfm", "ack"})
PROOF
<1> SUFFICES ASSUME tx \in Queue PROVE Grows(tx, Acked, {"write_cfm", "ack"})
  OBVIOUS
<1>1. Grows(tx, Heard, {"write_cfm"}) /\ Heard \in Queue
  BY HeardGrows DEF Grows
<1>2. Grows(Heard, Acked, {"ack"})
  BY <1>1, NotifyGrows, Messages, MessageFields DEF Acked
<1>3. Grows(tx, Acked, {"write_cfm"} \cup {"ack"})
  BY <1>1, <1>2, GrowsFurther DEF Queue
<1>4. {"write_cfm"} \cup {"ack"} = {"write_cfm", "ack"}
  OBVIOUS
<1> QED BY <1>3, <1>4

LEMMA AnswerGrows ==
    ASSUME tx \in Queue, NEW m \in Message
    PROVE  /\ Grows(tx, Notify(Acked, m), {"write_cfm", "ack", m.t})
           /\ Grows(tx, Notify(Heard, m), {"write_cfm", m.t})
PROOF
<1>1. Grows(tx, Heard, {"write_cfm"}) /\ Heard \in Queue
  BY HeardGrows DEF Grows
<1>2. Grows(tx, Acked, {"write_cfm", "ack"}) /\ Acked \in Queue
  BY AckedGrows DEF Grows
<1>3. Grows(tx, Notify(Heard, m), {"write_cfm"} \cup {m.t})
  BY <1>1, NotifyGrows, GrowsFurther DEF Queue
<1>4. Grows(tx, Notify(Acked, m), {"write_cfm", "ack"} \cup {m.t})
  BY <1>2, NotifyGrows, GrowsFurther DEF Queue
<1>5. /\ {"write_cfm"} \cup {m.t} = {"write_cfm", m.t}
      /\ {"write_cfm", "ack"} \cup {m.t} = {"write_cfm", "ack", m.t}
  OBVIOUS
<1> QED BY <1>3, <1>4, <1>5

LEMMA AppendPair ==
    ASSUME NEW S, NEW a \in S, NEW b \in S
    PROVE  Append(<<a>>, b) = <<a, b>>
PROOF
<1>1. <<a>> \in Seq(S) /\ <<a, b>> \in Seq(S) /\ Append(<<a>>, b) \in Seq(S)
  OBVIOUS
<1>2. Len(Append(<<a>>, b)) = 2 /\ Len(<<a, b>>) = 2
  OBVIOUS
<1>3. \A i \in 1 .. 2 : Append(<<a>>, b)[i] = <<a, b>>[i]
  OBVIOUS
<1> QED BY <1>1, <1>2, <1>3, SeqEqual

LEMMA WriteOne ==
    ASSUME NEW a, Write(<<a>>)
    PROVE  IF wr.busy THEN up' = up /\ wr' = [wr EXCEPT !.pend = a]
                      ELSE up' = a /\ wr' = [busy |-> TRUE, pend |-> None]
BY DEF Write, Last

LEMMA WriteTwo ==
    ASSUME NEW a, NEW b, Write(<<a, b>>)
    PROVE  IF wr.busy THEN up' = up /\ wr' = [wr EXCEPT !.pend = b]
                      ELSE up' = a /\ wr' = [busy |-> TRUE, pend |-> b]
BY DEF Write, Last

-----------------------------------------------------------------------------
(* What most steps leave alone *)

Special == {"START_DATA_REQ", "DATA", "TRANSFER_COMPLETE_RES", "ABORT_REQ",
            "COMMIT_CFM"}

PlainWrites ==
    /\ up'.t \notin Special \/ up' = up
       \/ (up' = wr.pend /\ wr'.pend.t \notin Special)
    /\ wr'.pend.t \notin Special \/ wr'.pend = wr.pend

Downhill ==
    /\ PreStart' => PreStart
    /\ PreCommit' => PreCommit
    /\ Over => Over'
    /\ Handing' => Handing /\ cl'.off = cl.off

Kept ==
    /\ dev'.app = dev.app /\ dev'.cs = dev.cs /\ dev'.stage = dev.stage
    /\ dev'.got = dev.got /\ dev'.valid = dev.valid /\ (dev.reset => dev'.reset)
    /\ dev'.upgraded = dev.upgraded /\ dev'.last = dev.last
    /\ dev'.sum = dev.sum /\ dev'.part = dev.part /\ dev'.field = dev.field
    /\ dev.closing => dev'.closing
    /\ dev'.state = "IN_PROGRESS" => dev.state = "IN_PROGRESS"

(* A step that sends none of the special commands keeps their order. *)
LEMMA PlainClient ==
    ASSUME Client, PlainWrites, Downhill,
           ~wr'.busy => up' = None /\ wr'.pend = None,
           link' => /\ cl'.start \in {"timer", "done"}
                    /\ cl'.start = "timer" => cl'.state = "IDLE"
    PROVE  Client'
PROOF
<1>1. \A t \in Special : Out(t)' => Out(t)
  BY DEF Out, PlainWrites
<1>2. \A t \in {"START_DATA_REQ", "DATA", "TRANSFER_COMPLETE_RES", "ABORT_REQ"} :
        t \in Special
  BY DEF Special
<1>3. PreStart' => \A t \in {"START_DATA_REQ", "DATA", "TRANSFER_COMPLETE_RES",
                              "ABORT_REQ"} : ~Out(t)'
  BY <1>1, <1>2 DEF Client, Downhill
<1>4. Out("ABORT_REQ")' =>
        Over' /\ \A t \in {"START_DATA_REQ", "DATA", "TRANSFER_COMPLETE_RES"} : ~Out(t)'
  BY <1>1, <1>2 DEF Client, Downhill
<1>5. Out("TRANSFER_COMPLETE_RES")' => Over'
  BY <1>1, <1>2 DEF Client, Downhill
<1>6. PreCommit' => ~Out("COMMIT_CFM")'
  BY <1>1 DEF Client, Downhill, Special
<1>7. /\ ~(up'.t = "START_DATA_REQ" /\ wr'.pend.t = "START_DATA_REQ")
      /\ ~(up'.t = "COMMIT_CFM" /\ wr'.pend.t = "COMMIT_CFM")
      /\ up'.t = "DATA" /\ wr'.pend.t = "DATA" => up'.v < wr'.pend.v
  BY DEF Client, PlainWrites, Special
<1>8. \A m \in {up', wr'.pend} :
        m.t = "DATA" => /\ m.v \in 1 .. Len(File)
                        /\ Handing' => m.v <= cl'.off
  <2>1. \A m \in {up', wr'.pend} : m.t = "DATA" => m \in {up, wr.pend}
    BY DEF PlainWrites, Special
  <2> QED BY <2>1 DEF Client, Downhill
<1> QED BY <1>3, <1>4, <1>5, <1>6, <1>7, <1>8 DEF Client

LEMMA KeptFlash ==
    ASSUME Flash, PlainWrites, Downhill, Kept, link' = link,
           flash' = flash, fw' = fw
    PROVE  Flash'
PROOF
<1>1. /\ New' = New /\ Other' = Other /\ \A K : Ops(K)' = Ops(K)
      /\ store' = store /\ committed' = committed /\ once' = once
  BY DEF New, Other, Ops, Kept, flash
<1>2. Out("COMMIT_CFM")' => Out("COMMIT_CFM")
  BY DEF PlainWrites, Out, Special
<1> QED BY <1>1, <1>2 DEF Flash, Kept, Downhill

LEMMA PlainBeyond ==
    ASSUME PlainWrites, Downhill, Beyond
    PROVE  Beyond'
PROOF
<1>1. up'.t = "DATA" => up' \in {up, wr.pend}
  BY DEF PlainWrites, Special
<1>2. wr'.pend.t = "DATA" => wr'.pend = wr.pend
  BY DEF PlainWrites, Special
<1> QED BY <1>1, <1>2 DEF Beyond, Downhill

LEMMA KeptTransfer ==
    ASSUME Transfer, PlainWrites, Downhill, Kept, link' = link,
           store' = store, fw' = fw
    PROVE  Transfer'
PROOF
<1> SUFFICES ASSUME link', ~New'
             PROVE  (GivenUp \/ Fresh \/ Writing \/ Written)'
                    /\ (Out("TRANSFER_COMPLETE_RES") => dev.valid)'
  BY DEF Transfer
<1>1. /\ New' = New /\ Other' = Other /\ \A K : Ops(K)' = Ops(K)
  BY DEF New, Other, Ops, Kept
<1>2. \A t \in Special : Out(t)' => Out(t)
  BY DEF PlainWrites, Out
<1>3. Started => Started'
  BY <1>2 DEF Started, Downhill, Special
<1>4. Beyond => Beyond'
  BY PlainBeyond
<1>5. GivenUp => GivenUp'
  BY <1>2 DEF GivenUp, Downhill, Special
<1>6. Fresh => Fresh'
  BY <1>3, <1>4 DEF Fresh, Kept
<1>7. Writing => Writing'
  BY <1>1, <1>3, <1>4 DEF Writing, Kept
<1>8. Written => Written'
  BY <1>1, <1>3, <1>4 DEF Written, Kept
<1>9. Out("TRANSFER_COMPLETE_RES")' => dev'.valid
  BY <1>1, <1>2 DEF Transfer, Kept, Special
<1> QED BY <1>1, <1>5, <1>6, <1>7, <1>8, <1>9 DEF Transfer

(* The server takes a command and answers. *)
LEMMA TakenPlain ==
    ASSUME Types, up' = None, UNCHANGED client
    PROVE  PlainWrites /\ Downhill
BY MessageFields DEF client, PlainWrites, Downhill, Special, PreStart, PreCommit,
   Handing, Asking, Over

LEMMA TakenOpening ==
    ASSUME Opening, NEW t \in Kinds \ {"none", "CONNECT"}, Takes(t), UNCHANGED client
    PROVE  Opening'
BY MessageFields DEF Opening, Takes, client

LEMMA GrowsStale ==
    ASSUME Types, Stale, NEW M, Grows(tx, tx', M), ~tx.done, UNCHANGED client,
           "COMPLETE" \in M => dev'.valid,
           (link /\ ~New /\ ~dev.valid)' => link /\ ~New /\ (~dev.valid \/ Over)
    PROVE  Stale'
PROOF
<1> SUFFICES ASSUME (link /\ ~New /\ ~dev.valid)'
             PROVE  /\ (tx.held.t = "COMPLETE" =>
                        Over \/ cl.state \in {"IDLE", "CONNECT"})'
                    /\ (\A i \in 1 .. Len(tx.q) : tx.q[i].t = "COMPLETE" =>
                            Over \/ (cl.state = "SYNC_REQ" /\ i = 1))'
  BY DEF Stale
<1>1. cl' = cl /\ Over' = Over
  BY DEF client, Over, PreStart, Handing, Asking
<1>2. CASE Over
  BY <1>1, <1>2
<1>3. CASE ~Over
  <2>1. link /\ ~New /\ ~dev.valid /\ "COMPLETE" \notin M
    BY <1>3
  <2>2. tx'.held.t = "COMPLETE" => cl.state \in {"IDLE", "CONNECT"}
    BY <2>1, <1>3 DEF Grows, Stale
  <2>3. ASSUME NEW i \in 1 .. Len(tx'.q), tx'.q[i].t = "COMPLETE"
        PROVE  cl.state = "SYNC_REQ" /\ i = 1
    <3>1. i \in 1 .. Len(tx.q) /\ tx.q[i].t = "COMPLETE"
      BY <2>1, <2>3 DEF Grows, Types, Queue
    <3> QED BY <3>1, <2>1, <1>3 DEF Stale
  <2> QED BY <1>1, <2>2, <2>3
<1> QED BY <1>2, <1>3

-----------------------------------------------------------------------------
(* The commands of the host *)

LEMMA TouchedFields ==
    Types => /\ Touched \in Ram
             /\ Touched.app = dev.app /\ Touched.cs = dev.cs
             /\ Touched.state = dev.state /\ Touched.stage = dev.stage
             /\ Touched.got = dev.got /\ Touched.valid = dev.valid
             /\ Touched.reset = dev.reset /\ Touched.upgraded = dev.upgraded
             /\ Touched.last = dev.last /\ Touched.sum = dev.sum
             /\ Touched.part = dev.part /\ Touched.field = dev.field
             /\ Touched.closing = dev.closing /\ Touched.busy = dev.busy
BY DEF Types, Ram, Touched

LEMMA QuietCommands ==
    ASSUME Types,
           ConnectReq \/ DisconnectReq \/ AckReq \/ SyncReq \/ StartReq
           \/ ValidDoneReq \/ InProgressRes
    PROVE  /\ dev' \in Ram /\ Kept
           /\ UNCHANGED <<flash, fw, link>> /\ up' = None /\ link /\ ~dev.closing
           /\ \E M : /\ Grows(tx, tx', M)
                     /\ "COMPLETE" \in M => dev.valid
PROOF
<1>0. tx \in Queue
  BY DEF Types
<1>1. CASE ConnectReq
  <2>1. Msg("conn_ack", 0) \in Message /\ Msg("conn_ack", 0).t = "conn_ack"
    BY Messages, MessageFields DEF Kinds
  <2>2. Grows(tx, tx', {"write_cfm", "conn_ack"})
    BY <1>0, <1>1, <2>1, AnswerGrows DEF ConnectReq
  <2> QED BY <1>1, <2>2 DEF ConnectReq, Takes, server, flash, Kept, Types
<1>2. CASE DisconnectReq
  <2>1. Msg("disc_ack", 0) \in Message /\ Msg("disc_ack", 0).t = "disc_ack"
    BY Messages, MessageFields DEF Kinds
  <2>2. Grows(tx, tx', {"write_cfm", "disc_ack"})
    BY <1>0, <1>2, <2>1, AnswerGrows DEF DisconnectReq
  <2>3. dev' \in Ram /\ Kept
    <3> DEFINE c == dev.closing \/ dev.commit_cfm
    <3>1. dev' = [dev EXCEPT !.commit_cfm = FALSE, !.closing = c]
      BY <1>2 DEF DisconnectReq
    <3>2. c \in BOOLEAN /\ (dev.closing => c)
      BY DEF Types, Ram
    <3> HIDE DEF c
    <3> QED BY <3>1, <3>2 DEF Types, Ram, Kept
  <2> QED BY <1>2, <2>2, <2>3 DEF DisconnectReq, Takes
<1>3. CASE AckReq
  <2>1. Grows(tx, tx', {"write_cfm"})
    BY <1>0, <1>3, HeardGrows DEF AckReq
  <2> QED BY <1>3, <2>1 DEF AckReq, Takes, server, flash, Kept, Types
<1>4. CASE SyncReq
  <2>1. \/ Grows(tx, tx', {"write_cfm", "ack", "SYNC_CFM"})
        \/ Grows(tx, tx', {"write_cfm", "ack"})
    <3>1. tx' = Notify(Acked, SyncCfm) \/ tx' = Acked
      BY <1>4 DEF SyncReq
    <3>2. SyncCfm \in Message /\ SyncCfm.t = "SYNC_CFM"
      BY Messages, MessageFields
    <3>3. Grows(tx, Notify(Acked, SyncCfm), {"write_cfm", "ack", SyncCfm.t})
      BY <1>0, <3>2, AnswerGrows
    <3> QED BY <1>0, <3>1, <3>2, <3>3, AckedGrows
  <2>2. dev' \in Ram /\ Kept
    <3>1. \/ dev' = [Touched EXCEPT !.busy = TRUE, !.state = "WAIT_FOR_HOST"]
          \/ dev' = [Touched EXCEPT !.busy = TRUE, !.cb = TRUE,
                                    !.state = "WAIT_FOR_DEVICE"]
      BY <1>4 DEF SyncReq
    <3>2. /\ Touched \in Ram /\ {"WAIT_FOR_HOST", "WAIT_FOR_DEVICE"} \subseteq Modes
          /\ TRUE \in BOOLEAN
      BY TouchedFields DEF Modes
    <3>3. dev' \in Ram
      BY <3>1, <3>2 DEF Ram
    <3>4. /\ dev'.app = Touched.app /\ dev'.cs = Touched.cs
          /\ dev'.stage = Touched.stage /\ dev'.got = Touched.got
          /\ dev'.valid = Touched.valid /\ dev'.reset = Touched.reset
          /\ dev'.upgraded = Touched.upgraded /\ dev'.last = Touched.last
      BY <3>1, <3>2 DEF Ram
    <3>5. /\ dev'.sum = Touched.sum /\ dev'.part = Touched.part
          /\ dev'.field = Touched.field /\ dev'.closing = Touched.closing
          /\ dev'.state \in {"WAIT_FOR_HOST", "WAIT_FOR_DEVICE"}
      BY <3>1, <3>2 DEF Ram
    <3> QED BY <3>3, <3>4, <3>5, TouchedFields DEF Kept
  <2> QED BY <1>4, <2>1, <2>2 DEF SyncReq, Takes
<1>5. CASE StartReq
  <2>1. Grows(tx, tx', {"write_cfm", "ack", "START_CFM"})
    <3>1. tx' = Notify(Acked, StartCfm)
      BY <1>5 DEF StartReq
    <3>2. StartCfm \in Message /\ StartCfm.t = "START_CFM"
      BY Messages, MessageFields
    <3>3. Grows(tx, Notify(Acked, StartCfm), {"write_cfm", "ack", StartCfm.t})
      BY <1>0, <3>2, AnswerGrows
    <3> QED BY <3>1, <3>2, <3>3
  <2>2. dev' \in Ram /\ Kept
    BY <1>5, TouchedFields DEF StartReq, Kept
  <2> QED BY <1>5, <2>1, <2>2 DEF StartReq, Takes
<1>6. CASE ValidDoneReq
  <2> DEFINE m == Msg(IF dev.valid THEN "COMPLETE" ELSE "VALID_CFM", 0)
  <2>1. m \in Message /\ (m.t = "COMPLETE" => dev.valid)
    BY Messages, MessageFields DEF Kinds
  <2>2. Grows(tx, tx', {"write_cfm", "ack", m.t})
    BY <1>0, <1>6, <2>1, AnswerGrows DEF ValidDoneReq
  <2>3. dev' \in Ram /\ Kept
    BY <1>6, TouchedFields DEF ValidDoneReq, Kept
  <2>4. "COMPLETE" \in {"write_cfm", "ack", m.t} => dev.valid
    BY <2>1
  <2> QED BY <1>6, <2>2, <2>3, <2>4 DEF ValidDoneReq, Takes
<1>7. CASE InProgressRes
  <2>1. Msg("COMMIT_REQ", 0) \in Message /\ Msg("COMMIT_REQ", 0).t = "COMMIT_REQ"
    BY Messages, MessageFields DEF Kinds
  <2>2. Grows(tx, tx', {"write_cfm", "ack", "COMMIT_REQ"})
    BY <1>0, <1>7, <2>1, AnswerGrows DEF InProgressRes
  <2>3. dev' \in Ram /\ Kept
    BY <1>7, TouchedFields DEF InProgressRes, Kept
  <2> QED BY <1>7, <2>2, <2>3 DEF InProgressRes, Takes
<1> QED BY <1>1, <1>2, <1>3, <1>4, <1>5, <1>6, <1>7

(* What is left of Opening and Stale when a command is answered *)
LEMMA CommandTypes ==
    ASSUME Types, Takes(up.t), UNCHANGED client, tx' \in Queue, dev' \in Ram,
           resume' \in {"start", "post"}, once' \in Stores \cup {0},
           fw' \in Seq(Request), UNCHANGED <<store, committed>>
    PROVE  Types' /\ Apart'
BY Messages DEF Types, Takes, client, Apart

LEMMA TakenClient ==
    ASSUME Types, IInv, Takes(up.t), UNCHANGED client
    PROVE  Client'
PROOF
<1>1. PlainWrites /\ Downhill
  BY TakenPlain DEF Takes
<1>2. up' = None /\ wr' = wr /\ cl' = cl /\ link' = link
  BY DEF Takes, client
<1> QED BY <1>1, <1>2, PlainClient DEF IInv, Client

LEMMA QuietServed ==
    ASSUME Types, IInv, ~tx.done, UNCHANGED client,
           ConnectReq \/ DisconnectReq \/ AckReq \/ SyncReq \/ StartReq
           \/ ValidDoneReq \/ InProgressRes
    PROVE  Types' /\ IInv'
PROOF
<1>1. /\ dev' \in Ram /\ Kept
      /\ UNCHANGED <<flash, fw, link>> /\ up' = None /\ link /\ ~dev.closing
  BY QuietCommands
<1>2. PICK M : Grows(tx, tx', M) /\ ("COMPLETE" \in M => dev.valid)
  BY QuietCommands
<1>3. Takes(up.t)
  BY DEF ConnectReq, DisconnectReq, AckReq, SyncReq, StartReq, ValidDoneReq,
         InProgressRes, Takes
<1>4. Types' /\ Apart'
  <2>1. tx' \in Queue
    BY <1>2 DEF Grows
  <2> QED BY <1>1, <1>3, <2>1, CommandTypes DEF Types, flash
<1>5. Client'
  BY <1>3, TakenClient
<1>6. PlainWrites /\ Downhill
  BY <1>1, TakenPlain
<1>7. Flash'
  BY <1>1, <1>6, KeptFlash DEF IInv
<1>8. Transfer'
  BY <1>1, <1>6, KeptTransfer DEF IInv, flash
<1>9. Opening'
  <2>1. CASE ConnectReq
    <3>1. up.t = "CONNECT" /\ up # None
      BY <2>1, MessageFields DEF ConnectReq, Takes
    <3>2. ~(cl.state = "IDLE" /\ cl.start = "timer")
      BY <3>1, <1>1 DEF IInv, Opening
    <3>3. CASE cl.state = "CONNECT"
      <4>1. wr.busy /\ tx.q = <<>> /\ tx.used = 0 /\ link /\ wr.pend = None
            /\ dev.state # "WAIT_FOR_DEVICE"
        BY <3>1, <3>3 DEF IInv, Opening
      <4>2. Heard = [tx EXCEPT !.q = <<WriteCfm>>]
        BY <4>1 DEF Heard, Types, Queue
      <4>3. tx' = [Heard EXCEPT !.q = Append(@, Msg("conn_ack", 0)), !.used = @ + 1]
        BY <2>1, <4>1, <4>2, OtaLinkAssumption DEF ConnectReq, Notify, Types, Queue
      <4>4. /\ tx'.q = <<WriteCfm, Msg("conn_ack", 0)>> /\ tx'.used = 1
            /\ tx'.done = tx.done
        <5>1. /\ Heard \in Queue /\ Heard.q = <<WriteCfm>> /\ Heard.used = 0
              /\ Heard.done = tx.done
          BY <4>1, <4>2, HeardGrows DEF Types, Queue, Grows
        <5>2. /\ tx'.q = Append(<<WriteCfm>>, Msg("conn_ack", 0))
              /\ tx'.used = 1 /\ tx'.done = tx.done
          BY <5>1, <4>3 DEF Queue
        <5>3. Append(<<WriteCfm>>, Msg("conn_ack", 0)) = <<WriteCfm, Msg("conn_ack", 0)>>
          BY Messages, AppendPair DEF Kinds
        <5> QED BY <5>2, <5>3
      <4> QED BY <4>1, <4>4, <1>1, <2>1, <3>3 DEF Opening, client, ConnectReq, server
    <3>4. CASE cl.state # "CONNECT"
      BY <3>2, <3>4 DEF Opening, client
    <3> QED BY <3>3, <3>4
  <2>2. CASE ~ConnectReq
    <3>1. up.t \in Kinds \ {"none", "CONNECT"}
      BY <2>2, QuietCommands DEF DisconnectReq, AckReq, SyncReq, StartReq,
         ValidDoneReq, InProgressRes, Takes, Kinds
    <3> QED BY <3>1, <1>3, TakenOpening DEF IInv
  <2> QED BY <2>1, <2>2
<1>10. Stale'
  <2>1. New' = New /\ dev'.valid = dev.valid
    BY <1>1 DEF New, Kept, flash
  <2> QED BY <1>1, <1>2, <2>1, GrowsStale DEF IInv
<1> QED BY <1>4, <1>5, <1>7, <1>8, <1>9, <1>10 DEF IInv

(***************************************************************************)
(* The other commands.  In each case the answers grow the queue without a  *)
(* false completion, and Flash and Transfer are all there is to show.      *)
(***************************************************************************)
LEMMA Served ==
    ASSUME Types, IInv, ~tx.done, UNCHANGED client,
           NEW t \in Kinds \ {"none", "CONNECT"}, Takes(t),
           NEW M, Grows(tx, tx', M), "COMPLETE" \notin M,
           dev' \in Ram, resume' \in {"start", "post"}, once' \in Stores \cup {0},
           fw' \in Seq(Request), UNCHANGED <<store, committed>>,
           dev'.app = dev.app, dev'.valid \/ ~dev.valid \/ Over,
           Flash', Transfer'
    PROVE  Types' /\ IInv'
PROOF
<1>1. Takes(up.t) /\ tx' \in Queue
  BY DEF Takes, Grows
<1>2. Types' /\ Apart'
  BY <1>1, CommandTypes
<1>3. Client'
  BY <1>1, TakenClient
<1>4. Opening'
  BY TakenOpening DEF IInv
<1>5. Stale'
  <2>1. New' = New /\ link' = link
    BY DEF New, Takes
  <2>2. (link /\ ~New /\ ~dev.valid)' => link /\ ~New /\ (~dev.valid \/ Over)
    BY <2>1
  <2> QED BY <2>2, GrowsStale DEF IInv
<1> QED BY <1>2, <1>3, <1>4, <1>5 DEF IInv

(* Before a transfer begins, and once it has, nothing of another remains. *)
LEMMA StartDataServed ==
    ASSUME Types, IInv, ~tx.done, UNCHANGED client, StartDataReq
    PROVE  Types' /\ IInv'
PROOF
<1>1. Takes("START_DATA_REQ") /\ "START_DATA_REQ" \in Kinds \ {"none", "CONNECT"}
  BY DEF StartDataReq, Kinds
<1>2. Grows(tx, tx', {"write_cfm", "ack", "DATA_BYTES_REQ"})
  <2>1. tx' = Notify(Acked, BytesReq(1)) /\ tx \in Queue
    BY DEF StartDataReq, Types
  <2>2. BytesReq(1) \in Message
    BY Messages
  <2>3. BytesReq(1).t = "DATA_BYTES_REQ"
    BY MessageFields
  <2>4. Grows(tx, Notify(Acked, BytesReq(1)), {"write_cfm", "ack", BytesReq(1).t})
    BY <2>1, <2>2, AnswerGrows
  <2> QED BY <2>1, <2>3, <2>4
<1>3. /\ dev' \in Ram
      /\ dev'.app = dev.app /\ dev'.cs = dev.cs /\ dev'.valid = dev.valid
      /\ dev'.field = dev.field /\ dev'.got = dev.got /\ dev'.sum = dev.sum
      /\ dev'.closing = dev.closing /\ dev'.reset = dev.reset
      /\ dev'.stage = "id" /\ ~dev'.upgraded /\ dev'.part = dev.part
  <2>1. dev' = [Touched EXCEPT !.state = "IN_PROGRESS", !.stage = "id",
                               !.upgraded = FALSE]
    BY DEF StartDataReq
  <2>2. /\ Touched \in Ram /\ "IN_PROGRESS" \in Modes /\ "id" \in Steps
        /\ FALSE \in BOOLEAN
    BY TouchedFields DEF Modes, Steps
  <2>3. dev' \in Ram
    BY <2>1, <2>2 DEF Ram
  <2>4. /\ dev'.app = Touched.app /\ dev'.cs = Touched.cs
        /\ dev'.valid = Touched.valid /\ dev'.field = Touched.field
        /\ dev'.got = Touched.got /\ dev'.sum = Touched.sum
    BY <2>1, <2>2 DEF Ram
  <2>5. /\ dev'.closing = Touched.closing /\ dev'.reset = Touched.reset
        /\ dev'.stage = "id" /\ ~dev'.upgraded /\ dev'.part = Touched.part
    BY <2>1, <2>2 DEF Ram
  <2> QED BY <2>3, <2>4, <2>5, TouchedFields
<1>4. UNCHANGED <<flash, fw, link>> /\ up' = None /\ link /\ wr' = wr /\ cl' = cl
  BY DEF StartDataReq, Takes, client
<1>5. /\ New' = New /\ Other' = Other /\ \A K : Ops(K)' = Ops(K)
      /\ PreCommit' = PreCommit /\ \A t \in Special : Out(t)' => Out(t)
  BY <1>3, <1>4, MessageFields DEF New, Other, Ops, flash, PreCommit, PreStart, Out, Special
<1>6. Flash'
  BY <1>3, <1>4, <1>5 DEF IInv, Flash, flash, Special
<1>7. Transfer'
  <2>1. Out("START_DATA_REQ") /\ ~Over' = ~Over
    BY <1>1, <1>4 DEF Takes, Out, Over, PreStart, Handing, Asking
  <2>2. ~Out("START_DATA_REQ")' /\ ~PreStart'
    BY <1>1, <1>4, MessageFields DEF Takes, Out, IInv, Client, PreStart
  <2>3. ~New => Fresh
    BY <1>4, <2>1 DEF IInv, Transfer, GivenUp, Started, Writing, Written
  <2>4. ~New => Fresh'
    BY <2>2, <2>3, <1>3, <1>4 DEF Fresh, Started
  <2>5. ~New => (Out("TRANSFER_COMPLETE_RES")' => dev'.valid)
    BY <1>3, <1>4, <1>5 DEF IInv, Transfer, Special
  <2> QED BY <1>5, <2>4, <2>5 DEF Transfer
<1> QED BY <1>1, <1>2, <1>3, <1>4, <1>6, <1>7, Served DEF Types, flash

(* An abort ends what the client had to say about the transfer. *)
LEMMA AbortServed ==
    ASSUME Types, IInv, ~tx.done, UNCHANGED client, AbortReq
    PROVE  Types' /\ IInv'
PROOF
<1>1. Takes("ABORT_REQ") /\ "ABORT_REQ" \in Kinds \ {"none", "CONNECT"}
  BY DEF AbortReq, Kinds
<1>2. Grows(tx, tx', {"write_cfm", "ack", "ABORT_CFM"})
  <2>1. Msg("ABORT_CFM", 0) \in Message /\ Msg("ABORT_CFM", 0).t = "ABORT_CFM"
    BY Messages, MessageFields DEF Kinds
  <2> QED BY <2>1, AnswerGrows DEF AbortReq, Types
<1>3. /\ dev' \in Ram
      /\ dev'.app = dev.app /\ dev'.cs = dev.cs /\ dev'.field = dev.field
      /\ dev'.upgraded = dev.upgraded /\ dev'.part = dev.part
      /\ dev'.got \in {0, dev.got} /\ dev'.stage \in {"id", dev.stage}
  BY TouchedFields DEF AbortReq, isNewApp, initStateVariables, Ram, Steps
<1>4. /\ link /\ link' = link /\ ~dev.closing /\ up' = None /\ wr' = wr /\ cl' = cl
      /\ UNCHANGED <<store, committed, once, fw>> /\ resume' \in {"start", "post"}
  BY DEF AbortReq, Takes, client
<1>5. /\ New' = New /\ Other' = Other /\ \A K : Ops(K)' = Ops(K) /\ once = 0
      /\ PreCommit' = PreCommit /\ \A t \in Special : Out(t)' => Out(t)
  BY <1>3, <1>4, MessageFields DEF New, Other, Ops, PreCommit, PreStart, Out, Special,
     IInv, Flash
<1>6. Flash'
  BY <1>3, <1>4, <1>5 DEF IInv, Flash, Special
<1>7. Over /\ GivenUp'
  BY <1>1, <1>4, <1>5 DEF IInv, Client, Takes, Out, GivenUp, Over, PreStart, Handing,
     Asking, Special
<1>8. Transfer'
  BY <1>7 DEF Transfer, GivenUp
<1> QED BY <1>1, <1>2, <1>3, <1>4, <1>6, <1>7, <1>8, Served DEF Types

(* Only what has been received whole and verified is set to run. *)
LEMMA TransferCompleteServed ==
    ASSUME Types, IInv, ~tx.done, UNCHANGED client, TransferCompleteRes
    PROVE  Types' /\ IInv'
PROOF
<1>1. /\ Takes("TRANSFER_COMPLETE_RES") /\ Out("TRANSFER_COMPLETE_RES")
      /\ "TRANSFER_COMPLETE_RES" \in Kinds \ {"none", "CONNECT"}
  BY DEF TransferCompleteRes, Kinds, Takes, Out
<1>2. Grows(tx, tx', {"write_cfm", "ack"})
  BY AckedGrows DEF TransferCompleteRes, Types
<1>3. dev' \in Ram /\ Kept /\ dev'.reset /\ dev'.closing
  BY TouchedFields DEF TransferCompleteRes, Ram, Kept
<1>4. /\ link /\ link' = link /\ ~dev.closing /\ up' = None
      /\ UNCHANGED <<store, committed, fw>> /\ resume' \in {"start", "post"}
      /\ once' = IF dev.upgraded THEN getAppStoreToUpgrade ELSE once
  BY <1>1 DEF TransferCompleteRes, Takes
<1>5. PlainWrites /\ Downhill
  BY <1>4, TakenPlain
<1>6. Transfer'
  BY <1>3, <1>4, <1>5, KeptTransfer DEF IInv
<1>7. /\ New' = New /\ Other' = Other /\ \A K : Ops(K)' = Ops(K) /\ once = 0
      /\ PreCommit' = PreCommit /\ \A t \in Special : Out(t)' => Out(t)
  BY <1>3, <1>4, MessageFields DEF New, Other, Ops, PreCommit, PreStart, Out, Special,
     IInv, Flash, Kept, client
<1>8. ASSUME once' # 0
      PROVE  ~New /\ once' = Other /\ store[Other] = Chunks /\ ~Ops({"set", "chunk"})
  <2>1. dev.upgraded /\ once' = getAppStoreToUpgrade
    BY <1>4, <1>7, <1>8
  <2>2. ~New
    BY <2>1 DEF IInv, Flash
  <2>3. dev.cs = dev.app
    BY <2>2, <1>4 DEF IInv, Flash
  <2>4. once' = Other
    BY <2>1, <2>3 DEF getAppStoreToUpgrade, isNewApp, Other
  <2>5. dev.valid /\ Written
    BY <1>1, <1>4, <2>2 DEF IInv, Transfer, GivenUp, Fresh, Writing
  <2> QED BY <2>2, <2>4, <2>5 DEF Written
<1>9. once' \in Stores \cup {0}
  BY <1>8 DEF Types, Other, Ram, Stores
<1>10. Flash'
  BY <1>3, <1>4, <1>7, <1>8 DEF IInv, Flash, Kept, Special
<1> QED BY <1>1, <1>2, <1>3, <1>4, <1>6, <1>9, <1>10, Served DEF Types, Kept

(***************************************************************************)
(* A commit of a new application is asked for once in a connection: were   *)
(* it asked for again before the old one has been erased, the running      *)
(* application would be erased next.                                       *)
(***************************************************************************)
LEMMA CommitServed ==
    ASSUME Types, IInv, ~tx.done, UNCHANGED client, CommitCfm
    PROVE  Types' /\ IInv'
PROOF
<1>1. /\ Takes("COMMIT_CFM") /\ Out("COMMIT_CFM")
      /\ "COMMIT_CFM" \in Kinds \ {"none", "CONNECT"}
  BY DEF CommitCfm, Kinds, Takes, Out
<1>2. \/ Grows(tx, tx', {"write_cfm", "ack"})
      \/ Grows(tx, tx', {"write_cfm", "ack", "COMPLETE_IND"})
  <2>1. Msg("COMPLETE_IND", 0) \in Message /\ Msg("COMPLETE_IND", 0).t = "COMPLETE_IND"
    BY Messages, MessageFields DEF Kinds
  <2> QED BY <2>1, AckedGrows, AnswerGrows DEF CommitCfm, Types
<1>3. dev' \in Ram /\ Kept
  <2>1. \/ dev' = [Touched EXCEPT !.timer = FALSE, !.trial = FALSE, !.commit_cfm = TRUE]
        \/ dev' = [Touched EXCEPT !.trial = FALSE, !.reset = TRUE, !.closing = TRUE]
    BY DEF CommitCfm
  <2>2. Touched \in Ram
    BY TouchedFields
  <2>3. dev' \in Ram
    BY <2>1, <2>2 DEF Ram
  <2>4. CASE dev' = [Touched EXCEPT !.timer = FALSE, !.trial = FALSE, !.commit_cfm = TRUE]
    BY <2>2, <2>3, <2>4, TouchedFields DEF Ram, Kept
  <2>5. CASE dev' = [Touched EXCEPT !.trial = FALSE, !.reset = TRUE, !.closing = TRUE]
    BY <2>2, <2>3, <2>5, TouchedFields DEF Ram, Kept
  <2> QED BY <2>1, <2>3, <2>4, <2>5
<1>4. /\ link /\ link' = link /\ ~dev.closing /\ up' = None /\ wr' = wr /\ cl' = cl
      /\ UNCHANGED <<store, committed, once>> /\ resume' \in {"start", "post"}
      /\ \/ fw' = fw
         \/ isNewApp /\ fw' = Append(fw, Op("run", getAppStoreToUpgrade))
  BY <1>1 DEF CommitCfm, Takes, client
<1>5. PlainWrites /\ Downhill
  BY <1>4, TakenPlain
<1>6. /\ New' = New /\ Other' = Other /\ once = 0 /\ dev.cs # 0
      /\ PreCommit' = PreCommit /\ \A t \in Special : Out(t)' => Out(t)
      /\ ~PreCommit /\ ~Out("COMMIT_CFM")'
  BY <1>1, <1>3, <1>4, MessageFields DEF New, Other, PreCommit, PreStart, Out, Special,
     IInv, Flash, Kept, Client, Takes
<1>7. CASE fw' = fw
  <2>1. \A K : Ops(K)' = Ops(K)
    BY <1>7 DEF Ops
  <2>2. Flash'
    BY <1>3, <1>4, <1>6, <1>7, <2>1 DEF IInv, Flash, Kept
  <2>3. Transfer'
    BY <1>3, <1>4, <1>5, <1>7, KeptTransfer DEF IInv
  <2> QED BY <1>1, <1>2, <1>3, <1>4, <1>7, <2>2, <2>3, Served DEF Types, Kept
<1>8. CASE isNewApp /\ fw' = Append(fw, Op("run", getAppStoreToUpgrade))
  <2>1. New
    BY <1>4, <1>6, <1>8 DEF IInv, Flash, isNewApp
  <2>2. fw = <<>>
    BY <1>1, <1>4, <2>1 DEF IInv, Flash
  <2>3. fw' = <<Op("run", dev.app)>> /\ dev.cs = Other
    BY <2>2, <1>8, <1>6 DEF getAppStoreToUpgrade, isNewApp, Other, Types, Ram, Stores
  <2>4. /\ Op("run", dev.app) \in Request /\ Op("run", dev.app).t = "run"
        /\ Op("key", 0).t = "key" /\ Op("set", Other).t = "set"
    BY DEF Op, Request, Works, Types, Ram
  <2>5. fw' # <<Op("key", 0)>> /\ fw' # <<Op("set", Other)>> /\ ~Ops({"key"})'
        /\ fw' \in Seq(Request)
    BY <2>3, <2>4 DEF Ops
  <2>6. Flash'
    BY <1>3, <1>4, <1>6, <2>1, <2>3, <2>5 DEF IInv, Flash, Kept
  <2>7. Transfer'
    BY <1>6, <2>1 DEF Transfer
  <2> QED BY <1>1, <1>2, <1>3, <1>4, <2>5, <2>6, <2>7, Served DEF Types, Kept
<1> QED BY <1>4, <1>7, <1>8
-----------------------------------------------------------------------------
(* The packets of the file *)

Answered ==
    \/ tx' = Acked
    \/ \E n \in Nat : tx' = Notify(Acked, BytesReq(n))
    \/ tx' = Notify(Acked, ErrorInd)

LEMMA AnsweredGrows ==
    ASSUME Types, Answered
    PROVE  \E M : Grows(tx, tx', M) /\ "COMPLETE" \notin M
PROOF
<1>1. tx \in Queue
  BY DEF Types
<1>2. CASE tx' = Acked
  BY <1>1, <1>2, AckedGrows
<1>3. ASSUME NEW n \in Nat, tx' = Notify(Acked, BytesReq(n))
      PROVE  Grows(tx, tx', {"write_cfm", "ack", "DATA_BYTES_REQ"})
  BY <1>1, <1>3, AnswerGrows, Messages, MessageFields
<1>4. CASE tx' = Notify(Acked, ErrorInd)
  <2>1. Grows(tx, tx', {"write_cfm", "ack", "ERROR_IND"})
    BY <1>1, <1>4, AnswerGrows, Messages, MessageFields
  <2> QED BY <2>1
<1>5. CASE \E n \in Nat : tx' = Notify(Acked, BytesReq(n))
  <2>1. Grows(tx, tx', {"write_cfm", "ack", "DATA_BYTES_REQ"})
    BY <1>5, <1>3
  <2> QED BY <2>1
<1> QED BY <1>2, <1>4, <1>5 DEF Answered

(* What the parser leaves alone but in three of its stages *)
Parsing ==
    /\ dev' \in Ram /\ dev'.app = dev.app /\ dev'.cs = dev.cs
    /\ dev'.closing = dev.closing /\ dev'.reset = dev.reset
    /\ dev'.state = dev.state /\ dev'.sum = dev.sum

Skimming ==
    /\ Parsing /\ fw' = fw
    /\ dev'.valid = dev.valid /\ dev'.upgraded = dev.upgraded
    /\ dev'.last = dev.last /\ dev'.part = dev.part

LEMMA TouchedStage ==
    ASSUME Types, fw' = fw, NEW s \in Steps, NEW n \in Nat, Continue(Touched, s, n)
    PROVE  /\ Skimming /\ Answered
           /\ dev'.stage = s /\ dev'.got = dev.got /\ dev'.field = dev.field
BY TouchedFields DEF Continue, Skimming, Parsing, Answered, Ram

LEMMA TouchedRefused ==
    ASSUME Types, fw' = fw, Refuse(Touched)
    PROVE  /\ Skimming /\ Answered
           /\ dev'.stage = dev.stage /\ dev'.got = dev.got /\ dev'.field = dev.field
BY TouchedFields DEF Refuse, Skimming, Parsing, Answered, Ram

LEMMA BodyRead ==
    ASSUME Types, fw' = fw, dev.stage = "body", HeaderBody
    PROVE  /\ Skimming /\ Answered
           /\ \/ dev'.stage = "body"
              \/ dev'.stage = "unknown" /\ dev'.got = 0
           /\ New /\ dev.got = 0 /\ dev.field = "version" =>
                dev'.stage = "body" /\ dev'.got = 0 /\ dev'.field = "version"
PROOF
<1> DEFINE f == IF dev.field = "version" THEN "nvm" ELSE "version"
           g == IF dev.got = 0 THEN 1 ELSE 0
<1>1. f \in {"version", "nvm"} /\ g \in {0, 1} /\ (dev.got # 0 => g = 0)
  OBVIOUS
<1>2. Touched \in Ram /\ Touched.field = dev.field
  BY TouchedFields
<1>3. CASE Refuse([Touched EXCEPT !.field = "version", !.commit_cfm = FALSE])
  <2>1. /\ dev' = [Touched EXCEPT !.field = "version", !.commit_cfm = FALSE,
                                  !.trial = FALSE]
        /\ tx' = Notify(Acked, ErrorInd)
    BY <1>3 DEF Refuse
  <2>2. Skimming
    BY <2>1, <1>2, TouchedFields DEF Skimming, Parsing, Ram
  <2>3. dev'.stage = "body" /\ dev'.got = dev.got /\ dev'.field = "version"
    BY <2>1, <1>2, TouchedFields DEF Ram
  <2> QED BY <2>1, <2>2, <2>3 DEF Answered
<1>4. ASSUME dev' = [Touched EXCEPT !.got = g, !.field = f], tx' = Acked
      PROVE  Skimming /\ Answered /\ dev'.stage = "body"
  BY <1>4, <1>1, <1>2, TouchedFields DEF Skimming, Parsing, Ram, Answered
<1>5. ASSUME Continue([Touched EXCEPT !.got = g, !.field = f], "unknown", 1)
      PROVE  Skimming /\ Answered /\ dev'.stage = "unknown" /\ dev'.got = g
  <2> HIDE DEF f, g
  <2> DEFINE d == [Touched EXCEPT !.got = g, !.field = f]
  <2>1. dev' = [d EXCEPT !.stage = "unknown"] /\ tx' = Notify(Acked, BytesReq(1))
    BY <1>5 DEF Continue
  <2>2. d \in Ram
    <3>1. g \in Nat
      BY <1>1
    <3> QED BY <1>1, <1>2, <3>1 DEF Ram
  <2>3. /\ d.app = dev.app /\ d.cs = dev.cs /\ d.got = g
        /\ d.closing = dev.closing /\ d.reset = dev.reset /\ d.state = dev.state
        /\ d.sum = dev.sum /\ d.valid = dev.valid /\ d.upgraded = dev.upgraded
        /\ d.last = dev.last /\ d.part = dev.part
    BY <1>2, TouchedFields DEF Ram
  <2> HIDE DEF d
  <2> QED BY <2>1, <2>2, <2>3 DEF Skimming, Parsing, Ram, Steps, Answered
<1>6. \/ Refuse([Touched EXCEPT !.field = "version", !.commit_cfm = FALSE])
      \/ /\ dev' = [Touched EXCEPT !.got = g, !.field = f] /\ tx' = Acked
         /\ dev.got = 0
      \/ /\ Continue([Touched EXCEPT !.got = g, !.field = f], "unknown", 1)
         /\ dev.got # 0
  BY DEF HeaderBody
<1>7. New /\ dev.got = 0 /\ dev.field = "version" =>
        Refuse([Touched EXCEPT !.field = "version", !.commit_cfm = FALSE])
  BY DEF HeaderBody, New
<1>8. CASE New /\ dev.got = 0 /\ dev.field = "version"
  <2>1. dev' = [Touched EXCEPT !.field = "version", !.commit_cfm = FALSE,
                                  !.trial = FALSE]
    BY <1>7, <1>8 DEF Refuse
  <2>2. dev'.stage = "body" /\ dev'.got = 0 /\ dev'.field = "version"
    BY <2>1, <1>8, <1>2, TouchedFields DEF Ram
  <2> QED BY <1>3, <1>7, <1>8, <2>2
<1>9. CASE ~(New /\ dev.got = 0 /\ dev.field = "version")
  BY <1>1, <1>3, <1>4, <1>5, <1>6, <1>9
<1> QED BY <1>8, <1>9
(* A request more of the server, while the client sends nothing special *)
LEMMA OpAppended ==
    ASSUME NEW K, fw \in Seq(Request), NEW op \in Request, fw' = Append(fw, op)
    PROVE  /\ fw' \in Seq(Request) /\ Len(fw') = Len(fw) + 1 /\ Len(fw) \in Nat
           /\ \A i \in 1 .. Len(fw') : fw'[i] = IF i <= Len(fw) THEN fw[i] ELSE op
           /\ Ops(K)' <=> Ops(K) \/ op.t \in K
PROOF
<1>1. /\ fw' \in Seq(Request) /\ Len(fw') = Len(fw) + 1 /\ Len(fw) \in Nat
      /\ \A i \in 1 .. Len(fw') : fw'[i] = IF i <= Len(fw) THEN fw[i] ELSE op
  OBVIOUS
<1>2. Ops(K)' => Ops(K) \/ op.t \in K
  BY <1>1 DEF Ops
<1>3. Ops(K) => Ops(K)'
  BY <1>1 DEF Ops
<1>4. op.t \in K => Ops(K)'
  <2>1. Len(fw') \in 1 .. Len(fw') /\ fw'[Len(fw')] = op
    BY <1>1
  <2> QED BY <2>1 DEF Ops
<1> QED BY <1>1, <1>2, <1>3, <1>4

LEMMA Requests ==
    ASSUME Types
    PROVE  /\ \A t \in Works : Op(t, Other) \in Request
           /\ \A t, s : Op(t, s).t = t /\ Op(t, s).s = s
           /\ Other \in Stores /\ Other # dev.app /\ dev.app \in Stores
BY DEF Types, Ram, Stores, Other, Op, Request

LEMMA HostFlash ==
    ASSUME Types, IInv, Parsing, link, ~dev.closing, link' = link,
           up' = None, UNCHANGED client, UNCHANGED flash,
           New => /\ fw' = fw /\ dev'.stage \in {"id", "len", "body"}
                  /\ dev'.field = "version" /\ dev'.got = 0 /\ ~dev'.upgraded,
           ~New => \/ fw' = fw /\ dev'.part = dev.part
                   \/ \E t \in {"set", "chunk"} :
                        fw' = Append(fw, Op(t, Other)) /\ dev'.part = Other
    PROVE  Flash' /\ fw' \in Seq(Request)
PROOF
<1>1. /\ New' = New /\ Other' = Other /\ once = 0 /\ dev.cs # 0
      /\ dev'.cs = dev.cs /\ dev'.app = dev.app
      /\ PreCommit' = PreCommit /\ (Out("COMMIT_CFM")' => Out("COMMIT_CFM"))
      /\ store' = store /\ committed' = committed /\ once' = once
  BY MessageFields DEF New, Other, flash, client, PreCommit, PreStart, Out, IInv,
     Flash, Parsing
<1>2. CASE fw' = fw
  <2>1. \A K : Ops(K)' = Ops(K)
    BY <1>2 DEF Ops
  <2> QED BY <1>1, <1>2, <2>1 DEF IInv, Flash, Types
<1>3. ASSUME ~New, NEW t \in {"set", "chunk"}, fw' = Append(fw, Op(t, Other)),
             dev'.part = Other
      PROVE  Flash' /\ fw' \in Seq(Request)
  <2> DEFINE op == Op(t, Other)
  <2>1. op \in Request /\ op.t = t /\ op.s = Other
    BY Requests DEF Works
  <2> HIDE DEF op
  <2>2. /\ fw' \in Seq(Request) /\ Len(fw') = Len(fw) + 1 /\ Len(fw) \in Nat
        /\ \A i \in 1 .. Len(fw') : fw'[i] = IF i <= Len(fw) THEN fw[i] ELSE op
        /\ Ops({"key"})' <=> Ops({"key"}) \/ op.t \in {"key"}
    BY <1>3, <2>1, OpAppended DEF Types, op
  <2>3. ~Ops({"key"}) /\ ~Ops({"key"})'
    BY <1>1, <2>1, <2>2 DEF IInv, Flash
  <2>4. fw' # <<Op("key", 0)>>
    <3> SUFFICES ASSUME fw' = <<Op("key", 0)>> PROVE FALSE
      OBVIOUS
    <3>1. Len(fw') = 1 /\ fw'[1].t = "key"
      BY Requests
    <3> QED BY <3>1, <2>3 DEF Ops
  <2>5. \A i \in 1 .. Len(fw') :
            fw'[i].t \in {"set", "chunk", "hash"} /\ fw'[i].s = Other
    <3>1. \A i \in 1 .. Len(fw) :
            fw[i].t \in {"set", "chunk", "hash"} /\ fw[i].s = Other
      BY <1>3, <2>3 DEF IInv, Flash, Ops
    <3> QED BY <3>1, <2>1, <2>2
  <2> QED BY <1>1, <1>3, <2>2, <2>3, <2>4, <2>5 DEF IInv, Flash
<1> QED BY <1>2, <1>3
(***************************************************************************)
(* A packet of the file moves a transfer on from one of its parts to the   *)
(* next: the partition's header is taken once, and the signature passes    *)
(* only when the whole image has been written and hashed.                  *)
(***************************************************************************)
LEMMA HostParsed ==
    ASSUME Types, IInv, UNCHANGED client, HostData, dev.state = "IN_PROGRESS"
    PROVE  /\ Parsing /\ Answered /\ (dev.valid => dev'.valid)
           /\ New => /\ fw' = fw /\ dev'.stage \in {"id", "len", "body"}
                     /\ dev'.field = "version" /\ dev'.got = 0 /\ ~dev'.upgraded
           /\ ~New => \/ fw' = fw /\ dev'.part = dev.part
                      \/ \E t \in {"set", "chunk"} :
                            fw' = Append(fw, Op(t, Other)) /\ dev'.part = Other
           /\ Transfer'
PROOF
<1>1. /\ link /\ ~dev.closing /\ up.t = "DATA" /\ up' = None /\ link' = link
      /\ UNCHANGED flash /\ wr' = wr /\ cl' = cl
  BY DEF HostData, Takes, client
<1>2. /\ up.v \in 1 .. Len(File) /\ (Handing => up.v <= cl.off)
      /\ wr.pend.t = "DATA" => up.v < wr.pend.v /\ wr.pend.v \in Nat
      /\ ~PreStart /\ Out("DATA") /\ cl.off \in Nat
  BY <1>1, FileParts DEF IInv, Client, Out, Types, Message, Relayer
<1>3. /\ dev.cs # 0 /\ once = 0
      /\ New => /\ dev.stage \in {"id", "len", "body"} /\ dev.field = "version"
                /\ dev.got = 0 /\ ~dev.upgraded
      /\ ~New => dev.cs = dev.app
  BY <1>1 DEF IInv, Flash
<1>4. ~New => (Fresh \/ Writing \/ Written) /\ Started
  BY <1>1, <1>2 DEF IInv, Transfer, GivenUp, Fresh, Writing, Written
<1>5. /\ Started => Started'
      /\ Beyond => Beyond'
      /\ Out("TRANSFER_COMPLETE_RES")' => Out("TRANSFER_COMPLETE_RES")
  BY <1>1, MessageFields DEF Started, Beyond, PreStart, Out, Handing
<1>6. ASSUME Parsing PROVE New' = New /\ Other' = Other
  BY <1>1, <1>6 DEF Parsing, New, Other, flash
<1>7. ASSUME Parsing, dev.valid => dev'.valid,
             ~New => (Fresh \/ Writing \/ Written)'
      PROVE  Transfer'
  BY <1>1, <1>5, <1>6, <1>7 DEF IInv, Transfer
<1>8. ASSUME Skimming, Fresh, ~New, dev'.stage # "data",
             dev'.stage \in {"unknown", "phdr"} => dev'.got = 0,
             dev'.stage = "phdr" => Beyond'
      PROVE  Fresh'
  BY <1>4, <1>5, <1>8 DEF Fresh, Skimming, Parsing
<1>9. ASSUME Skimming, Written, ~New, dev'.stage \in {"unknown", "flen", "sig"}
      PROVE  Written'
  <2>1. New' = New /\ Other' = Other /\ \A K : Ops(K)' = Ops(K)
    BY <1>6, <1>9 DEF Skimming, Ops
  <2> QED BY <2>1, <1>1, <1>5, <1>9 DEF Written, Skimming, Parsing, flash
<1>10. ~New => /\ dev.stage \in {"id", "len", "body"} => Fresh
               /\ dev.stage \in {"unknown", "flen", "sig"} => Fresh \/ Written
               /\ dev.stage = "phdr" => Fresh
               /\ dev.stage = "data" => Writing
  BY <1>4 DEF Fresh, Writing, Written
<1>11. CASE dev.stage = "id"
  <2>1. /\ Skimming /\ Answered /\ dev'.stage = "len" /\ dev'.got = dev.got
        /\ dev'.field = dev.field
    <3>1. CASE Continue(Touched, "len", 1) /\ fw' = fw
      BY <3>1, TouchedStage DEF Steps
    <3>2. CASE Refuse([Touched EXCEPT !.stage = "len"]) /\ fw' = fw
      <4>1. /\ dev' = [Touched EXCEPT !.stage = "len", !.trial = FALSE]
            /\ tx' = Notify(Acked, ErrorInd)
        BY <3>2 DEF Refuse
      <4> QED BY <3>2, <4>1, TouchedFields DEF Skimming, Parsing, Answered, Ram, Steps
    <3> QED BY <1>11, <3>1, <3>2 DEF HostData
  <2>2. ~New => Fresh'
    BY <2>1, <1>8, <1>10, <1>11
  <2> QED BY <2>1, <2>2, <1>3, <1>7 DEF Skimming
<1>12. CASE dev.stage = "len"
  <2>1. /\ Skimming /\ Answered /\ dev'.stage = "body" /\ dev'.got = dev.got
        /\ dev'.field = dev.field
    BY <1>12, TouchedStage DEF HostData, Steps
  <2>2. ~New => Fresh'
    BY <2>1, <1>8, <1>10, <1>12
  <2> QED BY <2>1, <2>2, <1>3, <1>7 DEF Skimming
<1>13. CASE dev.stage = "body"
  <2>1. HeaderBody /\ fw' = fw
    BY <1>13 DEF HostData
  <2>2. Skimming /\ Answered
    BY <2>1, <1>13, BodyRead
  <2>3. /\ dev'.stage = "body" \/ (dev'.stage = "unknown" /\ dev'.got = 0)
        /\ New => dev'.stage = "body" /\ dev'.got = 0 /\ dev'.field = "version"
    BY <2>1, <1>3, <1>13, BodyRead
  <2>4. ~New => Fresh'
    BY <2>2, <2>3, <1>8, <1>10, <1>13
  <2> QED BY <2>2, <2>3, <2>4, <1>3, <1>7 DEF Skimming
<1>14. CASE dev.stage = "unknown"
  <2>1. ~New
    BY <1>3, <1>14
  <2>2. /\ Skimming /\ Answered /\ dev'.got = dev.got
        /\ dev'.stage \in {"unknown", "flen"}
           \/ (dev'.stage = "phdr" /\ File[up.v] = "part")
    <3>1. CASE /\ File[up.v] \in {"part", "foot"} /\ fw' = fw
               /\ Continue(Touched, IF File[up.v] = "part" THEN "phdr" ELSE "flen", 1)
      BY <3>1, TouchedStage DEF Steps
    <3>2. CASE Refuse(Touched) /\ fw' = fw
      BY <3>2, <1>14, TouchedRefused
    <3> QED BY <1>14, <3>1, <3>2 DEF HostData
  <2>3. dev'.stage = "phdr" => up.v = 5
    BY <2>2, <1>2, FileParts
  <2>4. up.v = 5 => Beyond'
    BY <1>1, <1>2, MessageFields DEF Beyond, Handing
  <2>5. Written => up.v > 5
    BY <1>1 DEF Written, Beyond
  <2>6. CASE Fresh
    <3>1. dev.got = 0
      BY <2>6, <1>14 DEF Fresh
    <3>2. Fresh'
      BY <2>1, <2>2, <2>3, <2>4, <2>6, <3>1, <1>8
    <3> QED BY <2>1, <2>2, <3>2, <1>7 DEF Skimming
  <2>7. CASE Written
    <3>1. Written'
      BY <2>1, <2>2, <2>3, <2>5, <2>7, <1>9
    <3> QED BY <2>1, <2>2, <3>1, <1>7 DEF Skimming
  <2> QED BY <2>1, <2>6, <2>7, <1>10, <1>14
<1>15. CASE dev.stage = "flen"
  <2>1. ~New
    BY <1>3, <1>15
  <2>2. Skimming /\ Answered /\ dev'.stage = "sig"
    <3>1. /\ dev' = [Touched EXCEPT !.got = 0, !.stage = "sig"]
          /\ tx' = Notify(Acked, BytesReq(1)) /\ fw' = fw
      BY <1>15 DEF HostData, Continue
    <3> QED BY <3>1, TouchedFields DEF Skimming, Parsing, Answered, Ram, Steps
  <2>3. (Fresh \/ Written)'
    BY <2>1, <2>2, <1>8, <1>9, <1>10, <1>15
  <2> QED BY <2>1, <2>2, <2>3, <1>7 DEF Skimming
<1>16. CASE dev.stage = "sig"
  <2>1. ~New /\ Signature /\ fw' = fw
    BY <1>3, <1>16 DEF HostData
  <2> DEFINE d == [Touched EXCEPT !.got = @ + 1]
  <2>2. /\ d \in Ram /\ d.app = dev.app /\ d.cs = dev.cs
        /\ d.closing = dev.closing /\ d.reset = dev.reset /\ d.state = dev.state
        /\ d.sum = dev.sum /\ d.valid = dev.valid /\ d.upgraded = dev.upgraded
        /\ d.last = dev.last /\ d.part = dev.part /\ d.stage = "sig"
    <3>1. Touched \in Ram /\ Touched.got + 1 \in Nat
      BY TouchedFields DEF Ram
    <3> QED BY <3>1, <1>16, TouchedFields DEF Ram
  <2>3. \/ Refuse(d)
        \/ dev.sum = "image" /\ Continue(d, "sig", 1)
        \/ dev.sum = "image" /\ tx' = Acked
           /\ dev' = [Touched EXCEPT !.got = @ + 1, !.valid = TRUE]
    BY <2>1 DEF Signature, Types, Ram
  <2>4. CASE dev' = [Touched EXCEPT !.got = @ + 1, !.valid = TRUE]
             /\ dev.sum = "image" /\ tx' = Acked
    <3>1. dev' = [d EXCEPT !.valid = TRUE]
      BY <2>4
    <3> HIDE DEF d
    <3>2. /\ Parsing /\ Answered /\ dev'.valid /\ dev'.stage = "sig"
          /\ dev'.part = dev.part
      BY <2>2, <2>4, <3>1 DEF Parsing, Answered, Ram
    <3>3. Written
      BY <2>1, <2>4, <1>10, <1>16 DEF Fresh
    <3>4. New' = New /\ Other' = Other /\ \A K : Ops(K)' = Ops(K)
      BY <2>1, <3>2, <1>6 DEF Ops
    <3>5. Written'
      BY <2>1, <2>4, <3>2, <3>3, <3>4, <1>1, <1>5 DEF Written, Parsing, flash
    <3> QED BY <2>1, <3>2, <3>5, <1>7
  <2>5. CASE Refuse(d) \/ Continue(d, "sig", 1)
    <3> HIDE DEF d
    <3>1. Skimming /\ Answered /\ dev'.stage = "sig"
      <4>1. CASE Refuse(d)
        BY <2>1, <2>2, <4>1 DEF Refuse, Skimming, Parsing, Answered, Ram
      <4>2. CASE Continue(d, "sig", 1)
        BY <2>1, <2>2, <4>2 DEF Continue, Skimming, Parsing, Answered, Ram
      <4> QED BY <2>5, <4>1, <4>2
    <3>2. (Fresh \/ Written)'
      BY <2>1, <3>1, <1>8, <1>9, <1>10, <1>16
    <3> QED BY <2>1, <3>1, <3>2, <1>7 DEF Skimming
  <2> QED BY <2>3, <2>4, <2>5
<1>17. CASE dev.stage = "phdr"
  <2>1. ~New /\ Fresh
    BY <1>3, <1>10, <1>17
  <2>2. getAppStoreToUpgrade = Other
    BY <2>1, <1>3 DEF getAppStoreToUpgrade, isNewApp, Other
  <2>3. /\ dev' = [Touched EXCEPT !.part = Other, !.upgraded = TRUE, !.stage = "data"]
        /\ tx' = Acked /\ fw' = Append(fw, Op("set", Other))
    BY <2>2, <1>17 DEF HostData
  <2>4. /\ Parsing /\ Answered /\ dev'.valid = dev.valid
        /\ dev'.stage = "data" /\ dev'.part = Other /\ dev'.got = dev.got
    <3>1. Touched \in Ram /\ Other \in Stores
      BY TouchedFields, Requests
    <3>2. dev' \in Ram
      BY <2>3, <3>1 DEF Ram, Steps
    <3> QED BY <2>3, <3>1, <3>2, TouchedFields DEF Parsing, Answered, Ram
  <2>5. Op("set", Other) \in Request /\ Op("set", Other).t = "set"
    BY Requests DEF Works
  <2>6. ~Ops({"hash"})' /\ ~Ops({"chunk"})'
    <3>1. ~Ops({"hash"}) /\ ~Ops({"chunk"})
      BY <2>1 DEF Fresh, Ops
    <3> QED BY <2>3, <2>5, <3>1, OpAppended DEF Types
  <2>7. Beyond /\ dev.got = 0 /\ dev.sum = "none" /\ ~dev.valid
    BY <2>1, <1>17 DEF Fresh
  <2>8. Writing'
    BY <2>1, <2>4, <2>6, <2>7, <1>4, <1>5, <1>6 DEF Writing, Parsing
  <2> QED BY <2>1, <2>3, <2>4, <2>8, <1>7
<1>18. CASE dev.stage = "data"
  <2>1. ~New /\ Writing
    BY <1>3, <1>10, <1>18
  <2> DEFINE ended == dev.got + 1 = Chunks
             g == IF ended THEN 0 ELSE dev.got + 1
             l == ended \/ (dev.got # 0 /\ dev.last)
             s == IF ended THEN "unknown" ELSE "data"
             d == [Touched EXCEPT !.got = g, !.last = l]
  <2>2. dev.part = Other /\ dev.sum = "none" /\ ~dev.valid /\ ~Ops({"hash"}) /\ Beyond
        /\ (dev.got # 0 => ~dev.last)
    BY <2>1 DEF Writing
  <2>3. fw' = Append(fw, Op("chunk", Other)) /\ Continue(d, s, 1)
    <3>1. Touched.got = dev.got /\ Touched.last = dev.last
      BY TouchedFields
    <3> QED BY <3>1, <2>2, <1>18, TouchedFields DEF HostData, PartitionData, Ram
  <2>4. /\ g \in Nat /\ l \in BOOLEAN /\ s \in {"unknown", "data"}
        /\ s = "data" => g # 0 /\ ~l
    BY <2>2 DEF Types, Ram
  <2>5. /\ d \in Ram /\ d.app = dev.app /\ d.cs = dev.cs /\ d.got = g /\ d.last = l
        /\ d.closing = dev.closing /\ d.reset = dev.reset /\ d.state = dev.state
        /\ d.sum = dev.sum /\ d.valid = dev.valid /\ d.part = dev.part
    <3> HIDE DEF g, l
    <3>1. Touched \in Ram
      BY TouchedFields
    <3>2. d \in Ram
      BY <2>4, <3>1 DEF Ram
    <3> QED BY <2>4, <3>1, <3>2, TouchedFields DEF Ram
  <2> HIDE DEF ended, g, l, s, d
  <2>6. /\ Parsing /\ Answered /\ dev'.valid = dev.valid /\ dev'.stage = s
        /\ dev'.got = g /\ dev'.last = l /\ dev'.part = dev.part
    BY <2>3, <2>4, <2>5 DEF Continue, Parsing, Answered, Ram, Steps
  <2>7. Op("chunk", Other) \in Request /\ Op("chunk", Other).t = "chunk"
    BY Requests DEF Works
  <2>8. ~Ops({"hash"})'
    BY <2>2, <2>3, <2>7, OpAppended DEF Types
  <2>9. New' = New /\ Other' = Other /\ Started' /\ Beyond'
    BY <2>1, <2>2, <2>6, <1>4, <1>5, <1>6
  <2>10. CASE s = "data"
    <3>1. Writing'
      BY <2>2, <2>4, <2>6, <2>8, <2>9, <2>10 DEF Writing, Parsing
    <3> QED BY <2>1, <2>2, <2>3, <2>6, <3>1, <1>7
  <2>11. CASE s = "unknown"
    <3>1. \A i, j \in 1 .. Len(fw') : i < j /\ fw'[i].t = "hash" => fw'[j].t = "hash"
      BY <2>8 DEF Ops
    <3>2. Written'
      BY <2>2, <2>6, <2>9, <2>11, <3>1 DEF Written, Parsing
    <3> QED BY <2>1, <2>2, <2>3, <2>6, <3>2, <1>7
  <2> QED BY <2>4, <2>10, <2>11
<1> QED
  BY <1>11, <1>12, <1>13, <1>14, <1>15, <1>16, <1>17, <1>18 DEF HostData

LEMMA HostServed ==
    ASSUME Types, IInv, ~tx.done, UNCHANGED client, HostData
    PROVE  Types' /\ IInv'
PROOF
<1>1. /\ Takes("DATA") /\ "DATA" \in Kinds \ {"none", "CONNECT"}
      /\ link /\ ~dev.closing /\ up' = None /\ link' = link /\ UNCHANGED flash
  BY DEF HostData, Kinds, Takes
<1>2. CASE dev.state # "IN_PROGRESS"
  <2>1. dev' = Touched /\ tx' = Acked /\ fw' = fw
    BY <1>2 DEF HostData
  <2>2. dev' \in Ram /\ Kept
    BY <2>1, TouchedFields DEF Kept
  <2>3. Grows(tx, tx', {"write_cfm", "ack"})
    BY <2>1, AckedGrows DEF Types
  <2>4. Flash' /\ Transfer'
    BY <1>1, <2>1, <2>2, TakenPlain, KeptFlash, KeptTransfer DEF IInv, flash
  <2> QED BY <1>1, <2>1, <2>2, <2>3, <2>4, Served DEF Types, Kept, flash
<1>3. CASE dev.state = "IN_PROGRESS"
  <2>1. /\ Parsing /\ Answered /\ (dev.valid => dev'.valid) /\ Transfer'
        /\ New => /\ fw' = fw /\ dev'.stage \in {"id", "len", "body"}
                  /\ dev'.field = "version" /\ dev'.got = 0 /\ ~dev'.upgraded
        /\ ~New => \/ fw' = fw /\ dev'.part = dev.part
                   \/ \E t \in {"set", "chunk"} :
                        fw' = Append(fw, Op(t, Other)) /\ dev'.part = Other
    BY <1>3, HostParsed
  <2>2. Flash' /\ fw' \in Seq(Request)
    BY <1>1, <2>1, HostFlash
  <2>3. PICK M : Grows(tx, tx', M) /\ "COMPLETE" \notin M
    BY <2>1, AnsweredGrows
  <2> QED BY <1>1, <2>1, <2>2, <2>3, Served DEF Types, Parsing, flash
<1> QED BY <1>2, <1>3

LEMMA ServeKeeps ==
    ASSUME Types, IInv, Serve
    PROVE  Types' /\ IInv'
BY QuietServed, HostServed, StartDataServed, AbortServed, TransferCompleteServed,
   CommitServed DEF Serve, ServerStep, client
-----------------------------------------------------------------------------
(* What the client hears, and does *)

LEMMA Taking ==
    ASSUME Types, IInv, NEW t, Gets(t)
    PROVE  /\ link /\ link' = link /\ tx' \in Queue
           /\ tx'.q = Tail(tx.q) /\ tx'.held = tx.held
           /\ Len(tx.q) \in Nat \ {0} /\ Len(tx'.q) = Len(tx.q) - 1
           /\ \A i \in 1 .. Len(tx'.q) : tx'.q[i] = tx.q[i + 1] /\ i + 1 \in 1 .. Len(tx.q)
           /\ t # "write_cfm" => /\ tx'.used = tx.used - 1
                                 /\ tx.held # None => tx'.done
           /\ Head(tx.q) = WriteCfm => tx'.used = tx.used /\ tx'.done = tx.done
           /\ tx.q[1] = Head(tx.q) /\ tx.q[1].t = t
           /\ cl.start # "timer"
           /\ cl.state = "CONNECT" => t \in {"write_cfm", "conn_ack"}
PROOF
<1>1. link /\ link' = link /\ tx.q # <<>> /\ Head(tx.q).t = t /\ tx' = Taken
  BY DEF Gets
<1>2. /\ tx.q \in Seq(Message) /\ tx.used \in Int /\ tx.held \in Message
      /\ tx.done \in BOOLEAN
  BY DEF Types, Queue
<1>3. /\ Tail(tx.q) \in Seq(Message) /\ Len(tx.q) \in Nat \ {0}
      /\ Len(Tail(tx.q)) = Len(tx.q) - 1 /\ tx.q[1] = Head(tx.q)
      /\ \A i \in 1 .. Len(Tail(tx.q)) :
            Tail(tx.q)[i] = tx.q[i + 1] /\ i + 1 \in 1 .. Len(tx.q)
  BY <1>1, <1>2
<1> DEFINE d == tx.done \/ tx.held # None
<1>4. d \in BOOLEAN
  BY <1>2
<1>5. CASE Head(tx.q) = WriteCfm
  <2>1. tx' = [tx EXCEPT !.q = Tail(tx.q)] /\ t = "write_cfm"
    BY <1>1, <1>5, MessageFields DEF Taken
  <2>2. /\ tx' \in Queue /\ tx'.q = Tail(tx.q) /\ tx'.held = tx.held
        /\ tx'.used = tx.used /\ tx'.done = tx.done
    BY <2>1, <1>3 DEF Types, Queue
  <2> QED BY <2>1, <2>2, <1>1, <1>3, <1>5, MessageFields DEF IInv, Opening, Client
<1>6. CASE Head(tx.q) # WriteCfm
  <2>1. tx' = [tx EXCEPT !.q = Tail(tx.q), !.used = tx.used - 1, !.done = d]
    BY <1>1, <1>6 DEF Taken
  <2> HIDE DEF d
  <2>2. tx.used - 1 \in Int
    BY <1>2
  <2>3. /\ tx' \in Queue /\ tx'.q = Tail(tx.q) /\ tx'.held = tx.held
        /\ tx'.used = tx.used - 1 /\ tx'.done = d
    BY <2>1, <2>2, <1>3, <1>4 DEF Types, Queue
  <2>4. cl.start # "timer"
    BY <1>1 DEF IInv, Opening, Client
  <2>5. cl.state = "CONNECT" => t \in {"write_cfm", "conn_ack"}
    BY <1>1, MessageFields DEF IInv, Opening
  <2> QED BY <2>3, <2>4, <2>5, <1>1, <1>3, <1>6 DEF d
<1> QED BY <1>5, <1>6

(***************************************************************************)
(* Whatever the client hears once the server has answered the connect      *)
(* command.                                                                *)
(***************************************************************************)
LEMMA Heeded ==
    ASSUME Types, IInv, NEW t, Gets(t), ~tx.done, UNCHANGED server,
           cl' \in Relayer, up' \in Message, wr' \in [busy : BOOLEAN, pend : Message],
           cl'.start = cl.start, cl.state # "CONNECT", cl'.state # "CONNECT",
           Over => Over', Client', Flash', Transfer'
    PROVE  Types' /\ IInv'
PROOF
<1>1. /\ link /\ link' = link /\ tx' \in Queue
      /\ tx'.held = tx.held /\ Len(tx.q) \in Nat \ {0}
      /\ \A i \in 1 .. Len(tx'.q) : tx'.q[i] = tx.q[i + 1] /\ i + 1 \in 1 .. Len(tx.q)
      /\ Len(tx'.q) = Len(tx.q) - 1
      /\ cl.start # "timer"
  BY Taking
<1>2. Types'
  BY <1>1 DEF Types, server
<1>3. Apart'
  BY <1>1 DEF Apart
<1>4. Opening'
  BY <1>1 DEF Opening
<1>5. Stale'
  <2> SUFFICES ASSUME ~New, ~dev.valid
               PROVE  /\ tx'.held.t = "COMPLETE" => Over'
                      /\ \A i \in 1 .. Len(tx'.q) : tx'.q[i].t = "COMPLETE" => Over'
    BY DEF Stale, server, New
  <2>1. tx.held.t = "COMPLETE" => Over
    <3>1. tx.q # <<>>
      BY DEF Gets
    <3>2. cl.state = "IDLE" => Over
      BY <1>1 DEF Over, PreStart, Handing, Asking
    <3> QED BY <1>1, <3>1, <3>2 DEF IInv, Stale
  <2>2. ASSUME NEW i \in 1 .. Len(tx'.q), tx'.q[i].t = "COMPLETE"
        PROVE  Over
    BY <2>2, <1>1 DEF IInv, Stale
  <2> QED BY <1>1, <2>1, <2>2
<1> QED BY <1>2, <1>3, <1>4, <1>5 DEF IInv

(* Steps of the client that send no special command *)
LEMMA PlainRest ==
    ASSUME Types, IInv, link, link' = link, UNCHANGED server,
           PlainWrites, Downhill, ~wr'.busy => up' = None /\ wr'.pend = None,
           cl'.start \in {"timer", "done"},
           cl'.start = "timer" => cl'.state = "IDLE"
    PROVE  Client' /\ Flash' /\ Transfer'
PROOF
<1>1. Kept
  BY DEF Kept, server
<1>2. Flash'
  BY <1>1, KeptFlash DEF IInv, server, flash
<1>3. Transfer'
  BY <1>1, KeptTransfer DEF IInv, server
<1>4. Client'
  BY PlainClient DEF IInv
<1> QED BY <1>2, <1>3, <1>4

LEMMA PlainHeeded ==
    ASSUME Types, IInv, NEW t, Gets(t), ~tx.done, UNCHANGED server,
           cl' \in Relayer, up' \in Message, wr' \in [busy : BOOLEAN, pend : Message],
           cl'.start = cl.start, cl.state # "CONNECT", cl'.state # "CONNECT",
           PlainWrites, Downhill, ~wr'.busy => up' = None /\ wr'.pend = None
    PROVE  Types' /\ IInv'
PROOF
<1>1. link' = link /\ link /\ cl.start # "timer" /\ cl.start \in {"timer", "done"}
  BY Taking DEF IInv, Client
<1>2. Client' /\ Flash' /\ Transfer'
  BY <1>1, PlainRest
<1> QED BY <1>2, Heeded DEF Downhill

LEMMA PlainWrite ==
    ASSUME Types, NEW a \in Message, a.t \notin Special,
           \/ Write(<<a>>)
           \/ \E b \in Message : b.t \notin Special /\ Write(<<a, b>>)
    PROVE  /\ PlainWrites /\ wr'.busy
           /\ up' \in Message /\ wr' \in [busy : BOOLEAN, pend : Message]
PROOF
<1>1. None \in Message /\ None.t \notin Special
  BY Messages, MessageFields DEF Special
<1>2. CASE Write(<<a>>)
  <2>1. IF wr.busy THEN up' = up /\ wr' = [wr EXCEPT !.pend = a]
                   ELSE up' = a /\ wr' = [busy |-> TRUE, pend |-> None]
    BY <1>2, WriteOne
  <2>2. CASE wr.busy
    <3>1. up' = up /\ wr' = [busy |-> TRUE, pend |-> a]
      BY <2>1, <2>2 DEF Types
    <3> QED BY <3>1 DEF Types, PlainWrites
  <2>3. CASE ~wr.busy
    <3>1. up' = a /\ wr' = [busy |-> TRUE, pend |-> None]
      BY <2>1, <2>3 DEF Types
    <3> QED BY <3>1, <1>1 DEF PlainWrites
  <2> QED BY <2>2, <2>3
<1>3. ASSUME NEW b \in Message, b.t \notin Special, Write(<<a, b>>)
      PROVE  /\ PlainWrites /\ wr'.busy
             /\ up' \in Message /\ wr' \in [busy : BOOLEAN, pend : Message]
  <2>1. IF wr.busy THEN up' = up /\ wr' = [wr EXCEPT !.pend = b]
                   ELSE up' = a /\ wr' = [busy |-> TRUE, pend |-> b]
    BY <1>3, WriteTwo
  <2>2. CASE wr.busy
    <3>1. up' = up /\ wr' = [busy |-> TRUE, pend |-> b]
      BY <2>1, <2>2 DEF Types
    <3> QED BY <3>1, <1>3 DEF Types, PlainWrites
  <2>3. CASE ~wr.busy
    <3>1. up' = a /\ wr' = [busy |-> TRUE, pend |-> b]
      BY <2>1, <2>3 DEF Types
    <3> QED BY <3>1, <1>3 DEF PlainWrites
  <2> QED BY <2>2, <2>3
<1> QED BY <1>2, <1>3

(* The connect command is confirmed and answered, before anything else. *)
LEMMA OpeningHeard ==
    ASSUME Types, IInv, ~tx.done, UNCHANGED server, cl.state = "CONNECT",
           WriteConfirmed \/ ConnectAck
    PROVE  Types' /\ IInv'
PROOF
<1>1. link /\ wr.pend = None /\ ~tx.done /\ dev.state # "WAIT_FOR_DEVICE"
  BY DEF IInv, Opening
<1>2. /\ WriteCfm \in Message /\ Msg("conn_ack", 0) \in Message
      /\ WriteCfm.t = "write_cfm" /\ Msg("conn_ack", 0).t = "conn_ack"
      /\ None.t = "none" /\ Req("SYNC_REQ") \in Message /\ Req("SYNC_REQ").t = "SYNC_REQ"
      /\ None \in Message
  BY Messages, MessageFields DEF Kinds
<1>3. CASE WriteConfirmed
  <2>1. Gets("write_cfm") /\ cl' = cl /\ up' = None
        /\ wr' = [busy |-> FALSE, pend |-> None]
    BY <1>1, <1>3 DEF WriteConfirmed
  <2>2. tx.q = <<WriteCfm, Msg("conn_ack", 0)>> /\ tx.used = 1
    BY <1>2, <2>1 DEF IInv, Opening, Gets
  <2>3. tx'.q = <<Msg("conn_ack", 0)>> /\ tx'.used = 1 /\ ~tx'.done /\ tx' \in Queue
        /\ link' = link /\ tx'.held = tx.held /\ cl.start # "timer"
    <3>1. Head(tx.q) = WriteCfm /\ Tail(tx.q) = <<Msg("conn_ack", 0)>>
      BY <1>2, <2>2
    <3> QED BY <1>1, <2>1, <2>2, <3>1, Taking
  <2>4. PlainWrites /\ Downhill
    BY <2>1, <1>2 DEF PlainWrites, Downhill, Special, PreStart, PreCommit, Over,
       Handing, Asking
  <2>5. Client' /\ Flash' /\ Transfer'
    BY <1>1, <2>1, <2>3, <2>4, PlainRest DEF IInv, Client
  <2>6. Types'
    BY <1>2, <2>1, <2>3 DEF Types, server
  <2>7. Apart' /\ Opening' /\ Stale'
    BY <1>1, <1>2, <2>1, <2>3 DEF Apart, Opening, Stale, server
  <2> QED BY <2>5, <2>6, <2>7 DEF IInv
<1>4. CASE ConnectAck
  <2>1. /\ Gets("conn_ack") /\ cl' = [cl EXCEPT !.state = "SYNC_REQ"]
        /\ Write(<<Req("SYNC_REQ")>>)
    BY <1>4 DEF ConnectAck
  <2>2. tx.q = <<Msg("conn_ack", 0)>> /\ tx.used = 1
    BY <1>2, <2>1 DEF IInv, Opening, Gets
  <2>3. /\ tx'.q = <<>> /\ tx'.used = 0 /\ (tx.held # None => tx'.done) /\ tx' \in Queue
        /\ link' = link /\ tx'.held = tx.held /\ cl.start # "timer"
    <3>1. Tail(tx.q) = <<>>
      BY <1>2, <2>2
    <3>2. /\ tx'.q = Tail(tx.q) /\ tx'.used = tx.used - 1 /\ tx' \in Queue
          /\ (tx.held # None => tx'.done)
          /\ link' = link /\ tx'.held = tx.held /\ cl.start # "timer"
      BY <2>1, Taking
    <3> QED BY <2>2, <3>1, <3>2
  <2>4. PlainWrites /\ wr'.busy
        /\ up' \in Message /\ wr' \in [busy : BOOLEAN, pend : Message]
    BY <1>2, <2>1, PlainWrite DEF Special
  <2>5. cl' \in Relayer /\ cl'.state = "SYNC_REQ" /\ cl'.start = cl.start
    BY <2>1 DEF Types, Relayer, Places
  <2>6. Downhill
    BY <2>5 DEF Downhill, PreStart, PreCommit, Over, Handing, Asking
  <2>7. Client' /\ Flash' /\ Transfer'
    BY <1>1, <2>3, <2>4, <2>5, <2>6, PlainRest DEF IInv, Client
  <2>8. Types'
    BY <2>3, <2>4, <2>5 DEF Types, server
  <2>9. Apart' /\ Opening'
    BY <1>1, <2>3, <2>5 DEF Apart, Opening
  <2>10. Stale'
    <3>1. tx'.held.t = "COMPLETE" => tx'.done
      BY <1>2, <2>3
    <3>2. /\ tx'.held.t = "COMPLETE" =>
             /\ cl'.state = "SYNC_REQ" /\ tx'.done /\ tx'.q = <<>> /\ tx'.used = 0
             /\ dev'.state # "WAIT_FOR_DEVICE"
          /\ 1 .. Len(tx'.q) = {}
      BY <1>1, <2>3, <2>5, <3>1 DEF server
    <3> QED BY <3>2 DEF Stale
  <2> QED BY <2>7, <2>8, <2>9, <2>10 DEF IInv
<1> QED BY <1>3, <1>4
(* A reply, and where it leaves the client *)
LEMMA Replied ==
    ASSUME Types, IInv, ~tx.done, UNCHANGED server, NEW t, Gets(t),
           t \notin {"write_cfm", "conn_ack"} \/ cl.state # "CONNECT",
           cl' \in Relayer, cl'.start = cl.start, cl'.state # "CONNECT", Downhill,
           \/ up' = up /\ wr' = wr
           \/ \E a \in {Yes, Req("VALID_DONE_REQ")} : Write(<<a>>)
           \/ \E b \in {"DISCONNECT_REQ", "START_REQ", "IN_PROGRESS_RES"} :
                Write(<<Yes, Req(b)>>)
    PROVE  Types' /\ IInv'
PROOF
<1>1. cl.state # "CONNECT"
  BY Taking
<1>2. /\ \A b \in {"DISCONNECT_REQ", "START_REQ", "IN_PROGRESS_RES"} :
            Req(b) \in Message /\ Req(b).t \notin Special
      /\ \A a \in {Yes, Req("VALID_DONE_REQ")} : a \in Message /\ a.t \notin Special
      /\ Yes \in Message /\ Yes.t \notin Special
  BY Messages, MessageFields DEF Special, Kinds
<1>3. CASE up' = up /\ wr' = wr
  <2>1. PlainWrites /\ (~wr'.busy => up' = None /\ wr'.pend = None)
    BY <1>3 DEF PlainWrites, IInv, Client
  <2> QED BY <1>1, <1>3, <2>1, PlainHeeded DEF Types
<1>4. ASSUME NEW a \in {Yes, Req("VALID_DONE_REQ")}, Write(<<a>>)
      PROVE  Types' /\ IInv'
  <2>1. /\ PlainWrites /\ wr'.busy
        /\ up' \in Message /\ wr' \in [busy : BOOLEAN, pend : Message]
    BY <1>2, <1>4, PlainWrite
  <2> QED BY <1>1, <2>1, PlainHeeded
<1>5. ASSUME NEW b \in {"DISCONNECT_REQ", "START_REQ", "IN_PROGRESS_RES"},
             Write(<<Yes, Req(b)>>)
      PROVE  Types' /\ IInv'
  <2>1. /\ PlainWrites /\ wr'.busy
        /\ up' \in Message /\ wr' \in [busy : BOOLEAN, pend : Message]
    BY <1>2, <1>5, PlainWrite
  <2> QED BY <1>1, <2>1, PlainHeeded
<1> QED BY <1>3, <1>4, <1>5

LEMMA StaysDown ==
    ASSUME Types, IInv, NEW t, Gets(t), cl' \in Relayer, cl'.start = cl.start,
           \/ cl'.state = cl.state /\ cl'.off = cl.off
           \/ cl'.state \in {"IDLE", "DISCONNECT", "ABORTING_DISCONNECT"}
           \/ ~PreStart /\ ~Over /\ cl'.state \in {"WAIT_VALIDATION", "WAIT_VALIDATION_RSP"}
           \/ Handing /\ cl'.state \in {"DATA_REQ", "TRANSFER"} /\ cl'.off = cl.off
           \/ cl.state = "SYNC_REQ" /\ cl'.state \in {"START_REQ", "START_REQ_AFTER_REBOOT"}
           \/ cl.state = "START_REQ_AFTER_REBOOT" /\ cl'.state = "IN_PROGRESS_REQ"
    PROVE  Downhill
PROOF
<1>1. cl.start # "timer"
  BY Taking
<1> QED
  BY <1>1 DEF Downhill, PreStart, PreCommit, Over, Handing, Asking

LEMMA RejectKeeps ==
    ASSUME Types, IInv, ~tx.done, UNCHANGED server, NEW t, Gets(t),
           t \notin {"write_cfm", "conn_ack"}, NEW n \in Int,
           RejectAs([cl EXCEPT !.left = n]) \/ Reject
    PROVE  Types' /\ IInv'
PROOF
<1>1. cl.state # "CONNECT"
  BY Taking
<1>2. /\ cl' \in Relayer /\ cl'.start = cl.start /\ cl'.state = cl.state
      /\ cl'.off = cl.off /\ Write(<<Yes, Req("DISCONNECT_REQ")>>)
  <2>1. CASE Reject
    BY <2>1 DEF Reject, RejectAs, Types
  <2>2. CASE RejectAs([cl EXCEPT !.left = n])
    BY <2>2 DEF RejectAs, Types, Relayer
  <2> QED BY <2>1, <2>2
<1>3. Downhill
  BY <1>2, StaysDown
<1> QED BY <1>1, <1>2, <1>3, Replied

LEMMA ResetFields ==
    /\ 0 \in 0 .. Len(File)
    /\ Types => /\ Reset(cl) \in Relayer /\ Reset(cl).state = "IDLE"
                /\ Reset(cl).start = cl.start /\ Reset(cl).mesh = cl.mesh
PROOF
<1>1. 0 \in 0 .. Len(File)
  BY FileParts, OtaLinkAssumption
<1> SUFFICES ASSUME Types
             PROVE  /\ Reset(cl) \in Relayer /\ Reset(cl).state = "IDLE"
                    /\ Reset(cl).start = cl.start /\ Reset(cl).mesh = cl.mesh
  BY <1>1
<1>2. cl \in Relayer
  BY DEF Types
<1>3. Reset(cl) \in Relayer
  <2> DEFINE c == [cl EXCEPT !.state = "IDLE", !.left = 0]
             e == [c EXCEPT !.eof = FALSE]
  <2>0. "IDLE" \in Places /\ 0 \in Int
    BY DEF Places
  <2>1. c \in Relayer
    BY <2>0, <1>2 DEF Relayer
  <2> HIDE DEF c
  <2>2. e \in Relayer
    BY <2>1 DEF Relayer
  <2> HIDE DEF e
  <2>3. [e EXCEPT !.off = 0] \in Relayer
    BY <2>2, <1>1 DEF Relayer
  <2> QED BY <2>3 DEF Reset, c, e
<1> QED BY <1>2, <1>3 DEF Reset, Relayer

LEMMA QuietReplies ==
    ASSUME Types, IInv, ~tx.done, UNCHANGED server,
           \/ WriteConfirmed \/ ConnectAck \/ DisconnectAck \/ SyncCfmGot
           \/ AbortCfm \/ ErrorWarnInd \/ CompleteInd \/ IsValidationDoneCfm
    PROVE  Types' /\ IInv'
PROOF
<1>1. CASE (WriteConfirmed \/ ConnectAck) /\ cl.state = "CONNECT"
  BY <1>1, OpeningHeard
<1>2. CASE WriteConfirmed /\ cl.state # "CONNECT"
  <2>1. Gets("write_cfm") /\ cl' = cl /\ up' = wr.pend /\ wr'.pend = None
        /\ wr' \in [busy : BOOLEAN, pend : Message]
        /\ (~wr'.busy => up' = None)
    BY <1>2, Messages DEF WriteConfirmed
  <2>2. PlainWrites /\ Downhill
    BY <2>1, MessageFields DEF PlainWrites, Downhill, Special, PreStart, PreCommit, Over,
       Handing, Asking
  <2> QED BY <1>2, <2>1, <2>2, PlainHeeded DEF Types
<1>3. CASE ConnectAck /\ cl.state # "CONNECT"
  <2>1. Gets("conn_ack") /\ cl' = cl /\ up' = up /\ wr' = wr
    BY <1>3 DEF ConnectAck, client
  <2>2. Downhill
    BY <2>1, StaysDown DEF Types
  <2> QED BY <1>3, <2>1, <2>2, Replied DEF Types
<1>4. CASE DisconnectAck
  <2>1. Gets("disc_ack") /\ up' = up /\ wr' = wr
    BY <1>4 DEF DisconnectAck
  <2>2. cl' \in Relayer /\ cl'.start = cl.start /\ cl'.state = "IDLE"
    BY <1>4, ResetFields DEF DisconnectAck, Relayer
  <2>3. Downhill
    BY <2>1, <2>2, StaysDown
  <2> QED BY <2>1, <2>2, <2>3, Replied
<1>5. CASE SyncCfmGot
  <2>1. Gets("SYNC_CFM")
    BY <1>5 DEF SyncCfmGot
  <2>2. CASE Reject
    BY <2>1, <2>2, RejectKeeps
  <2>3. CASE /\ cl.state = "SYNC_REQ" /\ Write(<<Yes, Req("START_REQ")>>)
             /\ cl' = [cl EXCEPT !.off = 0,
                                 !.state = IF Head(tx.q).v = 3
                                           THEN "START_REQ_AFTER_REBOOT"
                                           ELSE "START_REQ"]
    <3>1. /\ cl' \in Relayer /\ cl'.start = cl.start
          /\ cl'.state \in {"START_REQ", "START_REQ_AFTER_REBOOT"}
      <4> DEFINE st == IF Head(tx.q).v = 3 THEN "START_REQ_AFTER_REBOOT" ELSE "START_REQ"
      <4>1. st \in {"START_REQ", "START_REQ_AFTER_REBOOT"}
        OBVIOUS
      <4> HIDE DEF st
      <4>2. cl' = [cl EXCEPT !.off = 0, !.state = st]
        BY <2>3 DEF st
      <4> QED BY <4>1, <4>2, ResetFields DEF Types, Relayer, Places
    <3>2. Downhill
      BY <2>1, <2>3, <3>1, StaysDown
    <3> QED BY <2>1, <2>3, <3>1, <3>2, Replied
  <2> QED BY <1>5, <2>2, <2>3 DEF SyncCfmGot
<1>6. CASE AbortCfm
  <2>1. Gets("ABORT_CFM") /\ Write(<<Yes, Req("DISCONNECT_REQ")>>)
    BY <1>6 DEF AbortCfm
  <2>2. cl' \in Relayer /\ cl'.start = cl.start /\ cl'.state = "ABORTING_DISCONNECT"
    BY <1>6 DEF AbortCfm, Types, Relayer, Places
  <2>3. Downhill
    BY <2>1, <2>2, StaysDown
  <2> QED BY <2>1, <2>2, <2>3, Replied
<1>7. CASE ErrorWarnInd
  <2>1. Gets("ERROR_IND") /\ Write(<<Yes>>)
    BY <1>7 DEF ErrorWarnInd
  <2>2. cl' \in Relayer /\ cl'.start = cl.start /\ cl'.state = "IDLE"
    BY <1>7, ResetFields DEF ErrorWarnInd, Relayer
  <2>3. Downhill
    BY <2>1, <2>2, StaysDown
  <2> QED BY <2>1, <2>2, <2>3, Replied
<1>8. CASE CompleteInd
  <2>1. Gets("COMPLETE_IND")
    BY <1>8 DEF CompleteInd
  <2>2. CASE Reject
    BY <2>1, <2>2, RejectKeeps
  <2>3. CASE /\ cl' = [cl EXCEPT !.state = "DISCONNECT"]
             /\ Write(<<Yes, Req("DISCONNECT_REQ")>>)
    <3>1. cl' \in Relayer /\ cl'.start = cl.start /\ cl'.state = "DISCONNECT"
      BY <2>3 DEF Types, Relayer, Places
    <3>2. Downhill
      BY <2>1, <3>1, StaysDown
    <3> QED BY <2>1, <2>3, <3>1, <3>2, Replied
  <2> QED BY <1>8, <2>2, <2>3 DEF CompleteInd
<1>9. CASE IsValidationDoneCfm
  <2>1. Gets("VALID_CFM")
    BY <1>9 DEF IsValidationDoneCfm
  <2>2. CASE Reject
    BY <2>1, <2>2, RejectKeeps
  <2>3. CASE /\ cl.state = "WAIT_VALIDATION_RSP" /\ Write(<<Yes>>)
             /\ cl' = [cl EXCEPT !.state = "WAIT_VALIDATION"]
    <3>1. cl' \in Relayer /\ cl'.start = cl.start /\ cl'.state = "WAIT_VALIDATION"
      BY <2>3 DEF Types, Relayer, Places
    <3>2. Downhill
      BY <2>1, <2>3, <3>1, StaysDown DEF PreStart, Over, Asking
    <3> QED BY <2>1, <2>3, <3>1, <3>2, Replied
  <2> QED BY <1>9, <2>2, <2>3 DEF IsValidationDoneCfm
<1> QED BY <1>1, <1>2, <1>3, <1>4, <1>5, <1>6, <1>7, <1>8, <1>9
(* What becomes of the endpoint when a command of note is written *)
LEMMA SpecialWrite ==
    ASSUME Types, NEW m \in Message, m.t # "ACK", Write(<<Yes, m>>)
    PROVE  /\ wr'.busy /\ wr' \in [busy : BOOLEAN, pend : Message] /\ up' \in Message
           /\ wr'.pend = m /\ (up' = up \/ up' = Yes)
           /\ \A t \in Kinds \ {"ACK"} : Out(t)' <=> t = m.t \/ up'.t = t
           /\ \A t \in Kinds \ {"ACK"} : up'.t = t => up' = up /\ up.t = t
PROOF
<1>1. IF wr.busy THEN up' = up /\ wr' = [wr EXCEPT !.pend = m]
                 ELSE up' = Yes /\ wr' = [busy |-> TRUE, pend |-> m]
  BY WriteTwo
<1>2. /\ wr'.busy /\ wr' \in [busy : BOOLEAN, pend : Message]
      /\ wr'.pend = m /\ (up' = up \/ up' = Yes) /\ up' \in Message
  <2>1. CASE wr.busy
    <3>1. up' = up /\ wr' = [busy |-> TRUE, pend |-> m]
      BY <1>1, <2>1 DEF Types
    <3> QED BY <3>1 DEF Types
  <2>2. CASE ~wr.busy
    <3>1. up' = Yes /\ wr' = [busy |-> TRUE, pend |-> m]
      BY <1>1, <2>2 DEF Types
    <3> QED BY <3>1, Messages
  <2> QED BY <2>1, <2>2
<1> QED BY <1>2, MessageFields DEF Out

LEMMA SendDataKeeps ==
    ASSUME Types, IInv, ~tx.done, UNCHANGED server, NEW t, Gets(t),
           t \notin {"write_cfm", "conn_ack"}, Handing, NEW n \in Int,
           NEW s \in {"TRANSFER", "DATA_REQ"},
           SendData([cl EXCEPT !.left = n], s)
    PROVE  Types' /\ IInv'
PROOF
<1> DEFINE c == [cl EXCEPT !.left = n]
<1>1. /\ link /\ link' = link /\ cl.start # "timer" /\ cl.state # "CONNECT"
      /\ cl.start \in {"timer", "done"} /\ cl.off \in 0 .. Len(File) /\ Len(File) \in Nat
  BY Taking, FileParts DEF IInv, Client, Types, Relayer
<1>2. c \in Relayer /\ c.off = cl.off /\ c.start = cl.start /\ c.left = n
  BY DEF Types, Relayer
<1>3. CASE cl.off = Len(File)
  <2>1. RejectAs([c EXCEPT !.left = @ - 1])
    BY <1>3 DEF SendData
  <2>2. [c EXCEPT !.left = @ - 1] = [cl EXCEPT !.left = n - 1] /\ n - 1 \in Int
    <3>1. [c EXCEPT !.left = @ - 1] = [c EXCEPT !.left = n - 1]
      BY <1>2
    <3>2. [c EXCEPT !.left = n - 1] = [cl EXCEPT !.left = n - 1]
      BY DEF Types, Relayer
    <3> QED BY <3>1, <3>2
  <2> QED BY <2>1, <2>2, RejectKeeps
<1>4. CASE cl.off # Len(File)
  <2> DEFINE o == cl.off + 1
             m == Msg("DATA", o)
             e == o = Len(File)
  <2>1. /\ o \in 1 .. Len(File) /\ o \in 0 .. Len(File) /\ e \in BOOLEAN /\ n - 1 \in Int
        /\ m \in Message /\ m.t = "DATA" /\ m.v = o
    BY <1>1, <1>4, Messages, MessageFields DEF Kinds
  <2>2. /\ cl' = [c EXCEPT !.left = n - 1, !.off = o, !.state = s, !.eof = e]
        /\ Write(<<Yes, m>>)
    BY <1>2, <1>4 DEF SendData
  <2> HIDE DEF m, e, c
  <2>3. /\ cl' \in Relayer /\ cl'.start = cl.start /\ cl'.off = o /\ cl'.state = s
    <3> DEFINE d == [c EXCEPT !.left = n - 1, !.off = o]
    <3>1. d \in Relayer /\ d.start = cl.start /\ d.off = o
      BY <1>2, <2>1 DEF Relayer
    <3>2. cl' = [d EXCEPT !.state = s, !.eof = e] /\ s \in Places
      BY <2>2 DEF Places
    <3> HIDE DEF d
    <3> QED BY <3>1, <3>2, <2>1 DEF Relayer
  <2>4. /\ wr'.busy /\ wr' \in [busy : BOOLEAN, pend : Message] /\ up' \in Message
        /\ wr'.pend = m /\ (up' = up \/ up' = Yes)
        /\ \A k \in Kinds \ {"ACK"} : Out(k)' <=> k = m.t \/ up'.t = k
        /\ \A k \in Kinds \ {"ACK"} : up'.t = k => up' = up /\ up.t = k
    BY <2>1, <2>2, SpecialWrite
  <2>5. \A k \in Special \ {"DATA"} : Out(k)' => Out(k)
    BY <2>1, <2>4 DEF Special, Kinds, Out
  <2>6. /\ ~Over /\ ~PreStart /\ ~PreCommit /\ ~Asking
        /\ Handing' /\ ~Over' /\ ~PreStart' /\ ~PreCommit'
    BY <1>1, <2>3 DEF Over, PreStart, PreCommit, Handing, Asking
  <2>7. up'.t = "DATA" => up' = up /\ up.t = "DATA" /\ up.v \in 1 .. cl.off
    <3>1. up'.t = "DATA" => up' = up /\ up.t = "DATA"
      BY <2>4 DEF Kinds
    <3> QED BY <3>1 DEF IInv, Client
  <2>8. Client'
    <3>1. ~Out("ABORT_REQ") /\ ~Out("TRANSFER_COMPLETE_RES")
      BY <2>6 DEF IInv, Client
    <3>2. ~Out("ABORT_REQ")' /\ ~Out("TRANSFER_COMPLETE_RES")'
      BY <3>1, <2>5 DEF Special
    <3>3. wr'.pend.t = "DATA" /\ wr'.pend.v = o
      BY <2>1, <2>4
    <3>4. \A k \in {up', wr'.pend} : k.t = "DATA" => k.v \in 1 .. Len(File) /\ k.v <= cl'.off
      BY <1>1, <2>1, <2>3, <2>7, <3>3
    <3>5. up'.t = "DATA" => up'.v < wr'.pend.v
      BY <1>1, <2>7, <3>3
    <3> QED BY <1>1, <2>3, <2>4, <2>6, <3>2, <3>3, <3>4, <3>5 DEF Client
  <2>9. Flash'
    BY <2>5, <2>6, <1>1 DEF IInv, Flash, server, New, Other, Ops, Special
  <2>10. Transfer'
    <3> SUFFICES ASSUME ~New PROVE Transfer'
      BY DEF Transfer, New, server
    <3>1. (Fresh \/ Writing \/ Written) /\ (Out("TRANSFER_COMPLETE_RES") => dev.valid)
      BY <1>1, <2>6 DEF IInv, Transfer, GivenUp
    <3>2. Started => Started'
      BY <2>5, <2>6 DEF Started, Special
    <3>3. Beyond => Beyond'
      BY <1>1, <2>1, <2>3, <2>4, <2>7 DEF Beyond
    <3>4. (Fresh => Fresh') /\ (Writing => Writing') /\ (Written => Written')
      BY <3>2, <3>3 DEF Fresh, Writing, Written, server, Ops, Other
    <3>5. Out("TRANSFER_COMPLETE_RES")' => dev'.valid
      BY <3>1, <2>5 DEF Special, server
    <3> QED BY <3>1, <3>4, <3>5 DEF Transfer
  <2> QED BY <1>1, <2>3, <2>4, <2>6, <2>8, <2>9, <2>10, Heeded
<1> QED BY <1>3, <1>4

LEMMA ControlAckKeeps ==
    ASSUME Types, IInv, ~tx.done, UNCHANGED server, ControlAck
    PROVE  Types' /\ IInv'
PROOF
<1>1. Gets("ack")
  BY DEF ControlAck
<1>2. CASE cl.state # "TRANSFER"
  <2>1. cl' = cl /\ wr' = wr /\ up' = up
    BY <1>2 DEF ControlAck, client
  <2>2. Downhill
    BY <1>1, <2>1, StaysDown DEF Types
  <2>3. cl'.state # "CONNECT"
    BY <1>1, <2>1, Taking
  <2> QED BY <1>1, <2>1, <2>2, <2>3, Replied DEF Types
<1>3. CASE cl.state = "TRANSFER" /\ cl.eof
  <2>1. cl' = [cl EXCEPT !.state = "WAIT_VALIDATION_RSP"] /\ Write(<<Req("VALID_DONE_REQ")>>)
    BY <1>3 DEF ControlAck
  <2>2. cl' \in Relayer /\ cl'.start = cl.start /\ cl'.state = "WAIT_VALIDATION_RSP"
    BY <2>1 DEF Types, Relayer, Places
  <2>3. Downhill
    BY <1>1, <1>3, <2>2, StaysDown DEF PreStart, Over, Handing
  <2> QED BY <1>1, <2>1, <2>2, <2>3, Replied
<1>4. CASE cl.state = "TRANSFER" /\ ~cl.eof /\ cl.left > 0
  <2>1. SendData(cl, "DATA_REQ")
    BY <1>4 DEF ControlAck
  <2>2. cl = [cl EXCEPT !.left = cl.left] /\ cl.left \in Int
    BY DEF Types, Relayer
  <2>3. SendData([cl EXCEPT !.left = cl.left], "DATA_REQ") /\ Handing
    BY <1>4, <2>1, <2>2 DEF Handing
  <2> QED BY <1>1, <2>2, <2>3, SendDataKeeps
<1>5. CASE cl.state = "TRANSFER" /\ ~cl.eof /\ ~(cl.left > 0)
  <2>1. cl' = [cl EXCEPT !.state = "DATA_REQ"] /\ wr' = wr /\ up' = up
    BY <1>5 DEF ControlAck
  <2>2. cl' \in Relayer /\ cl'.start = cl.start /\ cl'.state = "DATA_REQ" /\ cl'.off = cl.off
    BY <2>1 DEF Types, Relayer, Places
  <2>3. Downhill
    BY <1>1, <1>5, <2>2, StaysDown DEF Handing
  <2> QED BY <1>1, <2>1, <2>2, <2>3, Replied
<1> QED BY <1>2, <1>3, <1>4, <1>5

LEMMA DataBytesReqKeeps ==
    ASSUME Types, IInv, ~tx.done, UNCHANGED server, DataBytesReq
    PROVE  Types' /\ IInv'
PROOF
<1>1. Gets("DATA_BYTES_REQ")
  BY DEF DataBytesReq
<1>2. cl.left \in Int /\ Head(tx.q).v \in Int
  <2>1. tx.q # <<>> /\ tx.q \in Seq(Message)
    BY <1>1 DEF Gets, Types, Queue
  <2>2. Head(tx.q) \in Message
    BY <2>1
  <2> QED BY <2>2 DEF Message, Types, Relayer
<1>3. CASE Reject
  BY <1>1, <1>2, <1>3, RejectKeeps
<1>4. CASE cl.state = "DATA_REQ" /\ SendData([cl EXCEPT !.left = Head(tx.q).v], "TRANSFER")
  BY <1>1, <1>2, <1>4, SendDataKeeps DEF Handing
<1> QED BY <1>3, <1>4 DEF DataBytesReq

LEMMA StartCfmGotKeeps ==
    ASSUME Types, IInv, ~tx.done, UNCHANGED server, StartCfmGot
    PROVE  Types' /\ IInv'
PROOF
<1>1. Gets("START_CFM") /\ cl.left \in Int
  BY DEF StartCfmGot, Types, Relayer
<1>2. CASE Reject
  BY <1>1, <1>2, RejectKeeps
<1>3. CASE cl' = cl /\ Write(<<Yes>>)
  <2>1. Downhill
    BY <1>1, <1>3, StaysDown DEF Types
  <2>2. cl'.state # "CONNECT"
    BY <1>1, <1>3, Taking
  <2> QED BY <1>1, <1>3, <2>1, <2>2, Replied DEF Types
<1>4. CASE /\ cl.state = "START_REQ_AFTER_REBOOT"
           /\ cl' = [cl EXCEPT !.state = "IN_PROGRESS_REQ"]
           /\ Write(<<Yes, Req("IN_PROGRESS_RES")>>)
  <2>1. cl' \in Relayer /\ cl'.start = cl.start /\ cl'.state = "IN_PROGRESS_REQ"
    BY <1>4 DEF Types, Relayer, Places
  <2>2. Downhill
    BY <1>1, <1>4, <2>1, StaysDown
  <2> QED BY <1>1, <1>4, <2>1, <2>2, Replied
<1>5. CASE /\ cl.state = "START_REQ" /\ cl' = [cl EXCEPT !.state = "DATA_REQ"]
           /\ Write(<<Yes, Req("START_DATA_REQ")>>)
  <2> DEFINE m == Req("START_DATA_REQ")
  <2>1. m \in Message /\ m.t = "START_DATA_REQ"
    BY Messages, MessageFields DEF Kinds
  <2> HIDE DEF m
  <2>2. cl' \in Relayer /\ cl'.start = cl.start /\ cl'.state = "DATA_REQ"
    BY <1>5 DEF Types, Relayer, Places
  <2>3. /\ wr'.busy /\ wr' \in [busy : BOOLEAN, pend : Message] /\ up' \in Message
        /\ wr'.pend = m
        /\ \A k \in Kinds \ {"ACK"} : Out(k)' <=> k = m.t \/ up'.t = k
        /\ \A k \in Kinds \ {"ACK"} : up'.t = k => up' = up /\ up.t = k
    BY <1>5, <2>1, SpecialWrite DEF m
  <2>4. \A k \in Special \ {"START_DATA_REQ"} : Out(k)' => Out(k)
    BY <2>1, <2>3 DEF Special, Kinds, Out
  <2>5. /\ PreStart /\ PreCommit /\ ~Over /\ cl.start # "timer" /\ link /\ link' = link
        /\ cl.start \in {"timer", "done"}
        /\ ~PreStart' /\ ~PreCommit' /\ ~Over'
    BY <1>1, <1>5, <2>2, Taking DEF PreStart, PreCommit, Over, Handing, Asking, IInv, Client
  <2>6. \A k \in {"START_DATA_REQ", "DATA", "TRANSFER_COMPLETE_RES", "ABORT_REQ"} : ~Out(k)
    BY <2>5 DEF IInv, Client
  <2>7. /\ ~Out("COMMIT_CFM") /\ up'.t # "START_DATA_REQ"
        /\ \A k \in {"DATA", "TRANSFER_COMPLETE_RES", "ABORT_REQ", "COMMIT_CFM"} : ~Out(k)'
    BY <2>3, <2>4, <2>5, <2>6 DEF IInv, Client, Special, Kinds, Out
  <2>8. Client'
    BY <2>2, <2>3, <2>5, <2>7 DEF Client, Out
  <2>9. Flash'
    BY <2>5, <2>7 DEF IInv, Flash, server, New, Other, Ops
  <2>10. Transfer'
    <3> SUFFICES ASSUME ~New PROVE Transfer'
      BY DEF Transfer, New, server
    <3>1. ~Started /\ ~GivenUp
      BY <2>5 DEF Started, GivenUp
    <3>2. Fresh
      BY <2>5, <3>1 DEF IInv, Transfer, Writing, Written
    <3>3. Fresh'
      BY <3>1, <3>2 DEF Fresh, server
    <3> QED BY <2>7, <3>3 DEF Transfer
  <2> QED BY <1>1, <1>5, <2>2, <2>3, <2>5, <2>8, <2>9, <2>10, Heeded
<1> QED BY <1>2, <1>3, <1>4, <1>5 DEF StartCfmGot

LEMMA TransferCompleteKeeps ==
    ASSUME Types, IInv, ~tx.done, UNCHANGED server, TransferComplete
    PROVE  Types' /\ IInv'
PROOF
<1>1. Gets("COMPLETE") /\ cl.left \in Int
  BY DEF TransferComplete, Types, Relayer
<1>2. CASE Reject
  BY <1>1, <1>2, RejectKeeps
<1>3. CASE /\ cl.state \in {"TRANSFER", "WAIT_VALIDATION", "WAIT_VALIDATION_RSP"}
           /\ cl' = [cl EXCEPT !.state = "WAIT_POST_TRANSFER_DISCONNECT"]
           /\ Write(<<Yes, Req("TRANSFER_COMPLETE_RES")>>)
  <2> DEFINE m == Req("TRANSFER_COMPLETE_RES")
  <2>1. m \in Message /\ m.t = "TRANSFER_COMPLETE_RES"
    BY Messages, MessageFields DEF Kinds
  <2> HIDE DEF m
  <2>2. /\ cl' \in Relayer /\ cl'.start = cl.start
        /\ cl'.state = "WAIT_POST_TRANSFER_DISCONNECT"
    BY <1>3 DEF Types, Relayer, Places
  <2>3. /\ wr'.busy /\ wr' \in [busy : BOOLEAN, pend : Message] /\ up' \in Message
        /\ wr'.pend = m
        /\ \A k \in Kinds \ {"ACK"} : Out(k)' <=> k = m.t \/ up'.t = k
        /\ \A k \in Kinds \ {"ACK"} : up'.t = k => up' = up /\ up.t = k
    BY <1>3, <2>1, SpecialWrite DEF m
  <2>4. \A k \in Special \ {"TRANSFER_COMPLETE_RES"} : Out(k)' => Out(k)
    BY <2>1, <2>3 DEF Special, Kinds, Out
  <2>5. /\ ~PreStart /\ ~PreCommit /\ ~Over /\ cl.start # "timer" /\ link /\ link' = link
        /\ cl.start \in {"timer", "done"}
        /\ ~PreStart' /\ ~PreCommit' /\ Over' /\ ~Handing'
    BY <1>1, <1>3, <2>2, Taking DEF PreStart, PreCommit, Over, Handing, Asking, IInv, Client
  <2>6. ~Out("ABORT_REQ") /\ ~Out("ABORT_REQ")'
    BY <2>4, <2>5 DEF IInv, Client, Special
  <2>7. Client'
    <3>1. up'.t = "DATA" => up' = up /\ up.t = "DATA"
      BY <2>3 DEF Kinds
    <3>2. up'.t # "START_DATA_REQ" \/ wr'.pend.t # "START_DATA_REQ"
      BY <2>1, <2>3
    <3> QED BY <2>1, <2>2, <2>3, <2>5, <2>6, <3>1, <3>2 DEF IInv, Client
  <2>8. Flash'
    BY <2>4, <2>5 DEF IInv, Flash, server, New, Other, Ops, Special
  <2>9. Transfer'
    <3> SUFFICES ASSUME ~New PROVE Transfer'
      BY DEF Transfer, New, server
    <3>1. dev.valid
      <4>1. tx.q[1].t = "COMPLETE" /\ 1 \in 1 .. Len(tx.q)
        BY <1>1, Taking
      <4> QED BY <1>3, <4>1, <2>5 DEF IInv, Stale
    <3>2. Written
      BY <3>1, <2>5 DEF IInv, Transfer, GivenUp, Fresh, Writing
    <3>3. Started' /\ Beyond'
      <4>1. Started'
        BY <3>2, <2>4, <2>5 DEF Written, Started, Special
      <4>2. Beyond'
        BY <3>2, <2>1, <2>3, <2>5 DEF Written, Beyond, Kinds
      <4> QED BY <4>1, <4>2
    <3>4. Written'
      BY <3>2, <3>3 DEF Written, server, Ops, Other
    <3> QED BY <3>1, <3>4 DEF Transfer, server
  <2> QED BY <1>1, <1>3, <2>2, <2>3, <2>5, <2>7, <2>8, <2>9, Heeded
<1> QED BY <1>2, <1>3 DEF TransferComplete

LEMMA CommitReqKeeps ==
    ASSUME Types, IInv, ~tx.done, UNCHANGED server, CommitReq
    PROVE  Types' /\ IInv'
PROOF
<1>1. Gets("COMMIT_REQ") /\ cl.left \in Int
  BY DEF CommitReq, Types, Relayer
<1>2. CASE Reject
  BY <1>1, <1>2, RejectKeeps
<1>3. CASE /\ cl.state = "IN_PROGRESS_REQ" /\ cl' = [cl EXCEPT !.state = "COMMIT_REQ"]
           /\ Write(<<Yes, Req("COMMIT_CFM")>>)
  <2> DEFINE m == Req("COMMIT_CFM")
  <2>1. m \in Message /\ m.t = "COMMIT_CFM"
    BY Messages, MessageFields DEF Kinds
  <2> HIDE DEF m
  <2>2. cl' \in Relayer /\ cl'.start = cl.start /\ cl'.state = "COMMIT_REQ"
    BY <1>3 DEF Types, Relayer, Places
  <2>3. /\ wr'.busy /\ wr' \in [busy : BOOLEAN, pend : Message] /\ up' \in Message
        /\ wr'.pend = m
        /\ \A k \in Kinds \ {"ACK"} : Out(k)' <=> k = m.t \/ up'.t = k
        /\ \A k \in Kinds \ {"ACK"} : up'.t = k => up' = up /\ up.t = k
    BY <1>3, <2>1, SpecialWrite DEF m
  <2>4. \A k \in Special \ {"COMMIT_CFM"} : Out(k)' => Out(k)
    BY <2>1, <2>3 DEF Special, Kinds, Out
  <2>5. /\ ~PreStart /\ PreCommit /\ Over /\ cl.start # "timer" /\ link /\ link' = link
        /\ cl.start \in {"timer", "done"} /\ ~Handing
        /\ ~PreStart' /\ ~PreCommit' /\ Over' /\ ~Handing'
    BY <1>1, <1>3, <2>2, Taking DEF PreStart, PreCommit, Over, Handing, Asking, IInv, Client
  <2>6. ~Out("COMMIT_CFM") /\ up'.t # "COMMIT_CFM"
    BY <2>3, <2>5 DEF IInv, Client, Kinds, Out
  <2>7. /\ up'.t = "DATA" => up' = up /\ up.t = "DATA"
        /\ wr'.pend.t = "COMMIT_CFM"
    BY <2>1, <2>3 DEF Kinds
  <2>8. Client'
    BY <2>2, <2>3, <2>4, <2>5, <2>6, <2>7 DEF IInv, Client, Special
  <2>9. Flash'
    BY <2>5 DEF IInv, Flash, server, New, Other, Ops
  <2>10. Transfer'
    <3> SUFFICES ASSUME ~New PROVE Transfer'
      BY DEF Transfer, New, server
    <3>1. (GivenUp \/ Fresh \/ Writing \/ Written)
          /\ (Out("TRANSFER_COMPLETE_RES") => dev.valid)
      BY <2>5 DEF IInv, Transfer
    <3>2. Started => Started'
      BY <2>4, <2>5 DEF Started, Special
    <3>3. Beyond => Beyond'
      BY <2>5, <2>7 DEF Beyond
    <3>4. GivenUp => GivenUp'
      BY <2>4, <2>5 DEF GivenUp, Special
    <3>5. (Fresh => Fresh') /\ (Writing => Writing') /\ (Written => Written')
      BY <3>2, <3>3 DEF Fresh, Writing, Written, server, Ops, Other
    <3>6. Out("TRANSFER_COMPLETE_RES")' => dev'.valid
      BY <3>1, <2>4 DEF Special, server
    <3> QED BY <3>1, <3>4, <3>5, <3>6 DEF Transfer
  <2> QED BY <1>1, <1>3, <2>2, <2>3, <2>5, <2>8, <2>9, <2>10, Heeded
<1> QED BY <1>2, <1>3 DEF CommitReq

LEMMA RelayKeeps ==
    ASSUME Types, IInv, Relay
    PROVE  Types' /\ IInv'
BY QuietReplies, ControlAckKeeps, DataBytesReqKeeps, StartCfmGotKeeps,
   TransferCompleteKeeps, CommitReqKeeps DEF Relay, ClientStep
-----------------------------------------------------------------------------
(* Timers, the user, and what was held back *)

LEMMA QuietStart ==
    ASSUME IInv, link, PreStart
    PROVE  fw = <<>>
BY DEF IInv, Flash, Transfer, GivenUp, Fresh, Writing, Written, Started, Over, PreCommit

LEMMA BeginKeeps ==
    ASSUME Types, IInv, Begin
    PROVE  Types' /\ IInv'
PROOF
<1> DEFINE m == Req("CONNECT")
<1>1. /\ link /\ link' = link /\ tx' = tx /\ UNCHANGED server /\ Write(<<m>>)
      /\ cl' = [cl EXCEPT !.start = "done", !.state = "CONNECT", !.mesh = FALSE]
      /\ cl.start = "timer"
  BY DEF Begin, StartUpgrade
<1>2. /\ cl.state = "IDLE" /\ up = None /\ ~wr.busy /\ wr.pend = None
      /\ tx.q = <<>> /\ ~tx.done /\ tx.used = 0 /\ dev.state # "WAIT_FOR_DEVICE"
  BY <1>1 DEF IInv, Opening, Client
<1>3. m \in Message /\ m = Msg("CONNECT", 0) /\ m.t = "CONNECT" /\ None \in Message
  BY Messages, MessageFields DEF Kinds, Req
<1>4. /\ PlainWrites /\ wr'.busy
      /\ up' \in Message /\ wr' \in [busy : BOOLEAN, pend : Message]
  BY <1>1, <1>3, PlainWrite DEF Special
<1>5. up' = m /\ wr'.pend = None
  <2>1. up' = m /\ wr' = [busy |-> TRUE, pend |-> None]
    BY <1>1, <1>2, WriteOne
  <2> QED BY <2>1
<1>6. cl' \in Relayer /\ cl'.start = "done" /\ cl'.state = "CONNECT"
  BY <1>1 DEF Types, Relayer, Places
<1>7. Downhill
  BY <1>1, <1>2, <1>6 DEF Downhill, PreStart, PreCommit, Over, Handing, Asking
<1>8. Client' /\ Flash' /\ Transfer'
  BY <1>1, <1>4, <1>6, <1>7, PlainRest
<1>9. Types'
  BY <1>1, <1>4, <1>6 DEF Types, server
<1>10. Apart' /\ Opening' /\ Stale'
  BY <1>1, <1>2, <1>3, <1>4, <1>5, <1>6 DEF Apart, Opening, Stale, server
<1> QED BY <1>8, <1>9, <1>10 DEF IInv

LEMMA ParamsKeeps ==
    ASSUME Types, IInv, Params
    PROVE  Types' /\ IInv'
PROOF
<1>1. /\ link /\ link' = link /\ up' = up /\ UNCHANGED <<flash, fw, client>>
  BY DEF Params, ParamsUpdated
<1>2. PlainWrites /\ Downhill
  BY <1>1 DEF client, PlainWrites, Downhill, PreStart, PreCommit, Over, Handing, Asking
<1>3. \/ /\ dev' = [dev EXCEPT !.cb = FALSE, !.state = "WAIT_FOR_HOST"]
         /\ tx' = Notify(tx, SyncCfm) /\ dev.state = "WAIT_FOR_DEVICE"
      \/ dev' = [dev EXCEPT !.cb = FALSE] /\ tx' = tx
  BY DEF Params, ParamsUpdated
<1>4. dev' \in Ram /\ Kept /\ dev'.busy = dev.busy /\ dev'.closing = dev.closing
      /\ (dev'.state = "WAIT_FOR_DEVICE" => dev.state = "WAIT_FOR_DEVICE")
  <2>1. CASE dev' = [dev EXCEPT !.cb = FALSE, !.state = "WAIT_FOR_HOST"]
    BY <2>1 DEF Types, Ram, Kept, Modes
  <2>2. CASE dev' = [dev EXCEPT !.cb = FALSE]
    BY <2>2 DEF Types, Ram, Kept
  <2> QED BY <1>3, <2>1, <2>2
<1>5. Flash' /\ Transfer'
  BY <1>1, <1>2, <1>4, KeptFlash, KeptTransfer DEF IInv, flash
<1>6. Client'
  BY <1>1, <1>2, PlainClient DEF IInv, Client, client
<1>7. CASE tx' = tx
  <2>1. Types'
    BY <1>1, <1>4, <1>7 DEF Types, client, flash
  <2>2. Apart' /\ Opening' /\ Stale'
    BY <1>1, <1>4, <1>7 DEF IInv, Apart, Opening, Stale, client, flash, Kept, New,
       Over, PreStart, Handing, Asking
  <2> QED BY <1>5, <1>6, <2>1, <2>2 DEF IInv
<1>8. CASE tx' = Notify(tx, SyncCfm) /\ dev.state = "WAIT_FOR_DEVICE"
  <2>1. Grows(tx, tx', {"SYNC_CFM"}) /\ tx.q \in Seq(Message)
    BY <1>8, NotifyGrows, Messages, MessageFields DEF Types, Queue
  <2>2. Types'
    BY <1>1, <1>4, <2>1 DEF Types, client, flash, Grows
  <2>3. Apart' /\ Opening'
    BY <1>1, <1>8 DEF IInv, Apart, Opening, client
  <2>4. Stale'
    <3> SUFFICES ASSUME ~New, ~dev.valid
                 PROVE  /\ tx'.held.t = "COMPLETE" =>
                            Over \/ cl.state \in {"IDLE", "CONNECT"}
                        /\ \A i \in 1 .. Len(tx'.q) : tx'.q[i].t = "COMPLETE" =>
                                Over \/ (cl.state = "SYNC_REQ" /\ i = 1)
      BY <1>1, <1>4 DEF Stale, New, Kept, flash, client, Over, PreStart, Handing, Asking
    <3>1. tx'.held.t = "COMPLETE" => Over \/ cl.state \in {"IDLE", "CONNECT"}
      BY <1>1, <1>8, <2>1 DEF IInv, Stale, Grows
    <3>2. ASSUME NEW i \in 1 .. Len(tx'.q), tx'.q[i].t = "COMPLETE"
          PROVE  Over \/ (cl.state = "SYNC_REQ" /\ i = 1)
      <4>1. i \in 1 .. Len(tx.q) /\ tx.q[i].t = "COMPLETE"
        BY <3>2, <2>1 DEF Grows
      <4> QED BY <1>1, <4>1 DEF IInv, Stale
    <3> QED BY <3>1, <3>2
  <2> QED BY <1>5, <1>6, <2>2, <2>3, <2>4 DEF IInv
<1> QED BY <1>3, <1>7, <1>8

(* A completion held back since before comes first, or nothing asks for it. *)
LEMMA SendHeldKeeps ==
    ASSUME Types, IInv, SendHeld
    PROVE  Types' /\ IInv'
PROOF
<1> DEFINE x == [tx EXCEPT !.held = None, !.done = FALSE]
<1>1. /\ link /\ link' = link /\ up' = up /\ UNCHANGED <<server, client>>
      /\ tx.done /\ tx' = Notify(x, tx.held)
  BY DEF SendHeld, Resend
<1>2. /\ x \in Queue /\ x.q = tx.q /\ x.used = tx.used /\ x.held = None /\ ~x.done
      /\ tx.held \in Message /\ tx.q \in Seq(Message) /\ None.t = "none"
  BY Messages, MessageFields DEF Types, Queue
<1> HIDE DEF x
<1>3. Grows(x, tx', {tx.held.t})
  BY <1>1, <1>2, NotifyGrows
<1>4. PlainWrites /\ Downhill
  BY <1>1 DEF client, PlainWrites, Downhill, PreStart, PreCommit, Over, Handing, Asking
<1>5. Client' /\ Flash' /\ Transfer'
  BY <1>1, <1>4, PlainRest DEF IInv, Client, client
<1>6. Types'
  BY <1>1, <1>3 DEF Types, server, client, Grows
<1>7. Apart' /\ Opening'
  BY <1>1 DEF IInv, Apart, Opening, client
<1>8. Stale'
  <2> SUFFICES ASSUME ~New, ~dev.valid
               PROVE  /\ tx'.held.t = "COMPLETE" => Over
                      /\ \A i \in 1 .. Len(tx'.q) : tx'.q[i].t = "COMPLETE" =>
                              Over \/ (cl.state = "SYNC_REQ" /\ i = 1)
    BY <1>1 DEF Stale, New, server, client, Over, PreStart, Handing, Asking
  <2>1. tx.held.t = "COMPLETE" =>
            Over \/ (cl.state = "SYNC_REQ" /\ tx.q = <<>> /\ tx.used = 0)
    <3>1. cl.state = "IDLE" => Over
      BY <1>1 DEF IInv, Opening, Client, Over, PreStart, Handing, Asking
    <3>2. cl.state # "CONNECT"
      BY <1>1 DEF IInv, Opening
    <3> QED BY <1>1, <3>1, <3>2 DEF IInv, Stale
  <2>2. \A i \in 1 .. Len(tx.q) : tx.q[i].t = "COMPLETE" =>
            Over \/ (cl.state = "SYNC_REQ" /\ i = 1)
    BY <1>1 DEF IInv, Stale
  <2>3. tx'.held.t = "COMPLETE" => Over
    <3>1. CASE tx.used < TxBuffers
      <4>1. tx'.held = None
        BY <1>1, <1>2, <3>1 DEF Notify, Queue
      <4> QED BY <4>1, <1>2
    <3>2. CASE ~(tx.used < TxBuffers)
      <4>1. tx.used # 0
        BY <3>2, OtaLinkAssumption
      <4>2. tx'.held = tx.held
        BY <1>1, <1>2, <3>2 DEF Notify, Queue
      <4> QED BY <4>1, <4>2, <2>1
    <3> QED BY <3>1, <3>2
  <2>4. ASSUME NEW i \in 1 .. Len(tx'.q), tx'.q[i].t = "COMPLETE"
        PROVE  Over \/ (cl.state = "SYNC_REQ" /\ i = 1)
    <3>1. CASE i <= Len(tx.q)
      <4>1. i \in 1 .. Len(tx.q) /\ tx'.q[i] = tx.q[i]
        BY <2>4, <3>1, <1>2, <1>3 DEF Grows
      <4> QED BY <2>2, <2>4, <4>1
    <3>2. CASE ~(i <= Len(tx.q))
      <4>1. tx.held.t = "COMPLETE"
        BY <2>4, <3>2, <1>2, <1>3 DEF Grows
      <4>2. CASE Over
        BY <4>2
      <4>3. CASE cl.state = "SYNC_REQ" /\ tx.q = <<>> /\ tx.used = 0
        <5>1. x.used < TxBuffers /\ x.q = <<>>
          BY <4>3, <1>2, OtaLinkAssumption
        <5>2. tx'.q = Append(x.q, tx.held)
          BY <5>1, <1>1, <1>2 DEF Notify, Queue
        <5>3. Len(tx'.q) = 1
          BY <5>1, <5>2, <1>2
        <5> QED BY <4>3, <5>3
      <4> QED BY <4>1, <4>2, <4>3, <2>1
    <3> QED BY <3>1, <3>2
  <2> QED BY <2>3, <2>4
<1> QED BY <1>5, <1>6, <1>7, <1>8 DEF IInv

LEMMA UserKeeps ==
    ASSUME Types, IInv, UserAborts \/ UserDeclines
    PROVE  Types' /\ IInv'
PROOF
<1>1. CASE UserAborts
  <2> DEFINE m == Req("ABORT_REQ")
  <2>1. /\ link /\ link' = link /\ tx' = tx /\ UNCHANGED server /\ Write(<<m>>)
        /\ ~wr.busy /\ cl.state # "IDLE"
        /\ cl' = [cl EXCEPT !.state = "ABORTING_DISCONNECT"]
    BY <1>1 DEF UserAborts
  <2>2. m \in Message /\ m.t = "ABORT_REQ" /\ None \in Message /\ None.t = "none"
    BY Messages, MessageFields DEF Kinds
  <2> HIDE DEF m
  <2>3. up' = m /\ wr' = [busy |-> TRUE, pend |-> None]
    BY <2>1, WriteOne
  <2>4. cl' \in Relayer /\ cl'.start = cl.start /\ cl'.state = "ABORTING_DISCONNECT"
        /\ cl.start # "timer" /\ cl.start \in {"timer", "done"}
    BY <2>1 DEF Types, Relayer, Places, IInv, Client
  <2>5. /\ Over' /\ ~PreStart' /\ ~PreCommit' /\ ~Handing'
        /\ \A t \in {"START_DATA_REQ", "DATA", "TRANSFER_COMPLETE_RES", "COMMIT_CFM"} :
                ~Out(t)'
    BY <2>2, <2>3, <2>4 DEF Over, PreStart, PreCommit, Handing, Asking, Out
  <2>6. Types'
    BY <2>1, <2>2, <2>3, <2>4 DEF Types, server
  <2>7. Apart' /\ Opening' /\ Stale'
    BY <2>1, <2>4, <2>5 DEF Apart, Opening, Stale
  <2>8. Client'
    BY <2>1, <2>2, <2>3, <2>4, <2>5 DEF Client
  <2>9. Flash'
    BY <2>1, <2>5 DEF IInv, Flash, server, New, Other, Ops
  <2>10. Transfer'
    BY <2>5 DEF Transfer, GivenUp
  <2> QED BY <2>6, <2>7, <2>8, <2>9, <2>10 DEF IInv
<1>2. CASE UserDeclines
  <2>1. /\ up = Req("COMMIT_CFM") /\ up' = Msg("COMMIT_CFM", 1)
        /\ UNCHANGED <<link, tx, server, client>>
    BY <1>2 DEF UserDeclines
  <2>2. up'.t = "COMMIT_CFM" /\ up.t = "COMMIT_CFM" /\ up' \in Message /\ up # None
        /\ up # Msg("CONNECT", 0)
    BY <2>1, Messages, MessageFields DEF Kinds
  <2>3. wr' = wr /\ cl' = cl /\ link' = link /\ link
    BY <2>1, <2>2 DEF client, IInv, Apart
  <2>4. \A t : Out(t)' <=> Out(t)
    BY <2>2, <2>3 DEF Out
  <2>5. /\ Over' = Over /\ PreStart' = PreStart /\ PreCommit' = PreCommit
        /\ Handing' = Handing
    BY <2>3 DEF Over, PreStart, PreCommit, Handing, Asking
  <2>6. Types'
    BY <2>1, <2>2 DEF Types, server, client
  <2>7. Apart' /\ Opening' /\ Stale'
    BY <2>1, <2>2, <2>3, <2>5 DEF IInv, Apart, Opening, Stale, server, New
  <2>8. Client'
    BY <2>2, <2>3, <2>4, <2>5 DEF IInv, Client
  <2>9. Flash'
    BY <2>1, <2>3, <2>4, <2>5 DEF IInv, Flash, server, New, Other, Ops
  <2>10. Transfer'
    <3>1. Beyond => Beyond'
      BY <2>2, <2>3, <2>5 DEF Beyond
    <3>2. (Started' <=> Started)
      BY <2>4, <2>5 DEF Started
    <3>3. GivenUp => GivenUp'
      BY <2>4, <2>5 DEF GivenUp
    <3> QED BY <2>1, <2>3, <2>4, <3>1, <3>2, <3>3 DEF IInv, Transfer, Fresh, Writing,
          Written, server, New, Other, Ops
  <2> QED BY <2>6, <2>7, <2>8, <2>9, <2>10 DEF IInv
<1> QED BY <1>1, <1>2
-----------------------------------------------------------------------------
(* The firmware *)

LEMMA HeadOp ==
    ASSUME Types, fw # <<>>
    PROVE  /\ Head(fw) \in Request /\ Head(fw) = fw[1] /\ 1 \in 1 .. Len(fw)
           /\ Tail(fw) \in Seq(Request) /\ Len(fw) \in Nat
           /\ Len(Tail(fw)) = Len(fw) - 1
           /\ \A i \in 1 .. Len(Tail(fw)) :
                Tail(fw)[i] = fw[i + 1] /\ i + 1 \in 1 .. Len(fw)
           /\ \A K : Head(fw).t \in K => Ops(K)
PROOF
<1>1. fw \in Seq(Request)
  BY DEF Types
<1>2. /\ Head(fw) \in Request /\ Head(fw) = fw[1] /\ 1 \in 1 .. Len(fw)
      /\ Tail(fw) \in Seq(Request) /\ Len(fw) \in Nat
      /\ Len(Tail(fw)) = Len(fw) - 1
      /\ \A i \in 1 .. Len(Tail(fw)) :
            Tail(fw)[i] = fw[i + 1] /\ i + 1 \in 1 .. Len(fw)
  BY <1>1
<1> QED BY <1>2 DEF Ops

LEMMA TailOps ==
    ASSUME Types, fw # <<>>, fw' = Tail(fw)
    PROVE  /\ fw' \in Seq(Request)
           /\ \A K : Ops(K)' => Ops(K)
           /\ \A i \in 1 .. Len(fw') : \E j \in 1 .. Len(fw) : fw'[i] = fw[j]
           /\ (\A i, j \in 1 .. Len(fw) : i < j /\ fw[i].t = "hash" => fw[j].t = "hash")
                => \A i, j \in 1 .. Len(fw') :
                        i < j /\ fw'[i].t = "hash" => fw'[j].t = "hash"
PROOF
<1>1. /\ fw' \in Seq(Request) /\ Len(fw') = Len(fw) - 1 /\ Len(fw) \in Nat
      /\ \A i \in 1 .. Len(fw') : fw'[i] = fw[i + 1] /\ i + 1 \in 1 .. Len(fw)
  BY HeadOp
<1>2. \A K : Ops(K)' => Ops(K)
  BY <1>1 DEF Ops
<1>3. \A i \in 1 .. Len(fw') : \E j \in 1 .. Len(fw) : fw'[i] = fw[j]
  BY <1>1
<1>4. ASSUME \A i, j \in 1 .. Len(fw) : i < j /\ fw[i].t = "hash" => fw[j].t = "hash",
             NEW i \in 1 .. Len(fw'), NEW j \in 1 .. Len(fw'), i < j, fw'[i].t = "hash"
      PROVE  fw'[j].t = "hash"
  <2>1. /\ i + 1 \in 1 .. Len(fw) /\ j + 1 \in 1 .. Len(fw) /\ i + 1 < j + 1
        /\ fw'[i] = fw[i + 1] /\ fw'[j] = fw[j + 1]
    BY <1>1, <1>4
  <2> QED BY <2>1, <1>4
<1> QED BY <1>1, <1>2, <1>3, <1>4

LEMMA NotKey ==
    ASSUME Types, ~Ops({"key"})'
    PROVE  fw' # <<Op("key", 0)>>
PROOF
<1> SUFFICES ASSUME fw' = <<Op("key", 0)>> PROVE FALSE
  OBVIOUS
<1>1. Len(fw') = 1 /\ fw'[1].t = "key"
  BY Requests
<1> QED BY <1>1 DEF Ops

(* What has been requested before the key was read is the key. *)
LEMMA KeyAlone ==
    ASSUME Types, IInv, fw # <<>>
    PROVE  /\ Head(fw).t = "key" => fw = <<Op("key", 0)>> /\ dev.cs = 0 /\ ~link
           /\ Head(fw).t # "key" => dev.cs # 0 /\ ~Ops({"key"})
           /\ ~New /\ Head(fw).t # "key" =>
                /\ Head(fw).t \in {"set", "chunk", "hash"} /\ Head(fw).s = Other
                /\ dev.cs = dev.app
PROOF
<1>1. Head(fw) = fw[1] /\ 1 \in 1 .. Len(fw) /\ (\A K : Head(fw).t \in K => Ops(K))
  BY HeadOp
<1>2. Head(fw).t = "key" => fw = <<Op("key", 0)>> /\ dev.cs = 0 /\ ~link
  BY <1>1 DEF IInv, Flash
<1>3. Head(fw).t # "key" => dev.cs # 0 /\ ~Ops({"key"})
  <2>1. fw = <<Op("key", 0)>> => Head(fw).t = "key"
    BY Requests
  <2> QED BY <2>1 DEF IInv, Flash
<1> QED BY <1>1, <1>2, <1>3 DEF IInv, Flash

(* A confirmation that adds a notification, or fails *)
LEMMA FirmwareStale ==
    ASSUME Types, IInv, link, link' = link, ~PreStart, UNCHANGED client,
           NEW M, Grows(tx, tx', M), "COMPLETE" \notin M,
           dev'.valid = dev.valid, New' = New
    PROVE  Opening' /\ Stale'
PROOF
<1>1. /\ PreStart' = PreStart /\ Over' = Over /\ cl' = cl
  BY DEF client, PreStart, Over, Handing, Asking
<1>2. cl.state # "CONNECT" /\ ~(cl.state = "IDLE" /\ cl.start = "timer")
  BY DEF PreStart
<1>3. Opening'
  BY <1>1, <1>2 DEF Opening
<1>4. Stale'
  <2> SUFFICES ASSUME ~New, ~dev.valid
               PROVE  /\ tx'.held.t = "COMPLETE" => Over
                      /\ \A i \in 1 .. Len(tx'.q) : tx'.q[i].t = "COMPLETE" => Over
    BY <1>1 DEF Stale
  <2>1. tx.held.t = "COMPLETE" => Over
    BY <1>2 DEF IInv, Stale, PreStart, Over, Handing, Asking
  <2>2. \A i \in 1 .. Len(tx.q) : tx.q[i].t = "COMPLETE" => Over
    BY DEF IInv, Stale, PreStart
  <2>3. tx'.held.t = "COMPLETE" => Over
    BY <2>1 DEF Grows
  <2>4. ASSUME NEW i \in 1 .. Len(tx'.q), tx'.q[i].t = "COMPLETE"
        PROVE  Over
    <3>1. i \in 1 .. Len(tx.q) /\ tx.q[i].t = "COMPLETE"
      BY <2>4 DEF Grows, Types, Queue
    <3> QED BY <2>2, <3>1
  <2> QED BY <2>3, <2>4
<1> QED BY <1>3, <1>4

LEMMA SameClient ==
    ASSUME IInv, UNCHANGED client, up' = up, link' = link
    PROVE  /\ Client' /\ \A t : Out(t)' = Out(t)
           /\ PreStart' = PreStart /\ PreCommit' = PreCommit
           /\ Over' = Over /\ Handing' = Handing
           /\ Started' = Started /\ Beyond' = Beyond /\ GivenUp' = GivenUp
PROOF
<1>1. wr' = wr /\ cl' = cl
  BY DEF client
<1>2. /\ \A t : Out(t)' = Out(t)
      /\ PreStart' = PreStart /\ PreCommit' = PreCommit
      /\ Over' = Over /\ Handing' = Handing
  BY <1>1 DEF Out, PreStart, PreCommit, Over, Handing, Asking
<1>3. Client'
  BY <1>1, <1>2 DEF IInv, Client
<1> QED BY <1>1, <1>2, <1>3 DEF Started, Beyond, GivenUp

(* Nothing of the client or of the link matters to a request confirmed. *)
LEMMA ConfirmRest ==
    ASSUME Types, IInv, UNCHANGED <<client, up, link>>, tx' = tx,
           dev'.valid = dev.valid, dev'.app = dev.app,
           dev'.busy = dev.busy, dev'.closing = dev.closing,
           dev'.state = "WAIT_FOR_DEVICE" => dev.state = "WAIT_FOR_DEVICE",
           New' = New
    PROVE  Apart' /\ Opening' /\ Stale'
BY DEF IInv, Apart, Opening, Stale, client, Over, PreStart, Handing, Asking

LEMMA KeyReadKeeps ==
    ASSUME Types, IInv, UNCHANGED <<client, up, link, resume, once>>,
           fw # <<>>, Head(fw).t = "key", fw' = Tail(fw), KeyRead
    PROVE  Types' /\ IInv'
PROOF
<1>1. fw = <<Op("key", 0)>> /\ dev.cs = 0 /\ ~link /\ ~link'
  BY KeyAlone
<1>2. fw' = <<>> /\ fw' \in Seq(Request) /\ \A K : ~Ops(K)'
  BY <1>1 DEF Ops
<1> DEFINE c == dev.trial \/ dev.app # committed
<1>3. /\ dev' = [dev EXCEPT !.cs = committed, !.state = "WAIT_FOR_HOST", !.trial = c]
      /\ c \in BOOLEAN /\ committed \in Stores /\ "WAIT_FOR_HOST" \in Modes
      /\ UNCHANGED <<store, committed, tx>>
  BY DEF KeyRead, Types, Ram, Modes
<1> HIDE DEF c
<1>4. dev' \in Ram
  BY <1>3 DEF Types, Ram
<1>5. /\ dev'.app = dev.app /\ dev'.cs = committed /\ dev'.valid = dev.valid
      /\ dev'.busy = dev.busy /\ dev'.closing = dev.closing
      /\ dev'.stage = dev.stage /\ dev'.got = dev.got /\ dev'.field = dev.field
      /\ dev'.upgraded = dev.upgraded /\ dev'.state = "WAIT_FOR_HOST"
  BY <1>3 DEF Types, Ram
<1>6. Types'
  BY <1>2, <1>3, <1>4 DEF Types, client
<1>7. New' = New /\ once = 0 /\ once' = 0
  BY <1>1, <1>3, <1>5 DEF New, IInv, Flash
<1>8. Apart' /\ Opening' /\ Stale'
  BY <1>3, <1>5, <1>7, ConfirmRest
<1>9. Client'
  BY SameClient
<1>10. Flash'
  <2>1. dev'.cs # 0 /\ fw' # <<Op("key", 0)>>
    BY <1>2, <1>3, <1>5 DEF Stores
  <2> QED BY <2>1, <1>1, <1>2, <1>3, <1>5, <1>7 DEF IInv, Flash
<1>11. Transfer'
  BY <1>1 DEF Transfer
<1> QED BY <1>6, <1>8, <1>9, <1>10, <1>11 DEF IInv

(* A store is erased, and it is not the one the hub runs or boots from. *)
LEMMA StoreIdSetKeeps ==
    ASSUME Types, IInv, UNCHANGED <<client, up, link, resume, once>>,
           fw # <<>>, Head(fw).t = "set", fw' = Tail(fw), StoreIdSet(Head(fw).s)
    PROVE  Types' /\ IInv'
PROOF
<1>1. /\ Head(fw) = fw[1] /\ 1 \in 1 .. Len(fw) /\ Ops({"set"}) /\ Ops({"set", "chunk"})
      /\ Len(Tail(fw)) = Len(fw) - 1
  BY HeadOp
<1>2. ~PreStart \/ ~link
  BY <1>1, KeyAlone, QuietStart DEF IInv, Flash
<1>3. dev.cs # 0 /\ ~Ops({"key"}) /\ once = 0 /\ once' = 0
  BY <1>1, KeyAlone DEF IInv, Flash
<1>4. New => fw = <<Op("set", Other)>> /\ dev.app = committed
  BY <1>1, Requests DEF IInv, Flash
<1>5. Head(fw).s = Other
  <2>1. CASE New
    BY <2>1, <1>1, <1>4, Requests
  <2>2. CASE ~New
    BY <2>2, KeyAlone
  <2> QED BY <2>1, <2>2
<1>6. /\ store' = [store EXCEPT ![Other] = 0] /\ committed' = committed
      /\ store' \in [Stores -> Int] /\ store'[dev.app] = store[dev.app]
      /\ Other \in Stores /\ Other # dev.app
  <2>1. Other \in Stores /\ Other # dev.app /\ dev.app \in Stores
    BY Requests
  <2>2. store' = [store EXCEPT ![Other] = 0] /\ committed' = committed
    BY <1>5 DEF StoreIdSet
  <2>3. store \in [Stores -> Int]
    BY DEF Types
  <2> QED BY <2>1, <2>2, <2>3
<1>7. /\ fw' \in Seq(Request) /\ \A K : Ops(K)' => Ops(K)
      /\ \A i \in 1 .. Len(fw') : \E j \in 1 .. Len(fw) : fw'[i] = fw[j]
      /\ (\A i, j \in 1 .. Len(fw) : i < j /\ fw[i].t = "hash" => fw[j].t = "hash")
            => \A i, j \in 1 .. Len(fw') :
                    i < j /\ fw'[i].t = "hash" => fw'[j].t = "hash"
  BY TailOps
<1>8. fw' # <<Op("key", 0)>> /\ ~Ops({"key"})'
  BY <1>3, <1>7, NotKey
<1>9. Client' /\ (\A t : Out(t)' = Out(t)) /\ PreCommit' = PreCommit
      /\ Started' = Started /\ Beyond' = Beyond /\ GivenUp' = GivenUp
  BY SameClient
<1>10. CASE isNewApp
  <2>1. New
    BY <1>3, <1>10 DEF isNewApp, IInv, Flash
  <2>2. dev' = [dev EXCEPT !.cs = dev.app] /\ tx' = tx /\ fw' = <<>>
    BY <1>4, <1>10, <2>1 DEF StoreIdSet
  <2>3. dev' \in Ram /\ dev'.cs = dev.app /\ dev'.app = dev.app
        /\ dev'.valid = dev.valid /\ dev'.busy = dev.busy /\ dev'.closing = dev.closing
        /\ dev'.state = dev.state
        /\ dev'.stage = dev.stage /\ dev'.got = dev.got /\ dev'.field = dev.field
        /\ dev'.upgraded = dev.upgraded
    BY <2>2 DEF Types, Ram
  <2>4. New' /\ dev.app # 0
    BY <2>1, <2>3, <1>6, Requests DEF New, Stores
  <2>5. Types'
    BY <1>6, <1>7, <2>2, <2>3 DEF Types, client
  <2>6. Apart' /\ Opening' /\ Stale'
    BY <2>1, <2>2, <2>3, <2>4, ConfirmRest
  <2>7. Flash'
    BY <1>3, <1>4, <1>6, <1>8, <1>9, <2>1, <2>2, <2>3, <2>4 DEF IInv, Flash
  <2>8. Transfer'
    BY <2>4 DEF Transfer
  <2> QED BY <1>9, <2>5, <2>6, <2>7, <2>8 DEF IInv
<1>11. CASE ~isNewApp
  <2>1. link /\ dev' = dev /\ tx' = Notify(tx, BytesReq(1)) /\ link'
    BY <1>11 DEF StoreIdSet
  <2>2. BytesReq(1) \in Message /\ BytesReq(1).t = "DATA_BYTES_REQ"
    BY Messages, MessageFields
  <2>3. Grows(tx, tx', {"DATA_BYTES_REQ"}) /\ tx' \in Queue
    BY <2>1, <2>2, NotifyGrows DEF Types, Grows
  <2>4. Types'
    BY <1>6, <1>7, <2>1, <2>3 DEF Types, client
  <2>5. New' = New /\ Other' = Other
    BY <1>6, <2>1 DEF New, Other
  <2>6. Opening' /\ Stale'
    BY <1>2, <2>1, <2>3, <2>5, FirmwareStale
  <2>7. Apart'
    BY <2>1 DEF Apart
  <2>8. Flash'
    <3>1. CASE New
      <4>1. fw' = <<>>
        BY <1>4, <3>1
      <4> QED BY <1>3, <1>4, <1>6, <1>8, <1>9, <2>1, <2>5, <3>1, <4>1 DEF IInv, Flash
    <3>2. CASE ~New
      BY <1>3, <1>6, <1>7, <1>8, <1>9, <2>1, <2>5, <3>2 DEF IInv, Flash
    <3> QED BY <3>1, <3>2
  <2>9. Transfer'
    <3> SUFFICES ASSUME ~New PROVE Transfer'
      BY <2>5 DEF Transfer
    <3>1. ~Fresh
      BY DEF Fresh
    <3>2. Writing => Writing'
      BY <1>7, <1>9, <2>1, <2>5 DEF Writing
    <3>3. Written => Written'
      BY <1>1, <1>7, <1>9, <2>1, <2>5 DEF Written
    <3> QED BY <1>9, <2>1, <3>1, <3>2, <3>3 DEF IInv, Transfer
  <2> QED BY <1>9, <2>4, <2>6, <2>7, <2>8, <2>9 DEF IInv
<1> QED BY <1>10, <1>11

LEMMA Tailed ==
    ASSUME Types, IInv, UNCHANGED <<client, up, link>>, fw # <<>>, ~New,
           Head(fw).t # "key", fw' = Tail(fw), once' = once,
           store'[dev.app] = store[dev.app], committed' = committed,
           once # 0 => store' = store,
           dev'.app = dev.app, dev'.cs = dev.cs, dev'.part = dev.part,
           dev'.reset = dev.reset, dev'.closing = dev.closing
    PROVE  Flash'
PROOF
<1>1. /\ \A K : Ops(K)' => Ops(K)
      /\ \A i \in 1 .. Len(fw') : \E j \in 1 .. Len(fw) : fw'[i] = fw[j]
  BY TailOps
<1>2. dev.cs # 0 /\ ~Ops({"key"}) /\ ~Ops({"key"})'
  BY <1>1, KeyAlone
<1>3. fw' # <<Op("key", 0)>>
  BY <1>2, NotKey
<1>4. New' = New /\ Other' = Other
  BY DEF New, Other
<1> QED BY <1>1, <1>2, <1>3, <1>4 DEF IInv, Flash

LEMMA TailFollowed ==
    ASSUME Types, fw # <<>>, NEW op \in Request, fw' = Tail(fw) \o <<op>>
    PROVE  /\ fw' \in Seq(Request)
           /\ \A K : Ops(K)' => Ops(K) \/ op.t \in K
           /\ \A i \in 1 .. Len(fw') :
                fw'[i] = op \/ \E j \in 1 .. Len(fw) : fw'[i] = fw[j]
           /\ Len(fw') = Len(fw) /\ Len(fw) \in Nat
           /\ \A i \in 1 .. Len(fw') :
                \/ fw'[i] = op /\ i = Len(fw)
                \/ fw'[i] = fw[i + 1] /\ i + 1 \in 1 .. Len(fw)
           /\ (\A i, j \in 1 .. Len(fw) : i < j /\ fw[i].t = "hash" => fw[j].t = "hash")
                /\ op.t = "hash"
                => \A i, j \in 1 .. Len(fw') :
                        i < j /\ fw'[i].t = "hash" => fw'[j].t = "hash"
PROOF
<1> DEFINE T == Tail(fw)
<1>1. /\ T \in Seq(Request) /\ Len(T) = Len(fw) - 1 /\ Len(fw) \in Nat
      /\ \A i \in 1 .. Len(T) : T[i] = fw[i + 1] /\ i + 1 \in 1 .. Len(fw)
  BY HeadOp
<1>2. fw' = T \o <<op>> /\ <<op>> \in Seq(Request) /\ Len(<<op>>) = 1 /\ <<op>>[1] = op
  OBVIOUS
<1> HIDE DEF T
<1>a. Len(T) \in Nat
  BY <1>1
<1>3. /\ fw' \in Seq(Request) /\ Len(fw') = Len(T) + 1
      /\ \A i \in 1 .. Len(fw') : fw'[i] = IF i <= Len(T) THEN T[i] ELSE op
  <2> DEFINE one == <<op>>
  <2>1. one \in Seq(Request) /\ Len(one) = 1 /\ one[1] = op /\ fw' = T \o one
    BY <1>2
  <2> HIDE DEF one
  <2>2. /\ T \o one \in Seq(Request) /\ Len(T \o one) = Len(T) + Len(one)
        /\ \A i \in 1 .. Len(T) + Len(one) :
                (T \o one)[i] = IF i <= Len(T) THEN T[i] ELSE one[i - Len(T)]
    BY <2>1, <1>1, ConcatProperties
  <2>3. Len(fw') = Len(T) + 1
    BY <2>1, <2>2
  <2>4. ASSUME NEW i \in 1 .. Len(fw')
        PROVE  fw'[i] = IF i <= Len(T) THEN T[i] ELSE op
    <3>1. i \in 1 .. Len(T) + Len(one)
      BY <2>1, <2>3, <1>a
    <3>2. i <= Len(T) \/ i - Len(T) = 1
      BY <2>1, <3>1, <1>a
    <3> QED BY <2>1, <2>2, <3>1, <3>2
  <2> QED BY <2>1, <2>2, <2>3, <2>4
<1>4. \A i \in 1 .. Len(fw') :
        \/ fw'[i] = op /\ i = Len(fw)
        \/ fw'[i] = fw[i + 1] /\ i + 1 \in 1 .. Len(fw)
  BY <1>1, <1>3
<1>5. \A K : Ops(K)' => Ops(K) \/ op.t \in K
  BY <1>4 DEF Ops
<1>6. ASSUME \A i, j \in 1 .. Len(fw) : i < j /\ fw[i].t = "hash" => fw[j].t = "hash",
             op.t = "hash",
             NEW i \in 1 .. Len(fw'), NEW j \in 1 .. Len(fw'), i < j, fw'[i].t = "hash"
      PROVE  fw'[j].t = "hash"
  <2>1. CASE fw'[j] = op
    BY <2>1, <1>6
  <2>2. CASE fw'[j] = fw[j + 1] /\ j + 1 \in 1 .. Len(fw)
    <3>1. fw'[i] = fw[i + 1] /\ i + 1 \in 1 .. Len(fw)
      BY <1>1, <1>4, <1>6, <2>2
    <3> QED BY <2>2, <3>1, <1>6
  <2> QED BY <1>4, <2>1, <2>2
<1>7. Len(fw') = Len(fw) /\ Len(fw) \in Nat
  BY <1>1, <1>3
<1> QED BY <1>3, <1>4, <1>5, <1>6, <1>7

LEMMA TailAlone ==
    ASSUME Types, fw # <<>>
    PROVE  Tail(fw) \o <<>> = Tail(fw)
PROOF
<1>1. Tail(fw) \in Seq(Request)
  BY HeadOp
<1> QED BY <1>1, ConcatEmptySeq

(* A chunk is written to the store a transfer is for, and perhaps hashed. *)
LEMMA ChunkWrittenKeeps ==
    ASSUME Types, IInv, UNCHANGED <<client, up, link, resume, once>>,
           fw # <<>>, Head(fw).t = "chunk", ChunkWritten(Head(fw).s),
           \/ fw' = Tail(fw)
           \/ dev.last /\ fw' = Tail(fw) \o <<Op("hash", dev.part)>>
    PROVE  Types' /\ IInv'
PROOF
<1>1. /\ Head(fw) = fw[1] /\ 1 \in 1 .. Len(fw) /\ Ops({"chunk"}) /\ Ops({"set", "chunk"})
  BY HeadOp
<1>2. ~New
  <2> SUFFICES ASSUME New PROVE FALSE
    OBVIOUS
  <2>1. fw \in {<<Op("key", 0)>>, <<Op("run", dev.app)>>, <<Op("set", Other)>>}
    BY DEF IInv, Flash
  <2> QED BY <2>1, <1>1, Requests
<1>3. Head(fw).s = Other /\ dev.cs = dev.app /\ dev.part = Other /\ ~Ops({"key"})
      /\ dev.cs # 0 /\ once = 0 /\ once' = 0
  BY <1>1, <1>2, KeyAlone DEF IInv, Flash
<1>4. Other \in Stores /\ Other # dev.app /\ dev.app \in Stores /\ Op("hash", Other) \in Request
      /\ Op("hash", Other).t = "hash" /\ Op("hash", Other).s = Other
  BY Requests DEF Works
<1>5. /\ store' = [store EXCEPT ![Other] = @ + 1] /\ committed' = committed
      /\ dev' = dev /\ tx' = tx
  BY <1>3 DEF ChunkWritten
<1>6. store' \in [Stores -> Int] /\ store'[dev.app] = store[dev.app]
  <2>1. store \in [Stores -> Int]
    BY DEF Types
  <2> QED BY <2>1, <1>4, <1>5
<1>7. /\ fw' \in Seq(Request)
      /\ \A K : Ops(K)' => Ops(K) \/ "hash" \in K
      /\ \A i \in 1 .. Len(fw') :
            fw'[i] = Op("hash", Other) \/ \E j \in 1 .. Len(fw) : fw'[i] = fw[j]
      /\ (\A i, j \in 1 .. Len(fw) : i < j /\ fw[i].t = "hash" => fw[j].t = "hash")
            => \A i, j \in 1 .. Len(fw') :
                    i < j /\ fw'[i].t = "hash" => fw'[j].t = "hash"
      /\ ~dev.last => \A K : Ops(K)' => Ops(K)
  <2>1. CASE fw' = Tail(fw)
    BY <2>1, TailOps
  <2>2. CASE dev.last /\ fw' = Tail(fw) \o <<Op("hash", dev.part)>>
    BY <2>2, <1>3, <1>4, TailFollowed
  <2> QED BY <2>1, <2>2
<1>8. New' = New /\ Other' = Other
  BY <1>5, <1>6 DEF New, Other
<1>9. Client' /\ (\A t : Out(t)' = Out(t)) /\ PreCommit' = PreCommit
      /\ Started' = Started /\ Beyond' = Beyond /\ GivenUp' = GivenUp
  BY SameClient
<1>10. Types'
  BY <1>5, <1>6, <1>7 DEF Types, client
<1>11. Apart' /\ Opening' /\ Stale'
  BY <1>5, <1>8, ConfirmRest
<1>12. Flash'
  <2>1. ~Ops({"key"})'
    BY <1>3, <1>7
  <2>2. fw' # <<Op("key", 0)>>
    BY <2>1, NotKey
  <2>3. \A i \in 1 .. Len(fw') :
            fw'[i].t \in {"set", "chunk", "hash"} /\ fw'[i].s = Other
    <3>1. \A j \in 1 .. Len(fw) : fw[j].t \in {"set", "chunk", "hash"} /\ fw[j].s = Other
      BY <1>2, <1>3 DEF IInv, Flash, Ops
    <3> QED BY <3>1, <1>4, <1>7
  <2>4. link' = link /\ ~New'
    BY <1>2, <1>8
  <2> QED BY <1>2, <1>3, <1>5, <1>6, <1>8, <2>1, <2>2, <2>3, <2>4 DEF IInv, Flash
<1>13. Transfer'
  <2>1. Writing => Writing'
    <3> SUFFICES ASSUME Writing PROVE Writing'
      OBVIOUS
    <3>1. ~dev.last
      BY <1>1 DEF Writing
    <3> QED BY <3>1, <1>5, <1>7, <1>8, <1>9 DEF Writing
  <2>2. Written => Written'
    <3> SUFFICES ASSUME Written PROVE Written'
      OBVIOUS
    <3>1. dev.sum = "none" /\ ~dev.valid
      BY <1>1 DEF Written
    <3> QED BY <3>1, <1>5, <1>7, <1>8, <1>9 DEF Written
  <2>3. ~Fresh
    BY DEF Fresh
  <2> QED BY <1>2, <1>5, <1>8, <1>9, <2>1, <2>2, <2>3 DEF IInv, Transfer
<1> QED BY <1>9, <1>10, <1>11, <1>12, <1>13 DEF IInv

(* Once a hash has been requested nothing but hashes is. *)
LEMMA StoreHashedKeeps ==
    ASSUME Types, IInv, UNCHANGED <<client, up, link, resume, once>>,
           fw # <<>>, Head(fw).t = "hash", fw' = Tail(fw), StoreHashed(Head(fw).s)
    PROVE  Types' /\ IInv'
PROOF
<1>1. /\ Head(fw) = fw[1] /\ 1 \in 1 .. Len(fw) /\ Ops({"hash"}) /\ Len(fw) \in Nat
  BY HeadOp
<1>2. ~New
  <2> SUFFICES ASSUME New PROVE FALSE
    OBVIOUS
  <2>1. fw \in {<<Op("key", 0)>>, <<Op("run", dev.app)>>, <<Op("set", Other)>>}
    BY DEF IInv, Flash
  <2> QED BY <2>1, <1>1, Requests
<1>3. Head(fw).s = Other /\ dev.cs = dev.app
  BY <1>1, <1>2, KeyAlone
<1> DEFINE sum == IF dev.sum = "none" /\ store[Other] = Chunks THEN "image" ELSE "junk"
<1>4. /\ dev' = [dev EXCEPT !.sum = sum] /\ UNCHANGED <<store, committed, tx>>
      /\ sum \in {"image", "junk"} /\ (sum = "image" => store[Other] = Chunks)
  BY <1>3 DEF StoreHashed
<1> HIDE DEF sum
<1>5. /\ dev' \in Ram /\ dev'.app = dev.app /\ dev'.cs = dev.cs /\ dev'.part = dev.part
      /\ dev'.reset = dev.reset /\ dev'.closing = dev.closing
      /\ dev'.valid = dev.valid /\ dev'.busy = dev.busy /\ dev'.state = dev.state
      /\ dev'.stage = dev.stage /\ dev'.sum = sum
  BY <1>4 DEF Types, Ram
<1>6. /\ fw' \in Seq(Request) /\ \A K : Ops(K)' => Ops(K)
      /\ (\A i, j \in 1 .. Len(fw) : i < j /\ fw[i].t = "hash" => fw[j].t = "hash")
            => \A i, j \in 1 .. Len(fw') :
                    i < j /\ fw'[i].t = "hash" => fw'[j].t = "hash"
  BY TailOps
<1>7. New' = New /\ Other' = Other
  BY <1>4, <1>5 DEF New, Other
<1>8. Types'
  BY <1>4, <1>5, <1>6 DEF Types, client
<1>9. Apart' /\ Opening' /\ Stale'
  BY <1>4, <1>5, <1>7, ConfirmRest
<1>10. Client' /\ (\A t : Out(t)' = Out(t))
       /\ Started' = Started /\ Beyond' = Beyond /\ GivenUp' = GivenUp
  BY SameClient
<1>11. Flash'
  BY <1>2, <1>4, <1>5, Tailed
<1>12. Transfer'
  <2>1. ~Fresh /\ ~Writing
    BY <1>1 DEF Fresh, Writing
  <2>2. Written => Written'
    <3> SUFFICES ASSUME Written PROVE Written'
      OBVIOUS
    <3>1. ~Ops({"set", "chunk"})
      <4>1. \A j \in 1 .. Len(fw) : fw[j].t = "hash"
        BY <1>1 DEF Written
      <4> QED BY <4>1 DEF Ops
    <3> QED BY <3>1, <1>4, <1>5, <1>6, <1>7, <1>10 DEF Written
  <2> QED BY <1>2, <1>5, <1>7, <1>10, <2>1, <2>2 DEF IInv, Transfer
<1> QED BY <1>8, <1>9, <1>10, <1>11, <1>12 DEF IInv

(* The new application is committed: only now is the old one erased. *)
LEMMA AppCommittedKeeps ==
    ASSUME Types, IInv, UNCHANGED <<client, up, link, resume, once>>,
           fw # <<>>, Head(fw).t = "run", AppCommitted(Head(fw).s),
           fw' = Tail(fw) \o <<Op("set", dev.cs)>>
    PROVE  /\ Types' /\ IInv'
           /\ New /\ committed' = dev.app /\ dev'.app = dev.app
PROOF
<1>1. Head(fw) = fw[1] /\ 1 \in 1 .. Len(fw) /\ Ops({"run"})
  BY HeadOp
<1>2. New
  BY KeyAlone, <1>1 DEF IInv, Flash
<1>3. fw = <<Op("run", dev.app)>> /\ dev.cs = Other
  <2>1. fw \in {<<Op("key", 0)>>, <<Op("run", dev.app)>>, <<Op("set", Other)>>}
    BY <1>2 DEF IInv, Flash
  <2>2. fw = <<Op("run", dev.app)>>
    BY <2>1, <1>1, Requests
  <2> QED BY <1>2, <2>2 DEF IInv, Flash
<1>4. Head(fw).s = dev.app /\ Tail(fw) = <<>> /\ Tail(fw) \o <<Op("set", Other)>> = <<Op("set", Other)>>
  <2>1. Head(fw).s = dev.app /\ Tail(fw) = <<>>
    BY <1>3, Requests
  <2>2. <<>> \o <<Op("set", Other)>> = <<Op("set", Other)>>
    <3>1. <<Op("set", Other)>> \in Seq(Request)
      BY Requests DEF Works
    <3> QED BY <3>1, ConcatEmptySeq
  <2> QED BY <2>1, <2>2
<1>5. /\ fw' = <<Op("set", Other)>> /\ committed' = dev.app /\ UNCHANGED <<store, tx>>
      /\ dev' = initStateVariables(dev) /\ committed' \in Stores
  BY <1>3, <1>4, Requests DEF AppCommitted
<1>6. /\ dev' \in Ram /\ dev'.app = dev.app /\ dev'.cs = dev.cs /\ ~dev'.valid
      /\ dev'.stage = "id" /\ dev'.got = 0 /\ dev'.field = dev.field
      /\ dev'.upgraded = dev.upgraded /\ dev'.busy = dev.busy
      /\ dev'.closing = dev.closing /\ dev'.state = dev.state
  <2>1. dev' = [dev EXCEPT !.valid = FALSE, !.got = 0, !.stage = "id",
                           !.reset = FALSE, !.sum = "none"]
    BY <1>5 DEF initStateVariables
  <2>2. dev \in Ram /\ 0 \in Nat /\ "id" \in Steps
    BY DEF Types, Steps
  <2>3. dev' \in Ram
    BY <2>1, <2>2 DEF Ram
  <2> QED BY <2>1, <2>2, <2>3 DEF Ram
<1>7. New' = New /\ Other' = Other /\ once = 0 /\ once' = 0 /\ dev.cs # 0
  <2>1. fw # <<Op("key", 0)>>
    BY <1>3, Requests
  <2> QED BY <2>1, <1>2, <1>5, <1>6 DEF New, Other, IInv, Flash
<1>8. Client' /\ (\A t : Out(t)' = Out(t)) /\ PreCommit' = PreCommit
  BY SameClient
<1>9. Types'
  <2>1. <<Op("set", Other)>> \in Seq(Request)
    BY Requests DEF Works
  <2> QED BY <2>1, <1>5, <1>6, <1>7 DEF Types, client
<1>10. Apart' /\ Opening' /\ Stale'
  <2>1. Apart' /\ Opening'
    BY <1>5, <1>6 DEF IInv, Apart, Opening, client
  <2>2. Stale'
    BY <1>2, <1>7 DEF Stale
  <2> QED BY <2>1, <2>2
<1>11. Flash'
  <2>1. fw' # <<Op("key", 0)>> /\ fw' # <<Op("run", dev'.app)>> /\ ~Ops({"key"})'
    <3>1. \A i \in 1 .. Len(fw') : fw'[i].t = "set"
      BY <1>5, Requests
    <3>2. ~Ops({"key"})'
      BY <3>1 DEF Ops
    <3>3. fw'[1].t = "set" /\ <<Op("run", dev'.app)>>[1].t = "run"
      BY <1>5, Requests
    <3> QED BY <3>2, <3>3, NotKey
  <2>2. link' /\ (PreCommit' \/ Out("COMMIT_CFM")') => FALSE
    BY <1>2, <1>8 DEF IInv, Flash
  <2> QED BY <1>2, <1>5, <1>6, <1>7, <2>1, <2>2 DEF IInv, Flash
<1>12. Transfer'
  BY <1>2, <1>7 DEF Transfer
<1> QED BY <1>2, <1>5, <1>6, <1>8, <1>9, <1>10, <1>11, <1>12 DEF IInv

LEMMA ConfirmCases ==
    ASSUME Types, Confirm
    PROVE  /\ fw # <<>> /\ UNCHANGED <<client, up, link, resume, once>>
           /\ \/ Head(fw).t = "key" /\ fw' = Tail(fw) /\ KeyRead
              \/ Head(fw).t = "set" /\ fw' = Tail(fw) /\ StoreIdSet(Head(fw).s)
              \/ /\ Head(fw).t = "chunk" /\ ChunkWritten(Head(fw).s)
                 /\ \/ fw' = Tail(fw)
                    \/ dev.last /\ fw' = Tail(fw) \o <<Op("hash", dev.part)>>
              \/ Head(fw).t = "hash" /\ fw' = Tail(fw) /\ StoreHashed(Head(fw).s)
              \/ /\ Head(fw).t = "run" /\ AppCommitted(Head(fw).s)
                 /\ fw' = Tail(fw) \o <<Op("set", dev.cs)>>
PROOF
<1>1. /\ fw # <<>> /\ UNCHANGED <<client, up, link, resume, once>>
      /\ fw' = Tail(fw) \o Then(Head(fw))
      /\ \/ Head(fw).t = "key" /\ KeyRead
         \/ Head(fw).t = "set" /\ StoreIdSet(Head(fw).s)
         \/ Head(fw).t = "chunk" /\ ChunkWritten(Head(fw).s)
         \/ Head(fw).t = "hash" /\ StoreHashed(Head(fw).s)
         \/ Head(fw).t = "run" /\ AppCommitted(Head(fw).s)
  BY DEF Confirm, Confirmed
<1>2. Head(fw).t \in {"key", "set", "hash"} => Then(Head(fw)) = <<>>
  BY DEF Then
<1>3. Head(fw).t = "chunk" =>
        \/ Then(Head(fw)) = <<>>
        \/ dev.last /\ Then(Head(fw)) = <<Op("hash", dev.part)>>
  BY DEF Then
<1>4. Head(fw).t = "run" => Then(Head(fw)) = <<Op("set", dev.cs)>>
  BY DEF Then
<1>5. Then(Head(fw)) = <<>> => fw' = Tail(fw)
  BY <1>1, TailAlone
<1> QED BY <1>1, <1>2, <1>3, <1>4, <1>5

LEMMA ConfirmKeeps ==
    ASSUME Types, IInv, Confirm
    PROVE  Types' /\ IInv'
BY ConfirmCases, KeyReadKeeps, StoreIdSetKeeps, ChunkWrittenKeeps, StoreHashedKeeps,
   AppCommittedKeeps

LEMMA FaultKeeps ==
    ASSUME Types, IInv, FirmwareFault
    PROVE  Types' /\ IInv'
PROOF
<1> DEFINE st == IF Head(fw).t = "chunk" THEN "ABORTED" ELSE dev.state
<1>1. /\ link /\ link' = link /\ up' = up /\ fw # <<>>
      /\ UNCHANGED <<client, flash>> /\ UNCHANGED <<client, up, link, resume, once>>
      /\ Head(fw).t \in {"set", "chunk", "hash"} /\ fw' = Tail(fw)
      /\ dev' = [dev EXCEPT !.trial = FALSE, !.state = st]
      /\ tx' = Notify(tx, ErrorInd)
  BY DEF FirmwareFault, StoreFails, flash
<1>2. st \in Modes
  BY DEF Types, Ram, Modes
<1> HIDE DEF st
<1>3. dev' \in Ram /\ dev'.app = dev.app /\ dev'.cs = dev.cs /\ dev'.part = dev.part
      /\ dev'.reset = dev.reset /\ dev'.closing = dev.closing
      /\ dev'.valid = dev.valid /\ dev'.stage = dev.stage /\ dev'.sum = dev.sum
      /\ dev'.got = dev.got /\ dev'.field = dev.field /\ dev'.upgraded = dev.upgraded
      /\ dev'.last = dev.last
  BY <1>1, <1>2 DEF Types, Ram
<1>4. Grows(tx, tx', {"ERROR_IND"}) /\ tx' \in Queue
  <2>1. ErrorInd \in Message /\ ErrorInd.t = "ERROR_IND" /\ tx \in Queue
    BY Messages, MessageFields DEF Types
  <2>2. Grows(tx, tx', {"ERROR_IND"})
    BY <1>1, <2>1, NotifyGrows
  <2> QED BY <2>2 DEF Grows
<1>5. /\ fw' \in Seq(Request) /\ \A K : Ops(K)' => Ops(K)
      /\ (\A i, j \in 1 .. Len(fw) : i < j /\ fw[i].t = "hash" => fw[j].t = "hash")
            => \A i, j \in 1 .. Len(fw') :
                    i < j /\ fw'[i].t = "hash" => fw'[j].t = "hash"
  BY <1>1, TailOps
<1>6. New' = New /\ Other' = Other /\ ~PreStart
  BY <1>1, <1>3, QuietStart DEF New, Other, flash
<1>7. Client' /\ (\A t : Out(t)' = Out(t)) /\ PreCommit' = PreCommit
       /\ Started' = Started /\ Beyond' = Beyond /\ GivenUp' = GivenUp
  BY <1>1, SameClient
<1>8. Types'
  BY <1>1, <1>3, <1>4, <1>5 DEF Types, client, flash
<1>9. Apart' /\ Opening' /\ Stale'
  BY <1>1, <1>3, <1>4, <1>6, FirmwareStale DEF Apart
<1>10. Flash'
  <2>1. CASE ~New
    BY <2>1, <1>1, <1>3, Tailed DEF flash
  <2>2. CASE New
    <3>1. fw = <<Op("set", Other)>>
      <4>1. fw \in {<<Op("key", 0)>>, <<Op("run", dev.app)>>, <<Op("set", Other)>>}
        BY <1>1, <2>2 DEF IInv, Flash
      <4>2. Head(<<Op("key", 0)>>).t = "key" /\ Head(<<Op("run", dev.app)>>).t = "run"
        BY Requests
      <4> QED BY <4>1, <4>2, <1>1
    <3>2. fw' = <<>>
      BY <3>1, <1>1
    <3>3. ~Ops({"key"})' /\ once = 0 /\ dev.cs # 0 /\ fw' # <<Op("key", 0)>>
      <4>1. ~Ops({"key"})'
        BY <3>2 DEF Ops
      <4>2. dev.cs # 0
        BY <1>1, KeyAlone
      <4> QED BY <2>2, <4>1, <4>2, NotKey DEF IInv, Flash
    <3> QED BY <2>2, <3>1, <3>2, <3>3, <1>1, <1>3, <1>6 DEF IInv, Flash, flash
  <2> QED BY <2>1, <2>2
<1>11. Transfer'
  <2>1. ~Fresh
    BY <1>1 DEF Fresh
  <2>2. Writing => Writing'
    BY <1>3, <1>5, <1>6, <1>7 DEF Writing
  <2>3. Written => Written'
    BY <1>1, <1>3, <1>5, <1>6, <1>7 DEF Written, flash
  <2> QED BY <1>1, <1>3, <1>6, <1>7, <2>1, <2>2, <2>3 DEF IInv, Transfer
<1> QED BY <1>7, <1>8, <1>9, <1>10, <1>11 DEF IInv

-----------------------------------------------------------------------------
(* Connections and restarts *)

Down ==
    /\ link' = FALSE /\ up' = None /\ tx'.q = <<>> /\ ~tx'.done /\ tx'.used = 0
    /\ tx' \in Queue /\ cl' \in Relayer /\ wr' = [busy |-> FALSE, pend |-> None]
    /\ cl'.state \in {"IDLE", "WAIT_POST_TRANSFER_RECONNECTION"}
    /\ cl'.mesh \/ cl'.state = "WAIT_POST_TRANSFER_RECONNECTION"
    /\ ~dev'.busy /\ ~dev'.closing

LEMMA DownKeeps ==
    ASSUME Types, Down
    PROVE  /\ Apart' /\ Client' /\ Transfer' /\ Opening' /\ Stale'
           /\ link' \in BOOLEAN /\ up' \in Message /\ tx' \in Queue
           /\ cl' \in Relayer /\ wr' \in [busy : BOOLEAN, pend : Message]
PROOF
<1>1. None \in Message /\ None.t = "none"
  BY Messages, MessageFields
<1>2. wr'.pend = None /\ ~wr'.busy
  BY DEF Down
<1>3. \A t : t # "none" => ~Out(t)'
  BY <1>1, <1>2 DEF Down, Out
<1>4. Client'
  BY <1>1, <1>2, <1>3 DEF Client, Down
<1>5. wr' \in [busy : BOOLEAN, pend : Message]
  BY <1>1 DEF Down
<1>6. link' \in BOOLEAN
  BY DEF Types, Down
<1>7. Apart'
  BY <1>2 DEF Apart, Down
<1>8. Transfer' /\ Opening' /\ Stale'
  BY DEF Transfer, Opening, Stale, Down
<1> QED BY <1>1, <1>4, <1>5, <1>6, <1>7, <1>8 DEF Down

(* Whatever is booted, its store holds a whole image. *)
LEMMA Whole ==
    ASSUME Types, IInv
    PROVE  /\ store[committed] \in {Orig, Chunks}
           /\ once # 0 => store[once] = Chunks
           /\ \A i \in 1 .. Len(fw) : fw[i].t \in {"set"} =>
                fw[i].s = Other /\ dev.app = committed /\ once = 0
PROOF
<1>1. store[committed] \in {Orig, Chunks}
  BY DEF IInv, Flash, New
<1>2. once # 0 => store[once] = Chunks
  BY DEF IInv, Flash
<1>3. ASSUME NEW i \in 1 .. Len(fw), fw[i].t = "set"
      PROVE  fw[i].s = Other /\ dev.app = committed /\ once = 0
  <2>1. Ops({"set", "chunk"})
    BY <1>3 DEF Ops
  <2>2. once = 0
    BY <2>1 DEF IInv, Flash
  <2>3. CASE New
    <3>1. fw \in {<<Op("key", 0)>>, <<Op("run", dev.app)>>, <<Op("set", Other)>>}
      BY <1>3, <2>3 DEF IInv, Flash
    <3>2. fw = <<Op("set", Other)>>
      BY <3>1, <1>3, Requests
    <3> QED BY <2>2, <2>3, <3>2, <1>3, Requests DEF IInv, Flash
  <2>4. CASE ~New
    BY <1>3, <2>2, <2>4 DEF IInv, Flash
  <2> QED BY <2>3, <2>4
<1> QED BY <1>1, <1>2, <1>3
(* The client's part of it, and the link's. *)
LEMMA ClientDown ==
    ASSUME Types, ClientDisconnected
    PROVE  /\ cl' \in Relayer /\ wr' = [busy |-> FALSE, pend |-> None]
           /\ cl'.state \in {"IDLE", "WAIT_POST_TRANSFER_RECONNECTION"}
           /\ cl'.mesh \/ cl'.state = "WAIT_POST_TRANSFER_RECONNECTION"
PROOF
<1>1. cl \in Relayer /\ wr' = [busy |-> FALSE, pend |-> None]
  BY DEF Types, ClientDisconnected
<1>2. CASE cl.state = "WAIT_POST_TRANSFER_DISCONNECT"
  <2>1. cl' = [cl EXCEPT !.start = "no", !.closing = FALSE,
                         !.state = "WAIT_POST_TRANSFER_RECONNECTION"]
    BY <1>2 DEF ClientDisconnected
  <2>2. "WAIT_POST_TRANSFER_RECONNECTION" \in Places
    BY DEF Places
  <2> QED BY <1>1, <2>1, <2>2 DEF Relayer
<1>3. CASE cl.state # "WAIT_POST_TRANSFER_DISCONNECT"
  <2>1. cl' = [Reset(cl) EXCEPT !.start = "no", !.closing = FALSE, !.mesh = TRUE]
    BY <1>3 DEF ClientDisconnected
  <2>2. Reset(cl) \in Relayer /\ Reset(cl).state = "IDLE"
    BY ResetFields
  <2> QED BY <1>1, <2>1, <2>2 DEF Relayer
<1> QED BY <1>2, <1>3

LEMMA LinkDowns ==
    ASSUME Types, NEW r \in BOOLEAN, LinkDown(r)
    PROVE  /\ link' = FALSE /\ up' = None
           /\ tx'.q = <<>> /\ ~tx'.done /\ tx'.used = 0 /\ tx' \in Queue
PROOF
<1> DEFINE h == IF r THEN None ELSE tx.held
<1>1. h \in Message
  BY Messages DEF Types, Queue
<1>2. link' = FALSE /\ up' = None /\ tx' = [Quiet EXCEPT !.held = h]
  BY DEF LinkDown
<1> HIDE DEF h
<1>3. tx' = [q |-> <<>>, held |-> h, done |-> FALSE, used |-> 0]
  BY <1>2 DEF Quiet
<1>4. tx' \in Queue
  BY <1>1, <1>3 DEF Queue
<1> QED BY <1>2, <1>3, <1>4

LEMMA RestartsDown ==
    ASSUME Types, IInv, Restarts, ~dev'.busy, ~dev'.closing
    PROVE  Down
PROOF
<1>1. /\ link' = FALSE /\ up' = None
      /\ tx'.q = <<>> /\ ~tx'.done /\ tx'.used = 0 /\ tx' \in Queue
  BY LinkDowns DEF Restarts
<1>2. CASE link
  BY <1>1, <1>2, ClientDown DEF Restarts, Down
<1>3. CASE ~link
  <2>1. cl' = cl /\ wr' = wr
    BY <1>3 DEF Restarts, client
  <2>2. wr = [busy |-> FALSE, pend |-> None]
    <3>1. wr \in [busy : BOOLEAN, pend : Message] /\ wr.busy = FALSE /\ wr.pend = None
      BY <1>3 DEF Types, IInv, Apart, Client
    <3> QED BY <3>1
  <2> QED BY <1>1, <1>3, <2>1, <2>2 DEF Types, IInv, Apart, Down
<1> QED BY <1>2, <1>3

(***************************************************************************)
(* The hub starts an application: the committed one, or on trial the one   *)
(* that was set to run once; what was being erased is neither.             *)
(***************************************************************************)
LEMMA BootKeeps ==
    ASSUME Types, IInv, NEW kept \in {0, once}, Boot(kept),
           ~dev'.busy /\ ~dev'.closing => Down,
           resume' \in {"start", "post"},
           \/ store' = store
           \/ fw # <<>> /\ Head(fw).t = "set" /\ store' = [store EXCEPT ![Head(fw).s] = 0]
    PROVE  /\ Types' /\ IInv'
           /\ committed' = committed
           /\ store'[committed] = store[committed]
           /\ \/ dev'.app = committed
              \/ store[committed] = Orig /\ store'[dev'.app] # Orig
PROOF
<1> DEFINE app == IF kept # 0 THEN kept ELSE committed
           post == resume' = "post"
<1>1. /\ once' = 0 /\ fw' = <<Op("key", 0)>> /\ dev' = Booted(app, post)
      /\ committed' = committed
  BY DEF Boot
<1>2. post \in BOOLEAN /\ app \in Stores
  BY DEF Types
<1>3. kept # 0 => /\ ~New /\ once = Other /\ store[Other] = Chunks /\ app = Other
                  /\ dev.app = committed
  BY DEF IInv, Flash
<1>4. kept = 0 => app = committed
  OBVIOUS
<1> HIDE DEF app, post
<1>5. /\ dev' \in Ram /\ dev'.app = app /\ dev'.cs = 0 /\ dev'.stage = "id"
      /\ dev'.field = "version" /\ dev'.got = 0 /\ dev'.upgraded = FALSE
      /\ dev'.busy = FALSE /\ dev'.closing = FALSE
  <2>1. /\ "PRE_FAIL" \in Modes /\ "id" \in Steps
        /\ 0 \in Nat /\ 0 \in Stores \cup {0}
    BY DEF Modes, Steps
  <2>2. dev' = [app |-> app, cs |-> 0, state |-> "PRE_FAIL", stage |-> "id", got |-> 0,
                valid |-> FALSE, reset |-> FALSE, upgraded |-> FALSE, last |-> FALSE,
                sum |-> "none", part |-> 0, timer |-> post, field |-> "version",
                trial |-> FALSE, commit_cfm |-> FALSE, busy |-> FALSE, cb |-> FALSE,
                closing |-> FALSE]
    BY <1>1 DEF Booted
  <2>3. dev' \in Ram
    BY <2>1, <2>2, <1>2 DEF Ram
  <2> QED BY <2>2, <2>3
<1>6. Down
  BY <1>5
<1>7. /\ committed \in Stores /\ dev.app \in Stores /\ store \in [Stores -> Int]
      /\ Chunks \in Nat /\ Chunks # 0 /\ Orig = -1 /\ Stores = {1, 2}
  BY OtaLinkAssumption DEF Types, Ram, Orig, Stores
<1>8. /\ store' \in [Stores -> Int] /\ store'[committed] = store[committed]
      /\ kept # 0 => store' = store
      /\ dev.app # committed => store' = store
  <2>1. CASE store' = store
    BY <2>1, <1>7
  <2>2. CASE fw # <<>> /\ Head(fw).t = "set" /\ store' = [store EXCEPT ![Head(fw).s] = 0]
    <3>1. 1 \in 1 .. Len(fw) /\ Head(fw) = fw[1]
      BY <2>2 DEF Types
    <3>2. Head(fw).s = Other /\ dev.app = committed /\ once = 0
      BY <2>2, <3>1, Whole
    <3>3. Other \in Stores /\ Other # committed
      BY <1>7, <3>2 DEF Other
    <3>4. kept = 0
      BY <3>2
    <3> QED BY <2>2, <3>2, <3>3, <3>4, <1>7
  <2> QED BY <2>1, <2>2
<1>9. /\ store'[app] = Orig => app = committed
      /\ store'[app] # Orig => /\ store'[app] = Chunks
                               /\ app # committed => store'[committed] = Orig
  <2>1. CASE kept # 0
    BY <2>1, <1>3, <1>7, <1>8 DEF New
  <2>2. CASE kept = 0
    BY <2>2, <1>4, <1>7, <1>8, Whole
  <2> QED BY <2>1, <2>2
<1>10. \A i \in 1 .. Len(fw') : fw'[i].t = "key"
  BY <1>1, Requests
<1>11. fw' \in Seq(Request)
  <2>1. <<Op("key", 0)>> \in Seq(Request)
    <3>1. Op("key", 0) \in Request
      BY DEF Op, Request, Works
    <3> QED BY <3>1
  <2> QED BY <2>1, <1>1
<1>12. Types'
  BY <1>1, <1>5, <1>6, <1>7, <1>8, <1>11, DownKeeps DEF Types
<1>13. Flash'
  <2>1. ~Ops({"set", "chunk"})' /\ ~Ops({"chunk"})'
    BY <1>10 DEF Ops
  <2>2. /\ fw' # <<Op("run", dev'.app)>>
        /\ fw' # <<Op("set", Other')>>
    BY <1>1, Requests
  <2>3. link' = FALSE
    BY <1>6 DEF Down
  <2>4. New' <=> store'[app] # Orig
    BY <1>5 DEF New
  <2> QED BY <1>1, <1>5, <1>9, <1>10, <2>1, <2>2, <2>3, <2>4 DEF Flash
<1>14. IInv'
  BY <1>6, <1>13, DownKeeps DEF IInv
<1>15. app # committed => store[committed] = Orig /\ store'[app] # Orig
  BY <1>8, <1>9
<1> QED BY <1>1, <1>5, <1>8, <1>12, <1>14, <1>15

(* The connection ends and no restart was waiting for that. *)
LEMMA StaysKeeps ==
    ASSUME Types, IInv, Down, UNCHANGED <<flash, fw>>, once = 0,
           dev' \in {dev, [dev EXCEPT !.busy = FALSE, !.closing = FALSE]}
    PROVE  Types' /\ IInv' /\ dev'.app = dev.app
PROOF
<1>1. /\ dev' \in Ram /\ dev'.app = dev.app /\ dev'.cs = dev.cs /\ dev'.part = dev.part
      /\ dev'.stage = dev.stage /\ dev'.field = dev.field
      /\ dev'.got = dev.got /\ dev'.upgraded = dev.upgraded
  BY DEF Types, Ram
<1>2. Types'
  BY <1>1, DownKeeps DEF Types, flash
<1>3. New' = New /\ Other' = Other /\ (\A K : Ops(K)' = Ops(K)) /\ link' = FALSE
  BY <1>1 DEF New, Other, Ops, Down, flash
<1>4. Flash'
  BY <1>1, <1>3 DEF IInv, Flash, flash
<1> QED BY <1>1, <1>2, <1>4, DownKeeps DEF IInv
Unasked == LinkLost \/ Closed \/ ClientPowerCut \/ ServerPowerCut
Ends == Unasked \/ ServerPanics \/ CommitTimesOut

(* What runs after a step is what ran, or what a restart has started. *)
Restarted ==
    /\ committed' = committed
    /\ store'[committed] = store[committed]
    /\ \/ dev'.app = dev.app /\ store' = store
       \/ dev'.app = committed
       \/ store[committed] = Orig /\ store'[dev'.app] # Orig

LEMMA ServerDownKeeps ==
    ASSUME Types, IInv, ServerDisconnected, LinkDown(dev.reset),
           cl' \in Relayer, wr' = [busy |-> FALSE, pend |-> None],
           cl'.state \in {"IDLE", "WAIT_POST_TRANSFER_RECONNECTION"},
           cl'.mesh \/ cl'.state = "WAIT_POST_TRANSFER_RECONNECTION"
    PROVE  Types' /\ IInv' /\ Restarted
PROOF
<1>1. /\ link' = FALSE /\ up' = None
      /\ tx'.q = <<>> /\ ~tx'.done /\ tx'.used = 0 /\ tx' \in Queue
  BY LinkDowns DEF Types, Ram
<1>2. ~dev'.busy /\ ~dev'.closing => Down
  BY <1>1 DEF Down
<1>3. CASE dev.reset
  <2>1. resume' = resume /\ store' = store /\ Boot(once)
    BY <1>3 DEF ServerDisconnected
  <2> QED BY <1>2, <2>1, BootKeeps DEF Types, Restarted
<1>4. CASE ~dev.reset
  <2>1. /\ dev' = [dev EXCEPT !.busy = FALSE, !.closing = FALSE]
        /\ UNCHANGED <<flash, fw>>
    BY <1>4 DEF ServerDisconnected
  <2>2. ~dev'.busy /\ ~dev'.closing
    BY <2>1 DEF Types, Ram
  <2>3. once = 0
    BY <1>4 DEF IInv, Flash
  <2> QED BY <1>2, <2>1, <2>2, <2>3, StaysKeeps DEF Restarted, flash
<1> QED BY <1>3, <1>4

LEMMA EndsKeeps ==
    ASSUME Types, IInv, Ends
    PROVE  Types' /\ IInv' /\ Restarted
PROOF
<1>1. CASE Disconnect
  <2>1. LinkDown(dev.reset) /\ ServerDisconnected /\ ClientDisconnected
    BY <1>1 DEF Disconnect
  <2> QED BY <2>1, ClientDown, ServerDownKeeps
<1>2. CASE ClientPowerCut
  <2>1. cl' = Idle /\ wr' = [busy |-> FALSE, pend |-> None]
    BY <1>2 DEF ClientPowerCut
  <2>2. cl' \in Relayer /\ cl'.state = "IDLE" /\ cl'.mesh
    BY <2>1, ResetFields DEF Idle, Relayer, Places
  <2>3. CASE link
    BY <1>2, <2>1, <2>2, <2>3, ServerDownKeeps DEF ClientPowerCut
  <2>4. CASE ~link
    <3>1. UNCHANGED <<link, up, tx, server>>
      BY <1>2, <2>4 DEF ClientPowerCut
    <3>2. Down
      BY <2>1, <2>2, <2>4, <3>1 DEF Down, Types, IInv, Apart, server
    <3>3. once = 0
      BY <2>4 DEF IInv, Flash
    <3> QED BY <3>1, <3>2, <3>3, StaysKeeps DEF server, flash, Restarted
  <2> QED BY <2>3, <2>4
<1>3. ASSUME Restarts, NEW kept \in {0, once}, Boot(kept),
             resume' \in {"start", "post"},
             \/ store' = store
             \/ /\ fw # <<>> /\ Head(fw).t = "set"
                /\ store' = [store EXCEPT ![Head(fw).s] = 0]
      PROVE  Types' /\ IInv' /\ Restarted
  <2>1. ~dev'.busy /\ ~dev'.closing => Down
    BY <1>3, RestartsDown
  <2> QED BY <1>3, <2>1, BootKeeps DEF Restarted
<1>4. CASE CommitTimesOut
  BY <1>3, <1>4 DEF CommitTimesOut, CommitTimeout
<1>5. CASE ServerPanics
  <2>1. CASE EraseUnattended
    BY <1>3, <1>5, <2>1 DEF ServerPanics, EraseUnattended, Types
  <2>2. CASE WriteWhileClosing
    BY <1>3, <1>5, <2>2 DEF ServerPanics, WriteWhileClosing, Types
  <2> QED BY <1>5, <2>1, <2>2 DEF ServerPanics
<1>6. CASE ServerPowerCut
  <2>1. Restarts /\ PowerCut
    BY <1>6 DEF ServerPowerCut
  <2>2. resume' \in {"start", "post"}
    BY <2>1 DEF PowerCut, Types
  <2>3. PICK kept \in {0, once} : Boot(kept)
    BY <2>1 DEF PowerCut
  <2>4. \/ store' = store
        \/ /\ fw # <<>> /\ Head(fw).t = "set"
           /\ store' = [store EXCEPT ![Head(fw).s] = 0]
    BY <2>1 DEF PowerCut
  <2> QED BY <1>3, <2>1, <2>2, <2>3, <2>4
<1> QED BY <1>1, <1>2, <1>4, <1>5, <1>6 DEF Ends, Unasked, LinkLost, Closed

(* The client gives the trial boot up. *)
LEMMA GiveUpKeeps ==
    ASSUME Types, IInv, GiveUp
    PROVE  Types' /\ IInv'
PROOF
<1>1. /\ ~link /\ UNCHANGED <<wr, link, up, tx>> /\ UNCHANGED server
      /\ cl' = [Reset(cl) EXCEPT !.mesh = TRUE]
  BY DEF GiveUp, ReconnectionFails
<1>2. cl' \in Relayer /\ cl'.state = "IDLE" /\ cl'.mesh
  BY <1>1, ResetFields DEF Relayer
<1>3. wr' = [busy |-> FALSE, pend |-> None]
  <2>1. wr \in [busy : BOOLEAN, pend : Message] /\ wr.busy = FALSE /\ wr.pend = None
    BY <1>1 DEF Types, IInv, Apart, Client
  <2> QED BY <2>1, <1>1
<1>4. Down
  BY <1>1, <1>2, <1>3 DEF Down, Types, IInv, Apart, server
<1>5. once = 0
  BY <1>1 DEF IInv, Flash
<1> QED BY <1>1, <1>4, <1>5, StaysKeeps DEF server, flash

(* A connection begins where the firmware owes nothing. *)
LEMMA ConnectKeeps ==
    ASSUME Prompt, Types, IInv, Connect
    PROVE  Types' /\ IInv'
PROOF
<1> DEFINE st == IF dev.cs = 0 THEN "PRE_FAIL" ELSE "WAIT_FOR_HOST"
           cs == IF cl.state = "WAIT_POST_TRANSFER_RECONNECTION" THEN "IDLE" ELSE cl.state
<1>1. /\ ~link /\ fw = <<>> /\ link' = TRUE /\ UNCHANGED <<up, tx, wr, fw>>
      /\ UNCHANGED <<resume, store, committed, once>>
      /\ dev' = initStateVariables([dev EXCEPT !.state = st])
      /\ cl' = [cl EXCEPT !.start = "timer", !.state = cs]
  BY DEF Connect, ServerConnected, ClientConnected, flash
<1>2. /\ up = None /\ ~wr.busy /\ wr.pend = None /\ tx.q = <<>> /\ ~tx.done
      /\ tx.used = 0 /\ cs = "IDLE" /\ once = 0
  BY <1>1 DEF IInv, Apart, Client, Flash
<1>3. dev.cs # 0
  <2>1. Op("key", 0) \in Request
    BY DEF Op, Request, Works
  <2>2. fw # <<Op("key", 0)>>
    BY <2>1, <1>1
  <2> QED BY <2>2 DEF IInv, Flash
<1>4. st = "WAIT_FOR_HOST"
  BY <1>3
<1> HIDE DEF st, cs
<1>5. /\ dev' \in Ram /\ dev'.app = dev.app /\ dev'.cs = dev.cs /\ dev'.stage = "id"
      /\ dev'.got = 0 /\ dev'.field = dev.field /\ dev'.upgraded = dev.upgraded
      /\ dev'.sum = "none" /\ ~dev'.valid /\ dev'.state = "WAIT_FOR_HOST"
      /\ dev'.part = dev.part
  <2> DEFINE d == [dev EXCEPT !.state = "WAIT_FOR_HOST"]
  <2>1. "WAIT_FOR_HOST" \in Modes /\ 0 \in Nat /\ "id" \in Steps
    BY DEF Modes, Steps
  <2>2. d \in Ram /\ d.state = "WAIT_FOR_HOST" /\ d.app = dev.app /\ d.cs = dev.cs
        /\ d.field = dev.field /\ d.upgraded = dev.upgraded /\ d.part = dev.part
    BY <2>1 DEF Types, Ram
  <2>3. dev' = initStateVariables(d)
    BY <1>1, <1>4
  <2> HIDE DEF d
  <2>4. dev' = [d EXCEPT !.valid = FALSE, !.got = 0, !.stage = "id",
                         !.reset = FALSE, !.sum = "none"]
    BY <2>3 DEF initStateVariables
  <2>5. dev' \in Ram
    BY <2>1, <2>2, <2>4 DEF Ram
  <2> QED BY <2>2, <2>4, <2>5 DEF Ram
<1>6. /\ cl' \in Relayer /\ cl'.start = "timer" /\ cl'.state = "IDLE"
  <2>1. "IDLE" \in Places
    BY DEF Places
  <2> QED BY <1>1, <1>2, <2>1 DEF Types, Relayer
<1>7. Types'
  BY <1>1, <1>5, <1>6 DEF Types
<1>8. None.t = "none" /\ (\A t : t # "none" => ~Out(t)')
  BY <1>1, <1>2, MessageFields DEF Out
<1>9. PreStart' /\ ~Handing' /\ ~Over' /\ ~Ops({"key"})' /\ ~Ops({"set", "chunk"})'
      /\ ~Ops({"chunk"})'
  BY <1>1, <1>6 DEF PreStart, Handing, Over, Ops
<1>10. Apart' /\ Client'
  BY <1>1, <1>2, <1>6, <1>8 DEF Apart, Client
<1>11. Flash'
  <2>1. New' = New /\ Other' = Other
    BY <1>1, <1>5 DEF New, Other
  <2>2. fw' # <<Op("key", 0)>> /\ fw' # <<Op("run", dev'.app)>>
        /\ fw' # <<Op("set", Other')>> /\ fw' = <<>>
    BY <1>1
  <2> QED BY <1>1, <1>2, <1>3, <1>5, <1>9, <2>1, <2>2 DEF IInv, Flash
<1>12. Transfer'
  <2>1. Fresh'
    BY <1>1, <1>5, <1>9 DEF Fresh, Started
  <2> QED BY <2>1, <1>8 DEF Transfer
<1>13. Opening' /\ Stale'
  BY <1>1, <1>2, <1>5, <1>6 DEF Opening, Stale
<1> QED BY <1>7, <1>10, <1>11, <1>12, <1>13 DEF IInv
-----------------------------------------------------------------------------
(* The invariant *)

LEMMA Starts ==
    ASSUME Init
    PROVE  Types /\ IInv
PROOF
<1>1. /\ link = FALSE /\ up = None /\ tx = Quiet /\ cl = Idle
      /\ wr = [busy |-> FALSE, pend |-> None]
      /\ resume = "start" /\ store = [s \in Stores |-> Orig]
      /\ committed = 1 /\ once = 0 /\ fw = <<Op("key", 0)>> /\ dev = Booted(1, FALSE)
  BY DEF Init, ServerInit, ClientInit
<1>2. 0 \in 0 .. Len(File)
  BY FileParts, OtaLinkAssumption
<1>3. None \in Message /\ None.t = "none"
  BY Messages, MessageFields
<1>4. /\ dev \in Ram /\ dev.app = 1 /\ dev.cs = 0 /\ ~dev.busy /\ ~dev.closing
  <2>1. /\ "PRE_FAIL" \in Modes /\ "id" \in Steps /\ 0 \in Nat
        /\ 0 \in Stores \cup {0} /\ 1 \in Stores
    BY DEF Modes, Steps, Stores
  <2>2. dev = [app |-> 1, cs |-> 0, state |-> "PRE_FAIL", stage |-> "id", got |-> 0,
               valid |-> FALSE, reset |-> FALSE, upgraded |-> FALSE, last |-> FALSE,
               sum |-> "none", part |-> 0, timer |-> FALSE, field |-> "version",
               trial |-> FALSE, commit_cfm |-> FALSE, busy |-> FALSE, cb |-> FALSE,
               closing |-> FALSE]
    BY <1>1 DEF Booted
  <2>3. dev \in Ram
    BY <2>1, <2>2 DEF Ram
  <2> QED BY <2>2, <2>3
<1>5. cl \in Relayer /\ cl.state = "IDLE" /\ cl.mesh /\ cl.start = "no"
  BY <1>1, <1>2 DEF Idle, Relayer, Places
<1>6. /\ tx \in Queue /\ tx.q = <<>> /\ ~tx.done /\ tx.used = 0 /\ tx.held = None
  <2>1. <<>> \in Seq(Message)
    OBVIOUS
  <2> QED BY <2>1, <1>1, <1>3 DEF Quiet, Queue
<1>7. fw \in Seq(Request) /\ \A i \in 1 .. Len(fw) : fw[i].t = "key"
  <2>1. Op("key", 0) \in Request /\ Op("key", 0).t = "key"
    BY DEF Op, Request, Works
  <2> QED BY <1>1, <2>1
<1>8. Types
  <2>1. store \in [Stores -> Int]
    BY <1>1 DEF Orig
  <2>2. committed \in Stores /\ wr \in [busy : BOOLEAN, pend : Message]
    BY <1>1, <1>3 DEF Stores
  <2> QED BY <1>1, <1>3, <1>4, <1>5, <1>6, <1>7, <2>1, <2>2 DEF Types
<1>9. ~New /\ ~Ops({"set", "chunk"}) /\ ~Ops({"chunk"})
  <2>1. store[dev.app] = Orig
    BY <1>1, <1>4 DEF Stores
  <2> QED BY <2>1, <1>7 DEF New, Ops
<1>10. Apart /\ Client /\ Transfer /\ Opening /\ Stale
  <2>1. wr.busy = FALSE /\ wr.pend = None
    BY <1>1
  <2>2. \A t : t # "none" => ~Out(t)
    BY <1>1, <1>3, <2>1 DEF Out
  <2> QED BY <1>1, <1>3, <1>4, <1>5, <1>6, <2>1, <2>2
          DEF Apart, Client, Transfer, Opening, Stale
<1>11. Flash
  BY <1>1, <1>4, <1>7, <1>9 DEF Flash
<1> QED BY <1>8, <1>10, <1>11 DEF IInv

LEMMA StutterKeeps ==
    ASSUME Types, IInv, UNCHANGED vars
    PROVE  Types' /\ IInv'
PROOF
<1>1. /\ UNCHANGED <<link, up, tx, cl, wr>>
      /\ UNCHANGED <<resume, store, committed, once, fw, dev>>
  BY DEF vars, server, client
<1>2. Types'
  BY <1>1 DEF Types
<1>3. /\ New' = New /\ Other' = Other /\ (\A t : Out(t)' = Out(t))
      /\ (\A K : Ops(K)' = Ops(K)) /\ PreStart' = PreStart /\ Handing' = Handing
      /\ Over' = Over /\ PreCommit' = PreCommit
  BY <1>1 DEF New, Other, Out, Ops, PreStart, Handing, Asking, Over, PreCommit
<1>4. Apart' /\ Client' /\ Flash'
  BY <1>1, <1>3 DEF IInv, Apart, Client, Flash
<1>5. Transfer' /\ Opening' /\ Stale'
  <2>1. Fresh' = Fresh /\ Writing' = Writing /\ Written' = Written /\ GivenUp' = GivenUp
    BY <1>1, <1>3 DEF Fresh, Writing, Written, GivenUp, Started, Beyond
  <2> QED BY <1>1, <1>3, <2>1 DEF IInv, Transfer, Opening, Stale
<1> QED BY <1>2, <1>4, <1>5 DEF IInv

LEMMA StepKeeps ==
    ASSUME Prompt, Types, IInv, [Next]_vars
    PROVE  Types' /\ IInv'
PROOF
<1>1. CASE Serve \/ Relay \/ Begin \/ Confirm
  BY <1>1, ServeKeeps, RelayKeeps, BeginKeeps, ConfirmKeeps
<1>2. CASE Params \/ SendHeld \/ GiveUp \/ Connect
  BY <1>2, ParamsKeeps, SendHeldKeeps, GiveUpKeeps, ConnectKeeps
<1>3. CASE FirmwareFault \/ UserAborts \/ UserDeclines
  BY <1>3, FaultKeeps, UserKeeps
<1>4. CASE Ends
  BY <1>4, EndsKeeps
<1>5. CASE UNCHANGED vars
  BY <1>5, StutterKeeps
<1> QED BY <1>1, <1>2, <1>3, <1>4, <1>5 DEF Next, System, Ends, Unasked

(***************************************************************************)
(* The order in which commands and confirmations can come, of which the    *)
(* properties below are consequences.                                      *)
(***************************************************************************)
THEOREM UpgradeInOrder ==
    ASSUME Prompt
    PROVE  Spec => [](Types /\ IInv)
PROOF
<1>1. Init => Types /\ IInv
  BY Starts
<1>2. (Types /\ IInv) /\ [Next]_vars => (Types /\ IInv)'
  BY StepKeeps
<1> QED BY <1>1, <1>2, PTL DEF Spec

(***************************************************************************)
(* The store the configuration store boots from always holds a whole       *)
(* image: a transfer erases and writes the other one only, and RUN_APP is  *)
(* asked for by a commit of the application that runs.                     *)
(***************************************************************************)
THEOREM BootsWhole ==
    ASSUME Prompt
    PROVE  Spec => []CommittedIsBootable
PROOF
<1>1. Types /\ IInv => CommittedIsBootable
  BY Whole DEF CommittedIsBootable, Complete
<1> QED BY <1>1, UpgradeInOrder, PTL

(***************************************************************************)
(* RunAppOnce is given only an application that was received, written and  *)
(* hashed as a whole: the client confirms a transfer when it has been told *)
(* of a valid signature of this connection.                                *)
(***************************************************************************)
THEOREM TriesVerified ==
    ASSUME Prompt
    PROVE  Spec => []TrialIsVerified
PROOF
<1>1. Types /\ IInv => TrialIsVerified
  BY Whole DEF TrialIsVerified
<1> QED BY <1>1, UpgradeInOrder, PTL

-----------------------------------------------------------------------------
(* The mesh is taken up again, whatever the firmware has yet to do *)

(* Of the types, this needs only that the fields are there. *)
Fields ==
    /\ "busy" \in DOMAIN dev /\ "closing" \in DOMAIN dev
    /\ "state" \in DOMAIN cl /\ "mesh" \in DOMAIN cl

Settled == Fields /\ Apart

(* What the server does with a command. *)
LEMMA ServeFields ==
    ASSUME ServerStep
    PROVE  DOMAIN dev' = DOMAIN dev /\ link' = link /\ link
PROOF
<1>1. DOMAIN Touched = DOMAIN dev
  BY DEF Touched
<1>2. \A d : DOMAIN initStateVariables(d) = DOMAIN d
  BY DEF initStateVariables
<1>3. CASE ConnectReq \/ AckReq
  BY <1>3 DEF ConnectReq, AckReq, Takes, server
<1>4. CASE DisconnectReq \/ SyncReq \/ StartReq \/ StartDataReq
  BY <1>4, <1>1 DEF DisconnectReq, SyncReq, StartReq, StartDataReq, Takes
<1>5. CASE AbortReq
  BY <1>5, <1>1, <1>2 DEF AbortReq, Takes
<1>6. CASE ValidDoneReq \/ TransferCompleteRes \/ InProgressRes \/ CommitCfm
  BY <1>6, <1>1 DEF ValidDoneReq, TransferCompleteRes, InProgressRes, CommitCfm, Takes
<1>7. CASE HostData
  <2> DEFINE T == DOMAIN dev' = DOMAIN dev
  <2>1. \A d, s, n : DOMAIN d = DOMAIN dev /\ Continue(d, s, n) => T
    BY DEF Continue
  <2>2. \A d : DOMAIN d = DOMAIN dev /\ Refuse(d) => T
    BY DEF Refuse
  <2>3. HeaderBody => T
    <3> SUFFICES ASSUME HeaderBody PROVE T
      OBVIOUS
    <3> DEFINE r == [Touched EXCEPT !.field = "version", !.commit_cfm = FALSE]
               d == [Touched EXCEPT !.got = IF dev.got = 0 THEN 1 ELSE 0,
                                    !.field = IF dev.field = "version"
                                              THEN "nvm" ELSE "version"]
    <3>1. DOMAIN r = DOMAIN dev /\ DOMAIN d = DOMAIN dev
      BY <1>1
    <3>2. Refuse(r) \/ dev' = d \/ Continue(d, "unknown", 1)
      BY DEF HeaderBody
    <3> QED BY <3>1, <3>2, <2>1, <2>2
  <2>4. PartitionData => T
    <3> DEFINE ended == dev.got + 1 = Chunks
               d == [Touched EXCEPT !.got = IF ended THEN 0 ELSE @ + 1,
                                    !.last = ended \/ (dev.got # 0 /\ @)]
    <3>1. DOMAIN d = DOMAIN dev
      BY <1>1
    <3>2. PartitionData => Continue(d, IF ended THEN "unknown" ELSE "data", 1)
      BY DEF PartitionData
    <3> HIDE DEF d, ended
    <3> QED BY <3>1, <3>2, <2>1
  <2>5. Signature => T
    <3> DEFINE d == [Touched EXCEPT !.got = @ + 1]
               e == [Touched EXCEPT !.got = @ + 1, !.valid = TRUE]
    <3>1. DOMAIN d = DOMAIN dev /\ DOMAIN e = DOMAIN dev
      BY <1>1
    <3>2. Signature => Refuse(d) \/ dev' = e \/ Continue(d, "sig", 1)
      BY DEF Signature
    <3> HIDE DEF d, e
    <3> QED BY <3>1, <3>2, <2>1, <2>2
  <2> DEFINE a == [Touched EXCEPT !.stage = "len"]
             b == [Touched EXCEPT !.part = getAppStoreToUpgrade,
                                  !.upgraded = TRUE, !.stage = "data"]
             c == [Touched EXCEPT !.got = 0]
  <2>6. DOMAIN a = DOMAIN dev /\ DOMAIN b = DOMAIN dev /\ DOMAIN c = DOMAIN dev
    BY <1>1
  <2>7. \/ dev' \in {Touched, b} \/ Refuse(Touched) \/ Refuse(a)
        \/ \E d \in {Touched, c}, s \in Steps, n \in {1, 2} : Continue(d, s, n)
        \/ HeaderBody \/ PartitionData \/ Signature
    BY <1>7 DEF HostData, Steps
  <2>8. link' = link /\ link
    BY <1>7 DEF HostData, Takes
  <2> HIDE DEF a, b, c
  <2> QED BY <1>1, <2>1, <2>2, <2>3, <2>4, <2>5, <2>6, <2>7, <2>8
<1> QED BY <1>3, <1>4, <1>5, <1>6, <1>7 DEF ServerStep

(* What the client does with a notification. *)
LEMMA RelayFields ==
    ASSUME ClientStep
    PROVE  DOMAIN cl' = DOMAIN cl /\ link' = link /\ link
PROOF
<1>1. link' = link /\ link
  BY DEF ClientStep, Gets, WriteConfirmed, ConnectAck, DisconnectAck, ControlAck,
         SyncCfmGot, StartCfmGot, DataBytesReq, AbortCfm, TransferComplete,
         CommitReq, ErrorWarnInd, CompleteInd, IsValidationDoneCfm
<1>2. \A c : DOMAIN Reset(c) = DOMAIN c
  BY DEF Reset
<1>3. Reject => DOMAIN cl' = DOMAIN cl
  BY DEF Reject, RejectAs
<1>4. \A c, s : DOMAIN c = DOMAIN cl /\ SendData(c, s) => DOMAIN cl' = DOMAIN cl
  BY DEF SendData, RejectAs
<1>5. CASE WriteConfirmed \/ ConnectAck \/ DisconnectAck \/ ErrorWarnInd
  BY <1>5, <1>1, <1>2 DEF WriteConfirmed, ConnectAck, DisconnectAck, ErrorWarnInd, client
<1>6. CASE ControlAck \/ DataBytesReq
  BY <1>6, <1>1, <1>3, <1>4 DEF ControlAck, DataBytesReq, client
<1>7. CASE SyncCfmGot \/ StartCfmGot \/ AbortCfm \/ TransferComplete
  BY <1>7, <1>1, <1>3 DEF SyncCfmGot, StartCfmGot, AbortCfm, TransferComplete
<1>8. CASE CommitReq \/ CompleteInd \/ IsValidationDoneCfm
  BY <1>8, <1>1, <1>3 DEF CommitReq, CompleteInd, IsValidationDoneCfm
<1> QED BY <1>1, <1>5, <1>6, <1>7, <1>8 DEF ClientStep

(* What the firmware does, which may also happen with nobody connected. *)
LEMMA ConfirmFields ==
    ASSUME Confirmed \/ StoreFails, Fields
    PROVE  /\ DOMAIN dev' = DOMAIN dev /\ link' = link /\ up' = up
           /\ dev'.busy = dev.busy /\ dev'.closing = dev.closing
           /\ link \/ tx' = tx
PROOF
<1> DEFINE T == /\ DOMAIN dev' = DOMAIN dev
                /\ dev'.busy = dev.busy /\ dev'.closing = dev.closing
                /\ link \/ tx' = tx
<1>1. KeyRead => T
  BY DEF KeyRead, Fields
<1>2. \A s : StoreIdSet(s) => T
  BY DEF StoreIdSet, Fields
<1>3. \A s : ChunkWritten(s) => T
  BY DEF ChunkWritten
<1>4. \A s : StoreHashed(s) => T
  BY DEF StoreHashed, Fields
<1>5. \A s : AppCommitted(s) => T
  BY DEF AppCommitted, initStateVariables, Fields
<1>6. CASE Confirmed
  BY <1>6, <1>1, <1>2, <1>3, <1>4, <1>5 DEF Confirmed
<1>7. CASE StoreFails
  BY <1>7 DEF StoreFails, Fields
<1> QED BY <1>6, <1>7

LEMMA BootFields ==
    ASSUME NEW trial, Boot(trial)
    PROVE  "busy" \in DOMAIN dev' /\ "closing" \in DOMAIN dev' /\ ~dev'.busy /\ ~dev'.closing
BY DEF Boot, Booted

(* The end of a connection, for whatever reason. *)
LEMMA EndSettles ==
    ASSUME Settled, Ends
    PROVE  Settled'
PROOF
<1> DEFINE D == /\ "busy" \in DOMAIN dev' /\ "closing" \in DOMAIN dev'
                /\ ~dev'.busy /\ ~dev'.closing
           C == /\ "state" \in DOMAIN cl' /\ "mesh" \in DOMAIN cl'
                /\ ~wr'.busy
                /\ cl'.state \in {"IDLE", "WAIT_POST_TRANSFER_RECONNECTION"}
                /\ cl'.mesh \/ cl'.state = "WAIT_POST_TRANSFER_RECONNECTION"
           L == up' = None /\ tx'.q = <<>> /\ ~tx'.done /\ tx'.used = 0
<1>1. D /\ C /\ L => Settled'
  BY DEF Settled, Fields, Apart
<1>2. \A r : LinkDown(r) => L
  BY DEF LinkDown, Quiet
<1>3. ServerDisconnected => D
  BY BootFields DEF ServerDisconnected, Settled, Fields
<1>4. ClientDisconnected => C
  BY DEF ClientDisconnected, Reset, Settled, Fields
<1>5. Restarts => C /\ L
  BY <1>2, <1>4 DEF Restarts, client, Settled, Fields, Apart
<1>6. CASE LinkLost \/ Closed
  BY <1>6, <1>1, <1>2, <1>3, <1>4 DEF LinkLost, Closed, Disconnect
<1>7. CASE ClientPowerCut
  <2>1. C
    BY <1>7 DEF ClientPowerCut, Idle
  <2>2. CASE link
    BY <1>7, <2>2, <2>1, <1>1, <1>2, <1>3 DEF ClientPowerCut
  <2>3. CASE ~link
    BY <1>7, <2>3, <2>1, <1>1 DEF ClientPowerCut, server, Settled, Fields, Apart
  <2> QED BY <2>2, <2>3
<1>8. CASE ServerPowerCut
  BY <1>8, <1>1, <1>5, BootFields DEF ServerPowerCut, PowerCut
<1>9. CASE ServerPanics
  BY <1>9, <1>1, <1>5, BootFields DEF ServerPanics, EraseUnattended, WriteWhileClosing
<1>10. CASE CommitTimesOut
  BY <1>10, <1>1, <1>5, BootFields DEF CommitTimesOut, CommitTimeout
<1> QED BY <1>6, <1>7, <1>8, <1>9, <1>10 DEF Ends, Unasked

LEMMA StepSettles ==
    ASSUME Settled, [Next]_vars
    PROVE  Settled'
PROOF
<1>1. ASSUME DOMAIN dev' = DOMAIN dev, DOMAIN cl' = DOMAIN cl, link'
      PROVE  Settled'
  BY <1>1 DEF Settled, Fields, Apart
<1>2. CASE Serve
  BY <1>2, <1>1, ServeFields DEF Serve, client
<1>3. CASE Relay
  BY <1>3, <1>1, RelayFields DEF Relay, server
<1>4. CASE Confirm \/ FirmwareFault
  <2>1. /\ DOMAIN dev' = DOMAIN dev /\ link' = link /\ up' = up
        /\ dev'.busy = dev.busy /\ dev'.closing = dev.closing
        /\ link \/ tx' = tx
    BY <1>4, ConfirmFields DEF Confirm, FirmwareFault, Settled
  <2>2. cl' = cl /\ wr' = wr
    BY <1>4 DEF Confirm, FirmwareFault, client
  <2> QED BY <2>1, <2>2, <1>1 DEF Settled, Fields, Apart
<1>5. CASE Begin \/ UserAborts
  <2>1. link' = link /\ link /\ dev' = dev
    BY <1>5 DEF Begin, StartUpgrade, UserAborts, server
  <2>2. DOMAIN cl' = DOMAIN cl
    BY <1>5 DEF Begin, StartUpgrade, UserAborts
  <2> QED BY <2>1, <2>2, <1>1
<1>6. CASE Params \/ SendHeld
  <2>1. link' = link /\ link /\ cl' = cl
    BY <1>6 DEF Params, ParamsUpdated, SendHeld, Resend, client
  <2>2. DOMAIN dev' = DOMAIN dev
    BY <1>6 DEF Params, ParamsUpdated, SendHeld, server
  <2> QED BY <2>1, <2>2, <1>1
<1>7. CASE UserDeclines
  <2>1. link
    BY <1>7, MessageFields DEF UserDeclines, Settled, Apart
  <2> QED BY <1>7, <2>1, <1>1 DEF UserDeclines, server, client
<1>8. CASE Connect
  <2>1. DOMAIN dev' = DOMAIN dev /\ DOMAIN cl' = DOMAIN cl
    BY <1>8 DEF Connect, ServerConnected, ClientConnected, initStateVariables
  <2> QED BY <1>8, <2>1, <1>1 DEF Connect
<1>9. CASE GiveUp
  BY <1>9 DEF GiveUp, ReconnectionFails, Reset, server, Settled, Fields, Apart
<1>10. CASE Ends
  BY <1>10, EndSettles
<1>11. CASE UNCHANGED vars
  BY <1>11 DEF vars, server, client, Settled, Fields, Apart
<1> QED BY <1>2, <1>3, <1>4, <1>5, <1>6, <1>7, <1>8, <1>9, <1>10, <1>11
        DEF Next, System, Ends, Unasked

(***************************************************************************)
(* However a connection ends, both hubs take up the mesh again, unless the *)
(* client waits for the trial boot.  This needs nothing of the order of    *)
(* commands, and no prompt firmware.                                       *)
(***************************************************************************)
THEOREM MeshResumes == Spec => []MeshRunsWhenApart
PROOF
<1>1. Init => Settled
  BY DEF Init, ServerInit, ClientInit, Booted, Idle, Quiet, Settled, Fields, Apart
<1>2. Settled /\ [Next]_vars => Settled'
  BY StepSettles
<1>3. Settled => MeshRunsWhenApart
  BY DEF Settled, Apart, MeshRunsWhenApart
<1> QED BY <1>1, <1>2, <1>3, PTL DEF Spec

-----------------------------------------------------------------------------
(* The two stores implement the two stages *)

LEMMA ServeRuns ==
    ASSUME Types, IInv, Serve
    PROVE  dev'.app = dev.app /\ UNCHANGED <<store, committed>>
PROOF
<1>1. ServerStep
  BY DEF Serve
<1>2. dev \in Ram /\ Touched \in Ram /\ Touched.app = dev.app
  BY TouchedFields DEF Types
<1>3. CASE ConnectReq \/ AckReq
  BY <1>3 DEF ConnectReq, AckReq, server
<1>4. CASE DisconnectReq
  BY <1>2, <1>4 DEF DisconnectReq, flash, Ram
<1>5. CASE SyncReq
  BY <1>2, <1>5 DEF SyncReq, flash, Ram
<1>6. CASE StartReq \/ ValidDoneReq \/ InProgressRes
  BY <1>2, <1>6 DEF StartReq, ValidDoneReq, InProgressRes, flash
<1>7. CASE StartDataReq
  BY <1>2, <1>7 DEF StartDataReq, flash, Ram
<1>8. CASE HostData
  <2>1. CASE dev.state # "IN_PROGRESS"
    BY <1>2, <1>8, <2>1 DEF HostData, flash
  <2>2. CASE dev.state = "IN_PROGRESS"
    <3>1. UNCHANGED flash
      BY <1>8 DEF HostData
    <3>2. Parsing
      BY <1>8, <2>2, HostParsed DEF Serve
    <3> QED BY <3>1, <3>2 DEF Parsing, flash
  <2> QED BY <2>1, <2>2
<1>9. CASE AbortReq
  <2>1. [Touched EXCEPT !.trial = FALSE].app = dev.app
    BY <1>2 DEF Ram
  <2> QED BY <1>2, <2>1, <1>9 DEF AbortReq, initStateVariables, Ram
<1>10. CASE TransferCompleteRes
  BY <1>2, <1>10 DEF TransferCompleteRes, Ram
<1>11. CASE CommitCfm
  BY <1>2, <1>11 DEF CommitCfm, Ram
<1> QED BY <1>1, <1>3, <1>4, <1>5, <1>6, <1>7, <1>8, <1>9, <1>10, <1>11 DEF ServerStep

LEMMA FirmwareRuns ==
    ASSUME Types, IInv, Confirm
    PROVE  /\ dev'.app = dev.app
           /\ \/ /\ committed' = committed /\ store'[dev.app] = store[dev.app]
                 /\ store'[committed] = store[committed]
              \/ committed' = dev.app /\ store' = store /\ New
PROOF
<1> DEFINE op == Head(fw)
<1>1. fw # <<>> /\ 1 \in 1 .. Len(fw) /\ op = fw[1] /\ dev \in Ram
  BY ConfirmCases DEF Types
<1>2. CASE op.t = "key"
  <2>1. KeyRead
    BY <1>2, ConfirmCases
  <2> QED BY <1>1, <2>1 DEF KeyRead, Ram
<1>3. CASE op.t = "set"
  <2>1. StoreIdSet(op.s) /\ op.s = Other /\ dev.app = committed
    BY <1>1, <1>3, ConfirmCases, Whole
  <2>2. store' = [store EXCEPT ![Other] = 0] /\ committed' = committed
    BY <2>1 DEF StoreIdSet
  <2>3. dev' = [dev EXCEPT !.cs = dev.app] \/ dev' = dev
    BY <2>1 DEF StoreIdSet
  <2>4. dev'.app = dev.app /\ Other # dev.app /\ dev.app \in Stores
    BY <1>1, <2>3, Requests DEF Ram
  <2> QED BY <2>1, <2>2, <2>4 DEF Types
<1>4. CASE op.t = "chunk"
  <2>1. ChunkWritten(op.s)
    BY <1>4, ConfirmCases
  <2>2. op.s = Other /\ dev.app = committed
    <3>1. CASE New
      <4>1. fw \in {<<>>, <<Op("key", 0)>>, <<Op("run", dev.app)>>, <<Op("set", Other)>>}
        BY <3>1 DEF IInv, Flash
      <4> QED BY <4>1, <1>1, <1>4, Requests
    <3>2. CASE ~New
      BY <3>2, <1>1, <1>4 DEF IInv, Flash
    <3> QED BY <3>1, <3>2
  <2>3. /\ store' = [store EXCEPT ![Other] = @ + 1] /\ committed' = committed /\ dev' = dev
        /\ Other # dev.app /\ dev.app \in Stores
    BY <2>1, <2>2, Requests DEF ChunkWritten
  <2> QED BY <2>2, <2>3 DEF Types
<1>5. CASE op.t = "hash"
  <2>1. StoreHashed(op.s)
    BY <1>5, ConfirmCases
  <2> QED BY <1>1, <2>1 DEF StoreHashed, Ram
<1>6. CASE op.t = "run"
  <2>1. AppCommitted(op.s)
    BY <1>6, ConfirmCases
  <2>2. New /\ op.s = dev.app
    <3>1. CASE New
      <4>1. fw \in {<<>>, <<Op("key", 0)>>, <<Op("run", dev.app)>>, <<Op("set", Other)>>}
        BY <3>1 DEF IInv, Flash
      <4> QED BY <3>1, <4>1, <1>1, <1>6, Requests
    <3>2. CASE ~New
      BY <3>2, <1>1, <1>6 DEF IInv, Flash
    <3> QED BY <3>1, <3>2
  <2> QED BY <1>1, <2>1, <2>2 DEF AppCommitted, initStateVariables, Ram
<1> QED BY <1>2, <1>3, <1>4, <1>5, <1>6, ConfirmCases

LEMMA OthersRun ==
    ASSUME Types, IInv,
           \/ Relay \/ Begin \/ Params \/ SendHeld \/ GiveUp \/ Connect
           \/ FirmwareFault \/ UserAborts \/ UserDeclines \/ UNCHANGED vars
    PROVE  dev'.app = dev.app /\ UNCHANGED <<store, committed>>
PROOF
<1>1. dev \in Ram
  BY DEF Types
<1>2. CASE Relay \/ Begin \/ SendHeld \/ GiveUp \/ UserAborts \/ UserDeclines
           \/ UNCHANGED vars
  BY <1>2 DEF Relay, Begin, SendHeld, GiveUp, UserAborts, UserDeclines, vars, server
<1>3. CASE Params
  BY <1>1, <1>3 DEF Params, ParamsUpdated, flash, Ram
<1>4. CASE Connect
  BY <1>1, <1>4 DEF Connect, ServerConnected, initStateVariables, flash, Ram
<1>5. CASE FirmwareFault
  <2>1. UNCHANGED flash
    BY <1>5 DEF FirmwareFault, StoreFails
  <2>2. dev'.app = dev.app
    BY <1>1, <1>5 DEF FirmwareFault, StoreFails, Ram
  <2> QED BY <2>1, <2>2 DEF flash
<1> QED BY <1>2, <1>3, <1>4, <1>5

LEMMA StepRefines ==
    ASSUME Types, IInv, [Next]_vars
    PROVE  [Stages!Next]_<<ImageOf(dev.app), ImageOf(committed)>>
PROOF
<1>1. CASE Serve
  <2>1. dev'.app = dev.app /\ UNCHANGED <<store, committed>>
    BY <1>1, ServeRuns
  <2> QED BY <2>1 DEF ImageOf
<1>2. CASE \/ Relay \/ Begin \/ Params \/ SendHeld \/ GiveUp \/ Connect
           \/ FirmwareFault \/ UserAborts \/ UserDeclines \/ UNCHANGED vars
  <2>1. dev'.app = dev.app /\ UNCHANGED <<store, committed>>
    BY <1>2, OthersRun
  <2> QED BY <2>1 DEF ImageOf
<1>3. CASE Confirm
  <2>1. CASE /\ committed' = committed /\ store'[dev.app] = store[dev.app]
             /\ store'[committed] = store[committed]
    BY <1>3, <2>1, FirmwareRuns DEF ImageOf
  <2>2. CASE committed' = dev.app /\ store' = store /\ New
    <3>1. dev'.app = dev.app
      BY <1>3, FirmwareRuns
    <3>2. /\ ImageOf(dev.app) = "new" /\ ImageOf(committed)' = "new"
          /\ ImageOf(dev.app)' = ImageOf(dev.app)
      BY <2>2, <3>1 DEF New, ImageOf
    <3> QED BY <3>2 DEF Stages!Next, Stages!Commit
  <2> QED BY <1>3, <2>1, <2>2, FirmwareRuns
<1>4. CASE Ends
  <2>1. Restarted
    BY <1>4, EndsKeeps
  <2>2. ImageOf(committed)' = ImageOf(committed)
    BY <2>1 DEF Restarted, ImageOf
  <2>3. CASE dev'.app = dev.app /\ store' = store
    BY <2>2, <2>3 DEF ImageOf
  <2>4. CASE dev'.app = committed
    <3>1. ImageOf(dev.app)' = ImageOf(committed)
      BY <2>1, <2>4 DEF Restarted, ImageOf
    <3> QED BY <2>2, <3>1 DEF Stages!Next, Stages!Restart
  <2>5. CASE store[committed] = Orig /\ store'[dev'.app] # Orig
    <3>1. ImageOf(dev.app)' = "new" /\ ImageOf(committed) = "old"
      BY <2>5 DEF ImageOf
    <3> QED BY <2>2, <3>1 DEF Stages!Next, Stages!Try
  <2> QED BY <2>1, <2>3, <2>4, <2>5 DEF Restarted
<1> QED BY <1>1, <1>2, <1>3, <1>4 DEF Next, System, Ends, Unasked

(***************************************************************************)
(* What GaiaOtau does with the two stores, and with the restarts, is the   *)
(* upgrade in two stages: an image is committed only while it runs, and    *)
(* is first run on trial from the old one.                                 *)
(***************************************************************************)
THEOREM ImplementsTwoStages ==
    ASSUME Prompt
    PROVE  Spec => TwoStageSpec
PROOF
<1>1. Init => Stages!Init
  <2> SUFFICES ASSUME Init PROVE Stages!Init
    OBVIOUS
  <2>1. /\ dev.app = 1 /\ committed = 1 /\ store[1] = Orig
    BY DEF Init, ServerInit, Booted, Stores
  <2> QED BY <2>1 DEF Stages!Init, ImageOf
<1>2. (Types /\ IInv) /\ [Next]_vars
        => [Stages!Next]_<<ImageOf(dev.app), ImageOf(committed)>>
  BY StepRefines
<1> QED BY <1>1, <1>2, UpgradeInOrder, PTL DEF Spec, TwoStageSpec, Stages!Spec
=============================================================================
