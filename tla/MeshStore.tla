------------------------------ MODULE MeshStore ------------------------------
(***************************************************************************)
(* What the hub keeps in non-volatile memory about its place in the mesh,   *)
(* and how it starts from it: the NVM sanity word (nvm_access.c), the        *)
(* persistent items and their defaults (readPersistentStore, AppMeshInit     *)
(* and RemoveAssociation of app_mesh_handler.c), and the mesh events that     *)
(* change them (appProcessMeshEvent of core_mesh_handler.c).                 *)
(*                                                                         *)
(* A handler changes its variables and then writes item after item with      *)
(* Nvm_Write.  No other handler runs before it returns, but the hub may lose *)
(* power between two writes.  An item never written reads as erased flash:   *)
(* its value here is "blank", for the association state that is 0xFFFF, and   *)
(* 0 for the version.                                                       *)
(***************************************************************************)
EXTENDS Integers, Sequences

CONSTANTS
    MaxVersion,       \* bound: versions of the firmware, APP_NVM_VERSION
    MaxRestarts,      \* bound: restarts other than for an update
    BearerCommands    \* values the mesh sets the promiscuous mode to

Bearer == {"promiscuous", "private"}

ASSUME VersionAssumption == MaxVersion \in Nat \ {0} /\ MaxRestarts \in Nat
ASSUME CommandAssumption == BearerCommands \subseteq Bearer

VARIABLES
    nvm,        \* the user store; "network" is the stack's own part of it
    todo,       \* writes the running handler has yet to do
    phase,      \* how far the hub has started
    fresh,      \* g_nvm_fresh, then g_app_nvm_fresh
    ram,        \* g_mesh_handler_data and extension_model_groups
    advert,     \* dev_id_advert_tid is a running timer
    firmware,   \* APP_NVM_VERSION of the firmware installed
    restarts,
    cut         \* history: a restart has cut the start or a handler short

vars == <<nvm, todo, phase, fresh, ram, advert, firmware, restarts, cut>>

Item == {"store", "sanity", "version", "assoc", "uuid", "bearer", "ttl", "groups", "network"}

Zeroed == [assoc |-> "none", bearer |-> "blank", ttl |-> "blank", groups |-> "blank"]

Init ==
    /\ nvm = [i \in Item |-> IF i = "version" THEN 0 ELSE "blank"]
    /\ todo = <<>>
    /\ phase = "opening"
    /\ fresh = FALSE /\ ram = Zeroed /\ advert = FALSE
    /\ firmware = 1 /\ restarts = 0 /\ cut = FALSE

-----------------------------------------------------------------------------
\* Nvm_Write: the next write of the handler that runs.
Nvm_Write ==
    /\ todo # <<>>
    /\ nvm' = [nvm EXCEPT ![todo[1].item] = todo[1].value]
    /\ todo' = Tail(todo)
    /\ UNCHANGED <<phase, fresh, ram, advert, firmware, restarts, cut>>

Write(i, v) == [item |-> i, value |-> v]
Idle        == todo = <<>>

\* initializeSupportedModelGroups writes the fixed groups one by one, and
\* writeSupportedModelGroupsOntoNVM all of them.
WriteGroups == <<Write("groups", "partial"), Write("groups", "default")>>

\* The store is opened or created, and its sanity word checked: if it is not
\* there, nvmReadSanity writes it at once.
NvmProcessEvent ==
    /\ phase = "opening" /\ Idle
    /\ IF nvm["store"] = "blank"
         THEN /\ fresh' = TRUE
              /\ todo' = <<Write("store", "created")>>
              /\ UNCHANGED phase
         ELSE /\ phase' = "reading"
              /\ IF nvm["sanity"] # "magic"
                   THEN fresh' = TRUE /\ todo' = <<Write("sanity", "magic")>>
                   ELSE UNCHANGED <<fresh, todo>>
    /\ UNCHANGED <<nvm, ram, advert, firmware, restarts, cut>>

\* Mutant of WriteDefaults: the version comes first.
WriteVersionFirst == <<Write("version", firmware), Write("bearer", "promiscuous"),
                       Write("ttl", "default")>> \o WriteGroups

\* Defaults of a fresh store, and of one of another version; the version comes last.
WriteFresh    == <<Write("assoc", "none"), Write("uuid", "set"), Write("sanity", "magic")>>
WriteDefaults == <<Write("bearer", "promiscuous"), Write("ttl", "default")>> \o WriteGroups
                 \o <<Write("version", firmware)>>

readPersistentStore ==
    /\ phase = "reading" /\ Idle
    /\ phase' = "starting"
    /\ IF ~fresh /\ nvm["version"] = firmware
         THEN /\ ram' = [ram EXCEPT !.bearer = nvm["bearer"], !.ttl = nvm["ttl"]]
              /\ UNCHANGED todo
         ELSE /\ ram' = [ram EXCEPT !.bearer = "promiscuous", !.ttl = "default"]
              /\ todo' = (IF fresh THEN WriteFresh ELSE <<>>) \o WriteDefaults
    /\ UNCHANGED <<nvm, fresh, advert, firmware, restarts, cut>>

\* The end of readPersistentStore and the rest of AppMeshInit: a hub that is not
\* associated advertises itself, and forgets its network if the store was fresh.
AppMeshInit ==
    /\ phase = "starting" /\ Idle
    /\ phase' = "running"
    /\ ram' = [ram EXCEPT !.groups = nvm["groups"], !.assoc = nvm["assoc"]]
    /\ advert' = (nvm["assoc"] = "none")
    /\ todo' = IF nvm["assoc"] = "none" /\ fresh THEN <<Write("network", "blank")>> ELSE <<>>
    /\ UNCHANGED <<nvm, fresh, firmware, restarts, cut>>

Running == phase = "running" /\ Idle
Stays   == UNCHANGED <<nvm, phase, fresh, firmware, restarts, cut>>

\* Mutant of AssocStarted: it writes the association state to NVM.
AssocStartedStored ==
    /\ Running /\ ram.assoc = "none" /\ advert
    /\ ram' = [ram EXCEPT !.assoc = "started"]
    /\ todo' = <<Write("assoc", "started")>>
    /\ UNCHANGED advert /\ Stays

\* CSR_MESH_ASSOC_STARTED_EVENT, which a hub that advertises itself may get.
AssocStarted ==
    /\ Running /\ ram.assoc = "none" /\ advert
    /\ ram' = [ram EXCEPT !.assoc = "started"]
    /\ UNCHANGED <<todo, advert>> /\ Stays

\* Mutant of AssocComplete: it does not store the promiscuous mode.
AssocCompleteKeepsBearer ==
    /\ Running /\ ram.assoc = "started"
    /\ ram' = [ram EXCEPT !.assoc = "associated", !.bearer = "private"]
    /\ todo' = <<Write("network", "joined"), Write("assoc", "associated")>>
    /\ UNCHANGED advert /\ Stays

\* CSR_MESH_ASSOC_COMPLETE_EVENT: the stack has stored its network before.
AssocComplete ==
    /\ Running /\ ram.assoc = "started"
    /\ ram' = [ram EXCEPT !.assoc = "associated", !.bearer = "private"]
    /\ todo' = <<Write("network", "joined"), Write("assoc", "associated"),
                 Write("bearer", "private")>>
    /\ UNCHANGED advert /\ Stays

\* Mutant of AssocFailed: it does not call InitiateAssociation.
AssocFailedSilently ==
    /\ Running /\ ram.assoc = "started"
    /\ ram' = [ram EXCEPT !.assoc = "none"]
    /\ todo' = <<Write("assoc", "none")>>
    /\ UNCHANGED advert /\ Stays

\* The same event, when the association failed.
AssocFailed ==
    /\ Running /\ ram.assoc = "started"
    /\ ram' = [ram EXCEPT !.assoc = "none"]
    /\ advert' = TRUE
    /\ todo' = <<Write("assoc", "none")>>
    /\ Stays

\* Its timer repeats while the hub is not associated.
deviceIdAdvertTimeoutHandler ==
    /\ Running /\ advert
    /\ advert' = (ram.assoc = "none")
    /\ UNCHANGED <<todo, ram>> /\ Stays

\* Mutants of RemoveAssociation: the groups, or the association state, are not
\* written back; the hub does not advertise itself.
RemoveAssociationKeepsGroups ==
    /\ Running /\ nvm["network"] = "joined" /\ ram.assoc # "none"
    /\ ram' = [assoc |-> "none", bearer |-> "promiscuous", ttl |-> "default", groups |-> "default"]
    /\ advert' = TRUE
    /\ todo' = <<Write("network", "blank"), Write("bearer", "promiscuous"),
                 Write("assoc", "none"), Write("ttl", "default")>>
    /\ Stays

RemoveAssociationKeepsState ==
    /\ Running /\ nvm["network"] = "joined" /\ ram.assoc # "none"
    /\ ram' = [assoc |-> "none", bearer |-> "promiscuous", ttl |-> "default", groups |-> "default"]
    /\ advert' = TRUE
    /\ todo' = <<Write("network", "blank"), Write("bearer", "promiscuous"),
                 Write("ttl", "default")>> \o WriteGroups
    /\ Stays

RemoveAssociationInSilence ==
    /\ Running /\ nvm["network"] = "joined" /\ ram.assoc # "none"
    /\ ram' = [assoc |-> "none", bearer |-> "promiscuous", ttl |-> "default", groups |-> "default"]
    /\ todo' = <<Write("network", "blank"), Write("bearer", "promiscuous"),
                 Write("assoc", "none"), Write("ttl", "default")>> \o WriteGroups
    /\ UNCHANGED advert /\ Stays

\* CSR_MESH_CONFIG_RESET_DEVICE_EVENT, which comes over the network joined.
RemoveAssociation ==
    /\ Running /\ nvm["network"] = "joined" /\ ram.assoc # "none"
    /\ ram' = [assoc |-> "none", bearer |-> "promiscuous", ttl |-> "default", groups |-> "default"]
    /\ advert' = TRUE
    /\ todo' = <<Write("network", "blank"), Write("bearer", "promiscuous"),
                 Write("assoc", "none"), Write("ttl", "default")>> \o WriteGroups
    /\ Stays

\* CSR_MESH_BEARER_STATE_EVENT, CSR_MESH_CONFIG_SET_PARAMS_EVENT and
\* CSR_MESH_GROUP_SET_MODEL_GROUPID_EVENT: the mesh configures the hub.
SetBearer ==
    /\ Running /\ nvm["network"] = "joined"
    /\ \E b \in BearerCommands :
          ram' = [ram EXCEPT !.bearer = b] /\ todo' = <<Write("bearer", b)>>
    /\ UNCHANGED advert /\ Stays

SetTtl ==
    /\ Running /\ nvm["network"] = "joined"
    /\ ram' = [ram EXCEPT !.ttl = "set"] /\ todo' = <<Write("ttl", "set")>>
    /\ UNCHANGED advert /\ Stays

HandleGroupSetMsg ==
    /\ Running /\ nvm["network"] = "joined"
    /\ ram' = [ram EXCEPT !.groups = "assigned"] /\ todo' = <<Write("groups", "assigned")>>
    /\ UNCHANGED advert /\ Stays

\* ProcessRxData: the gateway writes groups of the running hub only.
GatewaySetsGroups ==
    /\ Running
    /\ ram' = [ram EXCEPT !.groups = "gateway"]
    /\ UNCHANGED <<todo, advert>> /\ Stays

-----------------------------------------------------------------------------
Boot == /\ phase' = "opening" /\ todo' = <<>>
        /\ fresh' = FALSE /\ ram' = Zeroed /\ advert' = FALSE
        /\ UNCHANGED nvm

\* The hub restarts: power returns, a panic, a reset command of the gateway.
\* Power may go at any moment, also in the middle of a handler's writes.
Restart ==
    /\ restarts < MaxRestarts
    /\ restarts' = restarts + 1
    /\ cut' = (cut \/ ~Running)
    /\ UNCHANGED firmware
    /\ Boot

\* It restarts with firmware whose persistent items have a new layout.
Update ==
    /\ Running /\ firmware < MaxVersion
    /\ firmware' = firmware + 1
    /\ UNCHANGED <<restarts, cut>>
    /\ Boot

StartUp    == Nvm_Write \/ NvmProcessEvent \/ readPersistentStore \/ AppMeshInit
MeshEvent  == AssocStarted \/ AssocComplete \/ AssocFailed \/ RemoveAssociation
              \/ SetBearer \/ SetTtl \/ HandleGroupSetMsg
Next ==
    \/ StartUp
    \/ MeshEvent
    \/ deviceIdAdvertTimeoutHandler
    \/ GatewaySetsGroups
    \/ Restart \/ Update

Spec == Init /\ [][Next]_vars

\* Handlers run to their end, and the stack reports how an association ended.
FairSpec == Spec /\ WF_vars(StartUp) /\ WF_vars(AssocComplete \/ AssocFailed)

-----------------------------------------------------------------------------
Value(item) ==
    CASE item = "store"   -> {"blank", "created"}
      [] item = "sanity"  -> {"blank", "magic"}
      [] item = "version" -> 0 .. firmware
      [] item = "assoc"   -> {"blank", "none", "associated"}
      [] item = "uuid"    -> {"blank", "set"}
      [] item = "bearer"  -> {"blank"} \union Bearer
      [] item = "ttl"     -> {"blank", "default", "set"}
      [] item = "groups"  -> {"blank", "partial", "default", "assigned"}
      [] item = "network" -> {"blank", "joined"}

\* The type invariant.
TypeOK ==
    /\ \A i \in Item : nvm[i] \in Value(i)
    /\ \A k \in 1 .. Len(todo) : todo[k].item \in Item /\ todo[k].value \in Value(todo[k].item)
    /\ phase \in {"opening", "reading", "starting", "running"}
    /\ fresh \in BOOLEAN /\ advert \in BOOLEAN
    /\ ram.assoc \in {"blank", "none", "started", "associated"}
    /\ ram.bearer \in Value("bearer") /\ ram.ttl \in Value("ttl")
    /\ ram.groups \in Value("groups") \union {"gateway"}
    /\ firmware \in 1 .. MaxVersion /\ restarts \in 0 .. MaxRestarts /\ cut \in BOOLEAN

\* app_mesh_handler.c:708-714: the version is written after all the items that
\* are reset with it.  So wherever a restart cuts the hub short, a store of the
\* firmware's version has them all, and defaults that were cut short are written
\* again.
VersionLast ==
    nvm["version"] = firmware => \A i \in {"bearer", "ttl", "groups"} : nvm[i] # "blank"

\* Between handlers the store holds what the hub runs with, whatever sequence of
\* events, cut-short handlers and restarts led there: a restart then changes
\* nothing.  What the gateway did to the groups is not stored.
StoreHoldsState ==
    Running =>
      /\ ram.assoc = nvm["assoc"] \/ ram.assoc = "started"
      /\ ram.bearer = nvm["bearer"] /\ ram.ttl = nvm["ttl"]
      /\ ram.groups = nvm["groups"] \/ ram.groups = "gateway"

\* A hub that runs unassociated advertises itself, also after a failed
\* association stopped its timer and after any restart.
UnassociatedAdvertises == Running /\ ram.assoc = "none" => advert

\* Unless the start or a handler was cut short, a hub that is associated has a
\* network, and one that is not has none of the groups of an earlier network.
AssociatedHasNetwork == ~cut /\ Running /\ ram.assoc = "associated" => nvm["network"] = "joined"
UnassociatedIsReset  == ~cut /\ Running /\ ram.assoc = "none" => nvm["groups"] # "assigned"

\* And it never stays without a way to get into a network: again and again it
\* is in one, or is up and advertises itself.
StaysReachable == []<>(cut \/ nvm["network"] = "joined" \/ (phase = "running" /\ advert))

\* app_mesh_handler.c:621-626: the sanity word is written after all other items,
\* so that a reset in between does no harm: a hub that runs has them all.
SanityLast == phase = "running" => nvm["assoc"] # "blank" /\ nvm["uuid"] # "blank"
=============================================================================
