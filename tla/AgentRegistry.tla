--------------------------- MODULE AgentRegistry ---------------------------
(***************************************************************************)
(* What an agent registered and what its peers know of it:                 *)
(* nixlLocalSection, the loopback nixlRemoteSection of the agent itself    *)
(* (src/infra/nixl_memory_section.cpp), registerMem, deregisterMem,        *)
(* getLocalMD and getLocalPartialMD (src/core/nixl_agent.cpp), and a peer  *)
(* that loads the metadata blobs.                                          *)
(*                                                                         *)
(* One memory type is modelled: sections of different types never meet.    *)
(* An engine's metadata object is a number, drawn anew by every            *)
(* registerMem of the engine, and stands also for the public blob of that  *)
(* registration (metaBlob) and for its loopback object.                    *)
(***************************************************************************)
EXTENDS Descs

CONSTANTS
    Engines,        \* the created engines that support the memory type
    LocalEngines,   \* those with supportsLocal(): loopback transfers
    RemoteEngines,  \* those with supportsRemote(): published to peers
    Lists,          \* the descriptor lists users register and deregister
    MaxMD           \* bound on the registrations of each engine

VARIABLES
    keys,       \* the engines with an entry in localSection_.sectionMap
    local,      \* the lists in localSection_
    selfKeys,   \* the engines with an entry in remoteSections_[name_]
    self,       \* the lists there
    next,       \* the last metadata object each engine has made
    held,       \* metadata objects the engine holds for the agent
    faults,     \* metadata objects the agent gave back more than once
    blob,       \* a serialized metadata blob on its way
    peer        \* what the peer's section holds per engine

vars == <<keys, local, selfKeys, self, next, held, faults, blob, peer>>

NoLists == [b \in Engines |-> <<>>]
NoBlob == [kind |-> "none"]
MDsOf(vec) == {vec[i].md : i \in DOMAIN vec}

Init ==
    /\ keys = {}
    /\ local = NoLists
    /\ selfKeys = {}
    /\ self = NoLists
    /\ next = [b \in Engines |-> 0]
    /\ held = [b \in Engines |-> {}]
    /\ faults = {}
    /\ blob = NoBlob
    /\ peer = [b \in Engines |-> {}]

-----------------------------------------------------------------------------
(* What engine b returns for the descriptors of list L.                    *)
Registered(b, L) ==
    [i \in DOMAIN L |-> [dev |-> L[i].dev, addr |-> L[i].addr, len |-> L[i].len,
                         md |-> next[b] + i]]

(* The section entries left by registerMem of L, the engines in F failing. *)
(* addDescList makes an entry before it asks the engine, and keeps it when *)
(* the engine fails; loadLocalData refuses an empty list, and the entry    *)
(* made for it is then removed again if nothing else is in it.             *)
KeysAfter(B, F, L) ==
    IF L = <<>>
    THEN (keys \cup B) \ {b \in B \cap LocalEngines : local[b] = <<>>}
    ELSE keys \cup B

(* registerMem on the engines in B.  A failing engine has its earlier      *)
(* registrations of the list rolled back.                                  *)
RegisterMem(L, B, F) ==
    LET ok == B \ F
    IN  /\ L = <<>> => F = {}
        /\ \E ord \in [ok -> UNION {Orders(Registered(b, L)) : b \in Engines}] :
            /\ \A b \in ok : next[b] + Len(L) <= MaxMD /\ ord[b] \in Orders(Registered(b, L))
            /\ keys' = KeysAfter(B, F, L)
            /\ local' = [b \in Engines |-> IF b \in ok THEN AddDescs(local[b], ord[b]) ELSE local[b]]
            /\ self' = [b \in Engines |->
                    IF b \in ok \cap LocalEngines THEN AddDescs(self[b], ord[b]) ELSE self[b]]
            /\ selfKeys' = selfKeys \cup (IF L = <<>> THEN {} ELSE ok \cap LocalEngines)
            /\ next' = [b \in Engines |-> IF b \in ok THEN next[b] + Len(L) ELSE next[b]]
            /\ held' = [b \in Engines |->
                    IF b \in ok THEN held[b] \cup MDsOf(ord[b]) ELSE held[b]]
            /\ UNCHANGED <<faults, blob, peer>>

-----------------------------------------------------------------------------
Indices(vec, L) == [i \in DOMAIN L |-> GetIndex(vec, L[i])]

(* remDescList goes ahead only if every descriptor is there.               *)
AllFound(vec, L) == \A i \in DOMAIN L : GetIndex(vec, L[i]) # NotFound

(* Metadata objects that a list of positions names more than once.         *)
Twice(vec, idx) ==
    {vec[idx[i]].md : i \in {k \in DOMAIN idx : \E j \in DOMAIN idx : j < k /\ idx[j] = idx[k]}}

(* removeLocalData: unload and remove what is found.                       *)
SelfWithout(b, L) ==
    RemDescs(self[b], SelectSeq(Indices(self[b], L), LAMBDA i : i # NotFound))

(* What remDescList gives back, by position.                               *)
Given(b, L) == SelectSeq(Indices(local[b], L), LAMBDA i : i # NotFound)

(* deregisterMem on the engines in B: per engine removeLocalData, then     *)
(* remDescList; a section that becomes empty is erased.                    *)
DeregisterMem(L, B) ==
    LET ok     == {b \in B \cap keys : AllFound(local[b], L)}
        inSelf == B \cap LocalEngines \cap selfKeys
        rest   == [b \in Engines |-> IF b \in ok THEN RemDescs(local[b], Given(b, L)) ELSE local[b]]
    IN  /\ self' = [b \in Engines |-> IF b \in inSelf THEN SelfWithout(b, L) ELSE self[b]]
        /\ selfKeys' = selfKeys \ {b \in inSelf : SelfWithout(b, L) = <<>>}
        /\ local' = rest
        /\ keys' = keys \ {b \in ok : rest[b] = <<>>}
        /\ held' = [b \in Engines |->
                IF b \in ok THEN held[b] \ {local[b][i].md : i \in Range(Given(b, L))} ELSE held[b]]
        /\ faults' = faults \cup UNION {Twice(local[b], Given(b, L)) : b \in ok}
        /\ UNCHANGED <<next, blob, peer>>

-----------------------------------------------------------------------------
(* getLocalMD: every section of an engine that supports remote transfers.  *)
GetLocalMD ==
    /\ blob' = [kind |-> "full", secs |-> [b \in keys \cap RemoteEngines |-> local[b]]]
    /\ UNCHANGED <<keys, local, selfKeys, self, next, held, faults, peer>>

(* getLocalPartialMD of a list: the sections of the chosen engines, cut    *)
(* down to the list; an error if one of them lacks a descriptor.           *)
GetLocalPartialMD(L, B) ==
    LET secs == IF L = <<>> THEN {} ELSE B \cap keys
    IN  /\ \A b \in secs : AllFound(local[b], L)
        /\ \E ord \in [secs -> UNION {Orders([i \in DOMAIN L |-> local[b][GetIndex(local[b], L[i])]])
                                        : b \in secs}] :
            /\ \A b \in secs :
                ord[b] \in Orders([i \in DOMAIN L |-> local[b][GetIndex(local[b], L[i])]])
            /\ blob' = [kind |-> "partial",
                        secs |-> [b \in secs \cap RemoteEngines |-> AddDescs(<<>>, ord[b])]]
        /\ UNCHANGED <<keys, local, selfKeys, self, next, held, faults, peer>>

(* Variant: metadata is not compared with what is known.                   *)
AgreesAlways(b, vec) == TRUE

(* nixlRemoteSection::addDescList: a range known already must come with    *)
(* the metadata it came with before, in this blob or an earlier one.       *)
Agrees(b, vec) ==
    \A i \in DOMAIN vec :
        /\ \A e \in peer[b] : SameRange(e, vec[i]) => e.md = vec[i].md
        /\ \A j \in 1..(i - 1) : SameRange(vec[j], vec[i]) => vec[j].md = vec[i].md

Loadable ==
    \A b \in DOMAIN blob.secs : blob.secs[b] # <<>> /\ Agrees(b, blob.secs[b])

(* What addDescList adds: ranges that are not known yet.                   *)
Added(b, vec) == {vec[i] : i \in {k \in DOMAIN vec : \A e \in peer[b] : ~SameRange(e, vec[k])}}

(* The peer's loadRemoteMD, its engines accepting everything: it merges    *)
(* the blob, or drops all it has of this agent.                            *)
PeerLoads ==
    /\ blob # NoBlob
    /\ \/ /\ Loadable
          /\ peer' = [b \in Engines |->
                IF b \in DOMAIN blob.secs THEN peer[b] \cup Added(b, blob.secs[b]) ELSE peer[b]]
       \/ /\ ~Loadable
          /\ peer' = [b \in Engines |-> {}]
    /\ blob' = NoBlob
    /\ UNCHANGED <<keys, local, selfKeys, self, next, held, faults>>

(* invalidateRemoteMD at the peer.                                         *)
PeerInvalidates ==
    /\ peer' = [b \in Engines |-> {}]
    /\ UNCHANGED <<keys, local, selfKeys, self, next, held, faults, blob>>

Next ==
    \/ \E L \in Lists, B \in SUBSET Engines :
        /\ B # {}
        /\ \/ \E F \in SUBSET B : RegisterMem(L, B, F)
           \/ DeregisterMem(L, B)
           \/ GetLocalPartialMD(L, B)
    \/ GetLocalMD
    \/ PeerLoads
    \/ PeerInvalidates

Spec == Init /\ [][Next]_vars

-----------------------------------------------------------------------------
Sorted(vec) == \A i \in 1..(Len(vec) - 1) : ~Less(vec[i + 1], vec[i])

TypeOK ==
    /\ keys \subseteq Engines
    /\ selfKeys \subseteq LocalEngines
    /\ \A b \in Engines :
        /\ Sorted(local[b]) /\ Sorted(self[b])
        /\ held[b] \subseteq 1..next[b]
        /\ local[b] # <<>> => b \in keys
        /\ self[b] # <<>> <=> b \in selfKeys

(* Whatever lists are registered, deregistered and rolled back, the        *)
(* section of an engine lists exactly the metadata objects the engine      *)
(* still holds, each once, and none was given back twice: nothing leaks    *)
(* and nothing dangles.                                                    *)
NothingLeaks ==
    /\ faults = {}
    /\ \A b \in Engines : MDsOf(local[b]) = held[b] /\ Len(local[b]) = Cardinality(held[b])

(* A loopback descriptor never outlives the registration it was made from. *)
SelfIsRegistered == \A b \in Engines : MDsOf(self[b]) \subseteq MDsOf(local[b])

(* A blob that the peer accepts leaves it with this agent's metadata as it *)
(* was when the blob was made, never with that of an earlier registration  *)
(* of the same range.                                                      *)
LoadGivesBlob ==
    [][PeerLoads /\ Loadable =>
            \A b \in DOMAIN blob.secs : \A i \in DOMAIN blob.secs[b] :
                /\ blob.secs[b][i] \in peer'[b]
                /\ \A e \in peer'[b] :
                    SameRange(e, blob.secs[b][i]) => e = blob.secs[b][i]]_vars

(* nixl_memory_section.cpp, remDescList: "don't deregister anything in     *)
(* case any is missing."  A deregisterMem that finds a descriptor missing  *)
(* on its engine leaves the engine's loopback descriptors alone.           *)
FailedDeregisterKeeps ==
    [][\A b \in LocalEngines :
            (local'[b] = local[b] /\ local[b] # <<>>) => MDsOf(self[b]) \subseteq MDsOf(self'[b])]_vars

=============================================================================
