------------------------------ MODULE MCAgent -------------------------------
(***************************************************************************)
(* The agent itself: the worker thread of the metadata exchange, transfer  *)
(* requests and the remote metadata they use, the registry of local        *)
(* memory, the resolution of descriptor lists against it and the merging   *)
(* of index lists.  They share no state, so each is explored by itself,    *)
(* the others at rest.                                                     *)
(***************************************************************************)
EXTENDS MetadataWorker, AgentXfer, Populate, TLC

CONSTANTS b1, b2, i1, i2,
          Parts,           \* what to explore
          RegistryLists    \* what registerMem and deregisterMem are called with

VARIABLES
    part,
    keys, local, selfKeys, self, next, registered, faults, blob, peerHas,   \* AgentRegistry
    side, idx, skip, pair, lrun, rrun, dense, chunk, ldescs, rdescs, total, merge   \* MergeIndices

-----------------------------------------------------------------------------
(* Transfers.  getLocalPartialMD may leave the connection info out; b3 is  *)
(* not an engine here.                                                     *)
Blob(info, C, S) == [info |-> info, conns |-> C, secs |-> S]
PartialBlobs ==
    { Blob(i1, {b1, b2}, {b1}), Blob(i1, {}, {b2}), Blob(i2, {b2}, {b2}), Blob(i2, {}, {b1}) }

(* The registry: three ranges, two of them adjacent and one that begins    *)
(* where the first does and spans both.                                    *)
D(dev, addr, len) == [dev |-> dev, addr |-> addr, len |-> len]
PeerLists == {<<D(0, 0, 4)>>, <<D(0, 2, 2), D(0, 0, 2)>>}
PlainLists == {<<D(0, 0, 2)>>, <<D(0, 2, 2), D(0, 0, 2)>>, <<D(0, 0, 4)>>, <<>>}

(* Sections for populate: every start; lengths of zero, one, two and the   *)
(* whole address space of WordMax + 1 bytes.  Up to two entries, and three *)
(* small ones; each its own metadata.                                      *)
Ranges == {D(0, a, l) : a \in Word, l \in {0, 1, 2, WordMax}} \cup {D(1, 1, 3)}
Ascending(vec) == \A k \in 1..(Len(vec) - 1) : ~Less(vec[k + 1], vec[k])
BaseLists ==
    {<<>>} \cup {<<d>> : d \in Ranges} \cup {v \in [1..2 -> Ranges] : Ascending(v)}
    \cup {v \in [1..3 -> {D(0, a, l) : a \in {0, 2, 4}, l \in {1, 2}}] : Ascending(v)}
MCMDs == 1..3
MCBases == {[k \in DOMAIN v |-> [dev |-> v[k].dev, addr |-> v[k].addr, len |-> v[k].len, md |-> k]] :
               v \in BaseLists}

MCQueries ==
    {<<>>}
    \cup [1..2 -> {D(0, a, l) : a \in Word, l \in 0..2} \cup {D(1, 1, 1), D(1, 3, 1)}]
    \cup [1..3 -> {D(0, a, 1) : a \in 0..3}]

StrideRun(addr, len, step, count) ==
    [dev |-> 0, addr |-> addr, len |-> len, stride |-> step, count |-> count]
AllRuns == {StrideRun(a, l, n, c) : a \in Word, l \in 0..2, n \in 0..3, c \in 0..3}
FewRuns == {StrideRun(a, 1, n, 2) : a \in {0, 2, 4}, n \in 1..2} \cup {StrideRun(0, 1, 1, 4)}
MCRunQueries == {<<>>} \cup {<<r>> : r \in AllRuns} \cup [1..2 -> FewRuns]

(* Run lists for the merge, from their shapes: the k-th is at its own      *)
(* place and has its own metadata; starts are contiguous, as populate      *)
(* makes them.                                                             *)
Runs(shapes) ==
    [k \in DOMAIN shapes |->
        [addr |-> 20 * k, len |-> shapes[k].len, stride |-> shapes[k].stride,
         count |-> shapes[k].count, md |-> k,
         start |-> FoldLeftDomain(LAMBDA acc, n : IF n < k THEN acc + shapes[n].count ELSE acc, 0, shapes)]]
Sh(len, step, count) == [len |-> len, stride |-> step, count |-> count]
LocalRuns ==
    {Runs(<<Sh(1, 1, 7)>>), Runs(<<Sh(1, 1, 3), Sh(1, 1, 4)>>), Runs(<<Sh(1, 2, 4), Sh(1, 1, 3)>>),
     Runs(<<Sh(1, 1, 1), Sh(1, 1, 5), Sh(2, 2, 1)>>)}
RemoteRuns ==
    {Runs(<<Sh(1, 1, 7)>>), Runs(<<Sh(1, 1, 5), Sh(1, 1, 2)>>), Runs(<<Sh(1, 3, 7)>>),
     Runs(<<Sh(1, 1, 1), Sh(1, 1, 1), Sh(1, 1, 4), Sh(2, 2, 1)>>)}

(* Every short index list, out-of-range indices included; and long lists   *)
(* that count up, with one jump at any place.                              *)
Pairs(L) == {[local |-> l, remote |-> r] : l \in L, r \in L}
Short == [1..2 -> {-1, 0, 1, 3, 4, 6, 7}]
Jump(n, from, at, to) == [k \in 1..n |-> IF k < at THEN from + k - 1 ELSE to + k - at]
Long == {Jump(7, 0, at, to) : at \in 2..8, to \in 0..1} \cup {Jump(7, f, 8, 0) : f \in {-1, 1}}

(* Handles are interchangeable.                                            *)
Symmetry == Permutations(Handles)
-----------------------------------------------------------------------------
Reg == INSTANCE AgentRegistry WITH
    LocalEngines <- {b1}, RemoteEngines <- Engines, Lists <- RegistryLists, MaxMD <- 3,
    held <- registered, peer <- peerHas

Mrg == INSTANCE MergeIndices WITH
    Sides <- [local : LocalRuns, remote : RemoteRuns], Indices <- Pairs(Short) \cup Pairs(Long),
    ChunkPairs <- 4, WordBits <- 2, IntMax <- 15, i <- pair, status <- merge

registryVars == <<keys, local, selfKeys, self, next, registered, faults, blob, peerHas>>
mergeVars == <<side, idx, skip, pair, lrun, rrun, dense, chunk, ldescs, rdescs, total, merge>>
vars == <<workerVars, xferVars, populateVars, registryVars, mergeVars, part>>

PopulateRests ==
    /\ base = <<>> /\ form = "list" /\ query = <<>> /\ asked = <<>>
    /\ i = 1 /\ s = 0 /\ out = <<>> /\ flat = "run"
    /\ j = 1 /\ t = 0 /\ curRun = NoRun /\ prev = 0 /\ outRuns = <<>> /\ stride = "run"

MergeRests ==
    /\ side = [local |-> <<>>, remote |-> <<>>] /\ idx = [local |-> <<>>, remote |-> <<>>]
    /\ skip = "no" /\ pair = 0 /\ lrun = Mrg!EmptyRun /\ rrun = Mrg!EmptyRun /\ dense = "no"
    /\ chunk = [first |-> 0, end |-> 0] /\ ldescs = <<>> /\ rdescs = <<>> /\ total = 0
    /\ merge = "run"

Init ==
    /\ part \in Parts
    /\ WorkerInit /\ XferInit /\ Reg!Init
    /\ IF part = "populate" THEN PopulateInit ELSE PopulateRests
    /\ IF part = "merge" THEN Mrg!Init ELSE MergeRests

Next ==
    \/ /\ part = "worker" /\ WorkerNext
       /\ UNCHANGED <<xferVars, populateVars, registryVars, mergeVars, part>>
    \/ /\ part = "xfer" /\ XferNext
       /\ UNCHANGED <<workerVars, populateVars, registryVars, mergeVars, part>>
    \/ /\ part = "populate" /\ PopulateNext
       /\ UNCHANGED <<workerVars, xferVars, registryVars, mergeVars, part>>
    \/ /\ part = "registry" /\ Reg!Next
       /\ UNCHANGED <<workerVars, xferVars, populateVars, mergeVars, part>>
    \/ /\ part = "merge" /\ Mrg!Next
       /\ UNCHANGED <<workerVars, xferVars, populateVars, registryVars, part>>

Spec == Init /\ [][Next]_vars
-----------------------------------------------------------------------------
(* The variables of the agent's parts keep their types.                    *)
AgentTypeOK ==
    /\ part = "worker" => WorkerTypeOK
    /\ part = "xfer" => XferTypeOK
    /\ part = "populate" => PopulateTypeOK
    /\ part = "registry" => Reg!TypeOK

(* The registry, the loopback section and a peer that loads what this      *)
(* agent publishes agree: registerMem and deregisterMem neither leak nor   *)
(* give back twice (NothingLeaks), a loopback descriptor is a registered   *)
(* one (SelfIsRegistered), and a load leaves the peer with what the blob   *)
(* says (LoadGivesBlob).                                                   *)
RegistryExact ==
    /\ [](part = "registry" => Reg!NothingLeaks /\ Reg!SelfIsRegistered)
    /\ Reg!LoadGivesBlob

(* A deregisterMem that is refused keeps the loopback descriptors: see     *)
(* AgentRegistry.FailedDeregisterKeeps.                                    *)
FailedDeregisterKeeps == Reg!FailedDeregisterKeeps

(* populate, in its three forms, resolves what it should: it fails only    *)
(* when a descriptor is not covered (FlatComplete), runs expand to the     *)
(* descriptors asked for (RunsSound), and the forms agree (SameAsFlat,     *)
(* RunsSameAsExpanded).                                                    *)
PopulateExact ==
    part = "populate" => FlatComplete /\ RunsSound /\ SameAsFlat /\ RunsSameAsExpanded

(* makeXferReq's merge of two index lists transfers the bytes asked for,   *)
(* in order and in as few descriptors as the runs allow (BytesAsAsked,     *)
(* MergesMaximally), and refuses exactly the invalid pairs (OnlyValidPairs,*)
(* RefusesOnlyInvalid); the probed search finds the run (FindsRun).        *)
MergeExact ==
    /\ [](part = "merge" =>
            Mrg!BytesAsAsked /\ Mrg!OnlyValidPairs /\ Mrg!RefusesOnlyInvalid /\ Mrg!FindsRun)
    /\ Mrg!MergesMaximally
=============================================================================
