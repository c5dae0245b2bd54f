--------------------------- MODULE LibfabricRails ---------------------------
(***************************************************************************)
(* The libfabric rails: the host's topology, the rail manager that picks   *)
(* rails, how a transfer is posted over them, and the pools of requests and*)
(* buffers of a rail.                                                      *)
(***************************************************************************)
EXTENDS Integers, Sequences, FiniteSets, FiniteSetsExt, SequencesExt

(***************************************************************************)
(* What the libfabric engine learns about its host: the network devices    *)
(* and their PCIe placement, which devices serve which accelerator, and    *)
(* the bandwidths that bound how many rails a DRAM registration uses.      *)
(*                                                                         *)
(* A host t is a record                                                    *)
(*   parent, type  the hwloc tree: node -> parent (0 above the root) and   *)
(*                 "machine", "package", "host" (a bridge whose upstream   *)
(*                 side is the CPU), "switch" (upstream side is PCI),      *)
(*                 "nic", "gpu" or "neuron"                                *)
(*   link, bus     upstream link speed (Gbps) and bus of a PCI node        *)
(*   devices       the provider's devices, in the order fi_getinfo gives   *)
(*   seen          those with a PCIe address hwloc also knows              *)
(*   line, numa    a device's line speed and its NUMA node                 *)
(*   nodes         number of configured NUMA nodes                         *)
(*   near          NUMA node -> all nodes, sorted by distance              *)
(*   provider      the provider chosen                                     *)
(*   maxBw         the user's max_bw_per_dram_seg, 0 when absent           *)
(* Bus order is node order, so devices sort by number.                     *)
(***************************************************************************)

\* INVALID_NUMA_NODE_ID, and the key of a device with no parent switch.
NoNuma == 99
NoSwitch == 0

----------------------------------------------------------------------------
(* Discovery.                                                              *)

\* getAvailableNetworkDevices, with the provider preference; offers maps a provider to its devices.
AvailableDevices(offers) ==
    LET has(p) == p \in DOMAIN offers
    IN CASE has("cxi")     -> [provider |-> "cxi", devices |-> offers["cxi"]]
         [] has("efa")     -> [provider |-> "efa", devices |-> offers["efa"]]
         [] has("tcp")     -> [provider |-> "tcp", devices |-> <<offers["tcp"][1]>>]
         [] has("sockets") -> [provider |-> "sockets", devices |-> <<offers["sockets"][1]>>]
         [] OTHER          -> [provider |-> "none", devices |-> <<>>]

\* A node and its hwloc ancestors, upwards.
UpPath(t, n) ==
    LET path[x \in DOMAIN t.parent] == IF t.parent[x] = 0 THEN <<x>>
                                       ELSE <<x>> \o path[t.parent[x]]
    IN path[n]

Above(t, n) == Range(UpPath(t, n))

\* discoverAccelWithHwloc: the accelerators in PCI order. NVIDIA and AMD alike are "gpu".
Accels(t) == SetToSortSeq({n \in DOMAIN t.type : t.type[n] = "gpu"}, <)

\* discoverTopology: the full discovery runs for the efa and cxi providers only.
FullDiscovery(t) == t.provider \in {"efa", "cxi"}

\* buildNicInfoMap
NicInfo(t) == IF FullDiscovery(t) THEN t.seen ELSE {}

\* isPcieSwitch
IsPcieSwitch(t, n) == t.type[n] = "switch"

----------------------------------------------------------------------------
(* groupNicsWithAccel                                                      *)

\* Steps 1 and 2: an accelerator stops at its first ancestor with a NIC below it.
NicSubtree(t) == UNION {Above(t, d) : d \in NicInfo(t)}

StopsAt(t, g) == LET p == UpPath(t, g)
                 IN p[SelectInSeq(p, LAMBDA n : n \in NicSubtree(t))]

NodeAccel(t) == [n \in DOMAIN t.parent |-> SelectSeq(Accels(t), LAMBDA g : StopsAt(t, g) = n)]

SubtreeAccel(t, n) == SelectSeq(Accels(t), LAMBDA g : n \in Above(t, g))

\* findHostRouteNode: the lowest node shared with an accelerator, no higher than the package.
HostRoute(t, nic) ==
    LET p    == UpPath(t, nic)
        top  == SelectInSeq(p, LAMBDA n : t.type[n] \in {"machine", "package"})
        in   == IF top = 0 THEN p
                ELSE SubSeq(p, 1, IF t.type[p[top]] = "package" THEN top ELSE top - 1)
        i    == SelectInSeq(in, LAMBDA n : SubtreeAccel(t, n) # <<>>)
    IN IF i = 0 THEN 0 ELSE in[i]

\* Step 3 for one NIC: it joins the first ancestor where accelerators stop, else the host route,
\* which is then seeded with every accelerator below it.
JoinAncestor(t, acc, nic) ==
    LET p    == UpPath(t, nic)
        i    == SelectInSeq(p, LAMBDA n : acc.accel[n] # <<>>)
        at   == IF i # 0 THEN p[i] ELSE HostRoute(t, nic)
    IN IF at = 0 THEN acc
       ELSE [accel |-> [acc.accel EXCEPT ![at] = IF @ = <<>> THEN SubtreeAccel(t, at) ELSE @],
             nics  |-> [acc.nics EXCEPT ![at] = @ \union {nic}]]

\* Step 4: the NICs of a node are split among its accelerators, or shared when there are fewer.
SplitNics(nics, accels) ==
    LET s     == SetToSortSeq(nics, <)
        k     == Len(accels)
        per   == Len(s) \div k
        extra == Len(s) % k
        from(g) == (g - 1) * per + (IF g - 1 < extra THEN g - 1 ELSE extra)
        size(g) == per + (IF g - 1 < extra THEN 1 ELSE 0)
    IN [g \in 1..k |-> IF Len(s) < k THEN s ELSE SubSeq(s, from(g) + 1, from(g) + size(g))]

\* All steps; order is the iteration order of the node_nics hash map.
NicGroups(t, order) ==
    LET acc == FoldLeft(LAMBDA a, nic : JoinAncestor(t, a, nic),
                        [accel |-> NodeAccel(t), nics |-> [n \in DOMAIN t.parent |-> {}]], order)
        of(n) == LET parts == SplitNics(acc.nics[n], acc.accel[n])
                 IN {[accel |-> acc.accel[n][g], nics |-> parts[g], at |-> n] :
                        g \in {h \in DOMAIN parts : parts[h] # <<>>}}
    IN UNION {of(n) : n \in {m \in DOMAIN t.parent : acc.nics[m] # {}}}

\* buildTopologyAwareGrouping, or the fallback that maps nothing.
Groups(t, order) == IF Accels(t) = <<>> \/ NicInfo(t) = {} THEN {} ELSE NicGroups(t, order)

\* getEfaDevicesForPci: a mapped accelerator's devices, a device asked by its own address (as
\* Neuron memory is), or every device.
EfaDevicesFor(t, groups, pci) ==
    LET mine == {g \in groups : g.accel = pci}
    IN IF mine # {} THEN FlattenSeq(LET s == SetToSortSeq(mine, LAMBDA g, h : g.at < h.at)
                                    IN [i \in DOMAIN s |-> s[i].nics])
       ELSE IF pci \in t.seen THEN <<pci>> ELSE t.devices

\* nicSharesPcieSwitchWithAccel
SharesSwitch(t, groups, nic) ==
    \E g \in groups : nic \in Range(g.nics) /\ IsPcieSwitch(t, g.at)

----------------------------------------------------------------------------
(* Bandwidths.                                                             *)

\* getPcieDevParentSwitchData: the topmost PCIe bridge with a known link speed.
ParentSwitch(t, nic) ==
    LET s == SelectSeq(UpPath(t, nic), LAMBDA n : t.type[n] = "switch" /\ t.link[n] # 0)
    IN IF s = <<>> THEN NoSwitch ELSE Last(s)

SwitchBus(t, nic) == IF ParentSwitch(t, nic) = NoSwitch THEN NoSwitch
                     ELSE t.bus[ParentSwitch(t, nic)]
SwitchSpeed(t, nic) == IF ParentSwitch(t, nic) = NoSwitch THEN 0
                       ELSE t.link[ParentSwitch(t, nic)]

\* The average the three calcAvg functions compute (a uniform speed is its own average).
AvgOf(S, Speed(_)) == IF S = {} THEN 0
                      ELSE FoldSet(LAMBDA x, sum : Speed(x) + sum, 0, S) \div Cardinality(S)

\* buildNumaSpeedMap, calcAvgNumaNodeBandwidth: each topmost bus counts once, for the node of the
\* device that reached it first.
LocalNics(t) == {d \in NicInfo(t) : t.numa[d] # NoNuma}
LinkHolders(t) == {d \in LocalNics(t) : /\ SwitchBus(t, d) # NoSwitch
                                        /\ \A e \in LocalNics(t) :
                                              SwitchBus(t, e) = SwitchBus(t, d) => d <= e}
NumaSpeed(t, n) == FoldSet(LAMBDA d, sum : SwitchSpeed(t, d) + sum, 0,
                           {d \in LinkHolders(t) : t.numa[d] = n})
NumaNodes(t) == IF LinkHolders(t) = {} THEN {} ELSE 0..Max({t.numa[d] : d \in LocalNics(t)})

AvgNumaNodeBandwidth(t) == AvgOf(NumaNodes(t), LAMBDA n : NumaSpeed(t, n))
AvgNicBandwidth(t) == AvgOf(NicInfo(t), LAMBDA d : t.line[d])
AvgNicUpstreamBandwidth(t) == AvgOf(NicInfo(t), LAMBDA d : t.link[d])

-----------------------------------------------------------------------------
(***************************************************************************)
(* The rail manager: it loads a host's topology, chooses the policy that   *)
(* picks rails for DRAM, registers memory on the picked rails and counts,  *)
(* per rail, the registrations that keep the rail in the progress loop.    *)
(***************************************************************************)

CONSTANTS RmHosts,    \* the hosts to run on
          RmRegs(_),   \* host -> bound on registrations
          RmFaults     \* bound on failing provider calls

VARIABLES rmHost,     \* the host
          rmGroups,    \* the NIC groups discovery made
          rmPolicy,    \* "none" until loaded, then "all" or "numa"
          rmNext,      \* next_rail_index_ of each switch of the NUMA policy
          rmActive,    \* active_rails_: rail -> count
          rmOpen,      \* provider: rail -> open memory regions
          rmMems,      \* live registrations: id -> rails (a sequence)
          rmPicked,    \* the rails the last registration selected, and for which memory
          rmCount      \* [regs, faults]

rmVars == <<rmHost, rmGroups, rmPolicy, rmNext, rmActive, rmOpen, rmMems, rmPicked, rmCount>>

\* createRails: one rail per device, in device order.
RailsOf(t) == DOMAIN t.devices

----------------------------------------------------------------------------
(* The NUMA policy's tables.                                               *)

\* A device enters the tables with a valid NUMA node; buildNumaDataRails skips the others.
Placed(t, r) == /\ t.devices[r] \in NicInfo(t)
                /\ t.numa[t.devices[r]] < t.nodes

PlacedRails(t) == {r \in RailsOf(t) : Placed(t, r)}

NumaOf(t, r) == t.numa[t.devices[r]]
BusOf(t, r) == SwitchBus(t, t.devices[r])

MaxNuma(t) == Max({NumaOf(t, r) : r \in PlacedRails(t)} \union {0})

\* The switches of a node in order of first appearance, and a switch's rails in rail order.
SwitchesOf(t, n) ==
    LET mine == {r \in PlacedRails(t) : NumaOf(t, r) = n}
        lead == {r \in mine : \A q \in mine : BusOf(t, q) = BusOf(t, r) => r <= q}
        s    == SetToSortSeq(lead, <)
    IN [i \in DOMAIN s |-> SetToSortSeq({r \in mine : BusOf(t, r) = BusOf(t, s[i])}, <)]

\* How many NICs fit on a switch before its link saturates; 0 when a NIC's speed is unknown.
SwitchMax(t, rails) ==
    LET nic == AvgOf(Range(rails), LAMBDA r : t.link[t.devices[r]])
    IN IF nic = 0 THEN 0 ELSE SwitchSpeed(t, t.devices[rails[1]]) \div nic

\* buildNumaDataRails succeeds when every node up to the last used one has usable switches.
NumaLoads(t) ==
    \A n \in 0..MaxNuma(t) : /\ SwitchesOf(t, n) # <<>>
                             /\ \A i \in DOMAIN SwitchesOf(t, n) : SwitchMax(t, SwitchesOf(t, n)[i]) > 0

\* buildNumaDistanceMap sorts the nodes of the tables only.
NodeOrder(t, n) == SelectSeq(t.near[n], LAMBDA m : m <= MaxNuma(t))

\* getDramRailLimit: 0 stands for its failures too.
DramRailLimit(t) ==
    LET nic == AvgNicBandwidth(t)
        up  == AvgNicUpstreamBandwidth(t)
        rec == AvgNumaNodeBandwidth(t)
        bw  == IF t.maxBw < nic THEN nic ELSE t.maxBw
    IN IF Len(t.devices) = 1 THEN 1
       ELSE IF nic = 0 \/ up = 0 \/ rec = 0 THEN 0
       ELSE IF t.maxBw = 0 THEN rec \div up ELSE bw \div nic

\* init: the policy for DRAM registrations.
DramPolicy(t) ==
    LET limit == DramRailLimit(t)
    IN IF /\ NicInfo(t) # {}                \* hasPcieDevices
          /\ limit > 0
          /\ Len(t.devices) > 1
          /\ limit < Cardinality(NicInfo(t))
          /\ NumaLoads(t)
       THEN "numa" ELSE "all"

----------------------------------------------------------------------------
(* Selection.                                                              *)

\* selectSwitchRails: rails of one switch from its rolling index on, within its capacity.
SelectSwitchRails(t, limit, acc, n, i) ==
    LET rails == SwitchesOf(t, n)[i]
        take  == Min({SwitchMax(t, rails), limit - Len(acc.rails), Len(rails)})
        base  == acc.next[n][i] % Len(rails)
    IN [rails |-> acc.rails \o [k \in 1..take |-> rails[1 + ((base + k - 1) % Len(rails))]],
        next  |-> [acc.next EXCEPT ![n][i] = @ + take]]

\* selectExtraSwitchRail: the first rail of the switch not selected yet, if any.
SelectExtraSwitchRail(sel, rails) ==
    LET left == SelectSeq(rails, LAMBDA r : r \notin Range(sel))
    IN IF left = <<>> THEN sel ELSE Append(sel, left[1])

\* selectExtraNodeRails: visits the switches round-robin, as often as rails are missing.
SelectExtraNodeRails(t, limit, sel, n) ==
    LET s == SwitchesOf(t, n)
    IN FoldLeft(LAMBDA a, k : IF Len(a) = limit THEN a
                              ELSE SelectExtraSwitchRail(a, s[1 + ((k - 1) % Len(s))]),
                sel, [k \in 1..(limit - Len(sel)) |-> k])

\* selectNodeRails
SelectNodeRails(t, limit, acc, n) ==
    LET s     == SwitchesOf(t, n)
        count == Len(FlattenSeq(s))
        by    == FoldLeft(LAMBDA a, i : IF Len(a.rails) = limit THEN a
                                        ELSE SelectSwitchRails(t, limit, a, n, i),
                          acc, [i \in DOMAIN s |-> i])
    IN IF limit - Len(acc.rails) >= count
       THEN [acc EXCEPT !.rails = @ \o FlattenSeq(s)]
       ELSE [by EXCEPT !.rails = SelectExtraNodeRails(t, limit, @, n)]

\* selectRails of the NUMA policy for a buffer on node n.
SelectNumaRails(t, next, n) ==
    LET limit == DramRailLimit(t)
    IN FoldLeft(LAMBDA a, m : IF Len(a.rails) = limit THEN a ELSE SelectNodeRails(t, limit, a, m),
                [rails |-> <<>>, next |-> next], NodeOrder(t, n))

AllRails(t) == [r \in RailsOf(t) |-> r]

\* selectRailsForMemory: DRAM falls back to all rails when the buffer's node is unknown; VRAM
\* takes the rails of the devices that serve the accelerator.
SelectDram(t, policy, next, n) ==
    IF policy = "numa" /\ n <= MaxNuma(t) THEN SelectNumaRails(t, next, n)
    ELSE [rails |-> AllRails(t), next |-> next]

SelectVram(t, groups, next, pci) ==
    LET devs == EfaDevicesFor(t, groups, pci)
    IN [rails |-> [i \in DOMAIN devs |-> IndexFirstSubSeq(<<devs[i]>>, t.devices)], next |-> next]

----------------------------------------------------------------------------
RmStart(host) ==
    /\ rmHost = host
    /\ rmGroups = {}
    /\ rmPolicy = "none"
    /\ rmNext = <<>>
    /\ rmActive = [r \in RailsOf(host) |-> 0]
    /\ rmOpen = [r \in RailsOf(host) |-> 0]
    /\ rmMems = <<>>
    /\ rmPicked = [of |-> 0, rails |-> <<>>]
    /\ rmCount = [regs |-> 0, faults |-> 0]

RmInit == \E host \in RmHosts : RmStart(host)

\* Constructor and init: the topology is discovered and the policy loaded. The NICs are grouped
\* in the iteration order of a hash map.
RmLoad ==
    /\ rmPolicy = "none"
    /\ \E order \in SetToSeqs(NicInfo(rmHost)) : rmGroups' = Groups(rmHost, order)
    /\ rmPolicy' = DramPolicy(rmHost)
    /\ rmNext' = IF rmPolicy' = "numa"
                 THEN [n \in 0..MaxNuma(rmHost) |-> [i \in DOMAIN SwitchesOf(rmHost, n) |-> 0]]
                 ELSE <<>>
    /\ UNCHANGED <<rmHost, rmActive, rmOpen, rmMems, rmPicked, rmCount>>

Bump(f, rails, d) == [r \in DOMAIN f |-> f[r] + (IF r \in rails THEN d ELSE 0)]

\* registerMemory on the selected rails: all of them, or it fails at rail k and rolls the earlier
\* ones back; a region the provider does not close stays open and stays counted.
RegisterOn(sel, what) ==
    /\ rmCount.regs < RmRegs(rmHost)
    /\ rmNext' = sel.next
    /\ rmPicked' = [of |-> what, rails |-> sel.rails]
    /\ \/ /\ rmMems' = Append(rmMems, sel.rails)
          /\ rmActive' = Bump(rmActive, Range(sel.rails), 1)
          /\ rmOpen' = Bump(rmOpen, Range(sel.rails), 1)
          /\ rmCount' = [rmCount EXCEPT !.regs = @ + 1]
       \/ \E k \in DOMAIN sel.rails :
            \E stuck \in SUBSET Range(SubSeq(sel.rails, 1, k - 1)) :
               /\ rmCount.faults + 1 + Cardinality(stuck) <= RmFaults
               /\ rmActive' = Bump(rmActive, stuck, 1)
               /\ rmOpen' = Bump(rmOpen, stuck, 1)
               /\ rmCount' = [regs |-> rmCount.regs + 1,
                              faults |-> rmCount.faults + 1 + Cardinality(stuck)]
               /\ UNCHANGED rmMems
    /\ UNCHANGED <<rmHost, rmGroups, rmPolicy>>

RegisterDram(n) ==
    /\ rmPolicy # "none"
    /\ \E sel \in {SelectDram(rmHost, rmPolicy, rmNext, n)} : RegisterOn(sel, NoSwitch)

RegisterVram(pci) ==
    /\ rmPolicy # "none"
    /\ \E sel \in {SelectVram(rmHost, rmGroups, rmNext, pci)} : RegisterOn(sel, pci)

\* decRailActive for the rails the provider closed.
DeregisterMemory(i) ==
    /\ \E stuck \in SUBSET Range(rmMems[i]) :
          LET closed == Range(rmMems[i]) \ stuck
          IN /\ rmCount.faults + Cardinality(stuck) <= RmFaults
             /\ rmActive' = Bump(rmActive, {r \in closed : rmActive[r] > 0}, -1)
             /\ rmOpen' = Bump(rmOpen, closed, -1)
             /\ rmCount' = [rmCount EXCEPT !.faults = @ + Cardinality(stuck)]
    /\ rmMems' = RemoveAt(rmMems, i)
    /\ UNCHANGED <<rmHost, rmGroups, rmPolicy, rmNext, rmPicked>>

RmNextStep ==
    \/ RmLoad
    \/ \E n \in 0..(rmHost.nodes - 1) : RegisterDram(n)
    \/ \E pci \in DOMAIN rmHost.type : rmHost.type[pci] \in {"gpu", "neuron"} /\ RegisterVram(pci)
    \/ \E i \in DOMAIN rmMems : DeregisterMemory(i)

\* progressActiveRails polls rail 0 (here 1) and the active rails.
PolledRails == {1} \union {r \in DOMAIN rmActive : rmActive[r] > 0}

----------------------------------------------------------------------------
\* Whatever the order of NIC, switch and NUMA walks, whatever failed or was rolled back: a
\* registration selects at least one rail and none twice (a second registration on a rail would
\* overwrite the first one's region handle), and the progress loop polls every rail on which a
\* memory region is open (registerMemory, deregisterMemory, selectRailsForMemory).
RmRailsHeld ==
    /\ rmCount.regs > 0 => rmPicked.rails # <<>> /\ IsInjective(rmPicked.rails)
    /\ \A r \in DOMAIN rmOpen : rmActive[r] = rmOpen[r] /\ (rmOpen[r] > 0 => r \in PolledRails)

\* No network device is left idle beside an accelerator: a device with an accelerator below its
\* own package serves some accelerator, in whatever order the devices are walked
\* (groupNicsWithAccel, steps 2 to 4).
RmNicsServe ==
    rmPolicy # "none" /\ Accels(rmHost) # <<>> =>
        \A d \in NicInfo(rmHost) :
            HostRoute(rmHost, d) # 0 => \E g \in rmGroups : d \in Range(g.nics)

-----------------------------------------------------------------------------
(***************************************************************************)
(* How the libfabric engine turns the descriptors of a transfer into posts *)
(* on rails: a large descriptor is striped over its rails, a small one     *)
(* goes to one rail, and consecutive small writes to a rail are posted     *)
(* with FI_MORE, which leaves them unsubmitted until a later post on the   *)
(* same rail rings the doorbell.                                           *)
(***************************************************************************)

CONSTANTS PsRails,    \* number of rails of this agent
          PsInputs,   \* transfers: [op, base, more, descs], descs a sequence of descriptors
                      \* [size, rails, keys]: its rails here, and the remote endpoint keys
          PsBatch,    \* NIXL_LIBFABRIC_FI_MORE_BATCH_SIZE
          PsStripe,   \* striping_threshold_
          PsFaults    \* whether a post may fail

\* Striping gives every rail at least one byte (128 KiB over a handful of rails).
ASSUME PsStripeAssumption == PsStripe >= PsRails /\ PsBatch > 0

NoKey == 0

VARIABLES psIn,      \* the transfer
          psAt,      \* the descriptor the loop is at
          psSince,   \* posts_since_flush
          psPosts,   \* posts made: [desc, rail, ep, off, len, more]
          psHeld,    \* provider: rail -> posts waiting for a doorbell
          psFailed   \* the loop returned an error

psVars == <<psIn, psAt, psSince, psPosts, psHeld, psFailed>>

----------------------------------------------------------------------------
\* railSelectionIndex, counted from 1; desc_idx counts from 0 in the code.
RailSelectionIndex(base, i, batch, count) ==
    1 + ((base + (IF batch THEN (i - 1) \div PsBatch ELSE i - 1)) % count)

\* usesStriping
UsesStriping(size, count) == size >= PsStripe /\ count > 1

\* derive_remote_selected_endpoints: the endpoints that hold a key.
RemoteSelected(keys) == SetToSortSeq({e \in DOMAIN keys : keys[e] # NoKey}, <)

\* batchingRail: the one rail of a descriptor that is not striped, 0 for the others.
BatchingRail(in, i) ==
    LET d == in.descs[i]
    IN IF d.rails = <<>> \/ UsesStriping(d.size, Len(d.rails)) THEN 0
       ELSE d.rails[RailSelectionIndex(in.base, i, TRUE, Len(d.rails))]

\* The batching of FI_MORE is for writes, and off when several threads post.
BatchWrites(in) == in.more /\ in.op = "WRITE"

\* last_desc_idx_per_rail
IsLastOnRail(in, i) ==
    \A j \in (i + 1)..Len(in.descs) : BatchingRail(in, j) # BatchingRail(in, i)

\* Variant: the last write of a rail may wait for another one.
UseFiMoreAlways(in, i, since) ==
    /\ BatchWrites(in)
    /\ BatchingRail(in, i) # 0
    /\ since[BatchingRail(in, i)] # PsBatch - 1

\* useFiMore
UseFiMore(in, i, since) ==
    /\ BatchWrites(in)
    /\ BatchingRail(in, i) # 0
    /\ ~ IsLastOnRail(in, i)
    /\ since[BatchingRail(in, i)] # PsBatch - 1

\* prepareAndSubmitTransfer: one post on one rail, or one chunk per rail, the last taking the
\* remainder. The remote endpoint goes round its own list.
WholePost(in, i, more) ==
    LET d     == in.descs[i]
        eps   == RemoteSelected(d.keys)
        write == in.op = "WRITE"
    IN [desc |-> i, rail |-> d.rails[RailSelectionIndex(in.base, i, write, Len(d.rails))],
        ep |-> eps[RailSelectionIndex(in.base, i, write, Len(eps))],
        off |-> 0, len |-> d.size, more |-> write /\ more]

StripedPosts(in, i) ==
    LET d     == in.descs[i]
        n     == Len(d.rails)
        eps   == RemoteSelected(d.keys)
        chunk == d.size \div n
    IN [k \in 1..n |-> [desc |-> i, rail |-> d.rails[k], ep |-> eps[1 + ((k - 1) % Len(eps))],
                        off |-> (k - 1) * chunk,
                        len |-> chunk + (IF k = n THEN d.size % n ELSE 0), more |-> FALSE]]

PostsOf(in, i, more) ==
    IF UsesStriping(in.descs[i].size, Len(in.descs[i].rails)) THEN StripedPosts(in, i)
    ELSE <<WholePost(in, i, more)>>

----------------------------------------------------------------------------
PsStart(in) ==
    /\ psIn = in
    /\ psAt = 1
    /\ psSince = [r \in 1..PsRails |-> 0]
    /\ psPosts = <<>>
    /\ psHeld = [r \in 1..PsRails |-> 0]
    /\ psFailed = FALSE

PsInit == \E in \in PsInputs : PsStart(in)

\* The provider: a post with FI_MORE waits, one without submits all that wait on its rail.
Ring(held, posts) ==
    FoldLeft(LAMBDA h, p : [h EXCEPT ![p.rail] = IF p.more THEN @ + 1 ELSE 0], held, posts)

\* One turn of postXferDescriptors. A post the provider refuses ends the loop with an error.
PostXferDescriptors ==
    /\ psAt <= Len(psIn.descs)
    /\ ~ psFailed
    /\ \E more \in {UseFiMore(psIn, psAt, psSince)} :
          \E posts \in {PostsOf(psIn, psAt, more)} :
             /\ psSince' = IF BatchWrites(psIn) /\ BatchingRail(psIn, psAt) # 0
                           THEN [psSince EXCEPT ![BatchingRail(psIn, psAt)] =
                                    IF more THEN @ + 1 ELSE 0]
                           ELSE psSince
             /\ \/ /\ psPosts' = psPosts \o posts
                   /\ psHeld' = Ring(psHeld, posts)
                   /\ psAt' = psAt + 1
                   /\ UNCHANGED psFailed
                \/ \E k \in DOMAIN posts :
                     /\ PsFaults
                     /\ psPosts' = psPosts \o SubSeq(posts, 1, k - 1)
                     /\ psHeld' = Ring(psHeld, SubSeq(posts, 1, k - 1))
                     /\ psFailed' = TRUE
                     /\ UNCHANGED psAt
    /\ UNCHANGED psIn

PsNext == PostXferDescriptors

PsDone == psAt > Len(psIn.descs) /\ ~ psFailed

----------------------------------------------------------------------------
\* When every descriptor was posted no rail is left with a write that waits for a doorbell nobody
\* will ring, although the descriptors of a batch may resolve to different rails and striped
\* ones fall in between (postXferDescriptors: "every rail this chunk touches must have its last
\* post flushed, or its batch would never be submitted").
PsFlushed == PsDone => \A r \in 1..PsRails : psHeld[r] = 0

\* The posts of a descriptor tile it, each byte in exactly one post, each on a rail the local
\* buffer is registered on and to a remote endpoint that holds a key for the remote buffer, also
\* when the two sides have different rail counts (prepareAndSubmitTransfer).
PsTiled ==
    PsDone => \A i \in DOMAIN psIn.descs :
        LET mine == SelectSeq(psPosts, LAMBDA p : p.desc = i)
        IN /\ mine # <<>> /\ mine[1].off = 0
           /\ \A k \in DOMAIN mine :
                 /\ mine[k].off + mine[k].len = (IF k = Len(mine) THEN psIn.descs[i].size
                                                 ELSE mine[k + 1].off)
                 /\ mine[k].rail \in Range(psIn.descs[i].rails)
                 /\ psIn.descs[i].keys[mine[k].ep] # NoKey

-----------------------------------------------------------------------------
(***************************************************************************)
(* A rail's pool of control requests. A request owns one buffer of a       *)
(* registered chunk for life; the pool grows by its initial size, with a   *)
(* chunk of its own, when every request is in use. The data pool is the    *)
(* same with no chunks. Threads allocate and release under the pool's      *)
(* lock; a release may come twice (a failed post and its late completion). *)
(***************************************************************************)

CONSTANTS RpSize,     \* initial_pool_size_
          RpMax,      \* bound on the requests of the pool
          RpFaults,   \* bound on chunks the provider does not register
          RpUsers     \* the operations that hold requests

VARIABLES rpReqs,     \* requests_: sequence of [used, owner, chunk, slot]
          rpFree,     \* free_indices_, a stack (top last)
          rpChunks,   \* number of buffer chunks
          rpHeld,     \* user -> index of the request it holds, 0 for none
          rpLost      \* chunks that could not be created

rpVars == <<rpReqs, rpFree, rpChunks, rpHeld, rpLost>>

----------------------------------------------------------------------------
\* initializeBasePool and the buffer assignment of initialize and expandPool: request i of a
\* growth takes slot i of the growth's chunk.
Grow(reqs, chunk) == reqs \o [i \in 1..RpSize |-> [used |-> FALSE, owner |-> 0,
                                                   chunk |-> chunk, slot |-> i]]
NewIndices(reqs) == [i \in 1..RpSize |-> Len(reqs) + i]

RpInit ==
    /\ rpReqs = Grow(<<>>, 1)
    /\ rpFree = NewIndices(<<>>)
    /\ rpChunks = 1
    /\ rpHeld = [u \in RpUsers |-> 0]
    /\ rpLost = 0

\* allocateReq from the free stack.
TakeTop(u, reqs, free) ==
    /\ rpReqs' = [reqs EXCEPT ![Last(free)] = [@ EXCEPT !.used = TRUE, !.owner = u]]
    /\ rpFree' = Front(free)
    /\ rpHeld' = [rpHeld EXCEPT ![u] = Last(free)]

\* allocate, growing the pool first when it is exhausted.
Allocate(u) ==
    /\ rpHeld[u] = 0
    /\ \/ /\ rpFree # <<>>
          /\ TakeTop(u, rpReqs, rpFree)
          /\ UNCHANGED <<rpChunks, rpLost>>
       \/ /\ rpFree = <<>>
          /\ Len(rpReqs) + RpSize <= RpMax
          /\ rpChunks' = rpChunks + 1
          /\ TakeTop(u, Grow(rpReqs, rpChunks + 1), NewIndices(rpReqs))
          /\ UNCHANGED rpLost

\* createBufferChunk fails: the buffer is freed, nothing grows and no request is handed out.
AllocateFails(u) ==
    /\ rpHeld[u] = 0
    /\ rpFree = <<>>
    /\ rpLost < RpFaults
    /\ rpLost' = rpLost + 1
    /\ UNCHANGED <<rpReqs, rpFree, rpChunks, rpHeld>>

\* release: ignored when the request is not in use any more.
Release(i) ==
    IF rpReqs[i].used
    THEN /\ rpReqs' = [rpReqs EXCEPT ![i] = [@ EXCEPT !.used = FALSE, !.owner = 0]]
         /\ rpFree' = Append(rpFree, i)
    ELSE UNCHANGED <<rpReqs, rpFree>>

\* The holder is done with its request.
ReleaseHeld(u) ==
    /\ rpHeld[u] # 0
    /\ Release(rpHeld[u])
    /\ rpHeld' = [rpHeld EXCEPT ![u] = 0]
    /\ UNCHANGED <<rpChunks, rpLost>>

\* A second release of a request that was released and not handed out again.
ReleaseAgain(i) ==
    /\ ~ rpReqs[i].used
    /\ Release(i)
    /\ UNCHANGED <<rpChunks, rpHeld, rpLost>>

RpNext ==
    \/ \E u \in RpUsers : Allocate(u) \/ AllocateFails(u) \/ ReleaseHeld(u)
    \/ \E i \in DOMAIN rpReqs : ReleaseAgain(i)

----------------------------------------------------------------------------
\* However the pool grew and whatever was released twice: the requests in use are exactly those
\* held, no two holders share a request, no two requests share a buffer, and a request is either
\* in use or on the free stack once (allocateReq, release, expandPool).
RpNoSharing ==
    /\ \A u, v \in RpUsers : rpHeld[u] = rpHeld[v] /\ rpHeld[u] # 0 => u = v
    /\ \A u \in RpUsers : rpHeld[u] # 0 => rpReqs[rpHeld[u]].used /\ rpReqs[rpHeld[u]].owner = u
    /\ \A i, j \in DOMAIN rpReqs :
          rpReqs[i].chunk = rpReqs[j].chunk /\ rpReqs[i].slot = rpReqs[j].slot => i = j
    /\ \A i \in DOMAIN rpReqs : /\ rpReqs[i].slot \in 1..RpSize
                                /\ rpReqs[i].chunk \in 1..rpChunks
    /\ IsInjective(rpFree)
    /\ Range(rpFree) = {i \in DOMAIN rpReqs : ~ rpReqs[i].used}
=============================================================================
