---------------------------- MODULE MCDeviceProxy ----------------------------
EXTENDS DeviceProxy

Cfg(ch, th, pe, de, maxPosts, maxReleases, cmds, vs) ==
    [channels |-> ch, threads |-> th, peers |-> pe, depth |-> de, progThread |-> FALSE,
     posts |-> maxPosts, releases |-> maxReleases, cmds |-> cmds, views |-> vs \cup {"l"}]

Desc(a, l) == [agent |-> a, len |-> l, usable |-> TRUE]
Hole == [agent |-> NoAgent, len |-> 0, usable |-> FALSE]
MCViews == [l |-> [remote |-> FALSE, descs |-> <<Desc(NoAgent, 8)>>],
            ra |-> [remote |-> TRUE, descs |-> <<Desc("a", 8), Hole>>],
            rab |-> [remote |-> TRUE, descs |-> <<Desc("a", 8), Desc("b", 8)>>]]

Put(dst, i, size) == [opcode |-> "PUT", src |-> "l", sidx |-> 0, soff |-> 0,
                      dst |-> dst, didx |-> i, doff |-> 0, size |-> size]
PutA == Put("ra", 0, 8)
PutHole == Put("ra", 1, 8)
AddA == [Put("ra", 0, 0) EXCEPT !.opcode = "ATOMIC_ADD"]
PutB == Put("rab", 1, 8)
MCCommands == {Put("rab", 0, 8), PutA, PutB, PutHole, AddA}
CfgA == Cfg(1, 1, 1, 1, 2, 1, {PutA, PutHole, AddA}, {"ra"})
CfgB == Cfg(1, 1, 1, 2, 3, 0, {PutA}, {"ra"})
CfgC == Cfg(1, 2, 2, 1, 2, 0, {Put("rab", 0, 8), PutB}, {"rab"})
CfgD == Cfg(2, 1, 1, 1, 2, 0, {PutA, AddA}, {"ra", "rab"})
MCConfigs == {CfgA, CfgB, CfgC, CfgD}
Symmetry == Permutations(GpuThreads)
==============================================================================
