------------------------------ MODULE MCNetwork ------------------------------
(***************************************************************************)
(* The invariants of the network engines: rails, posts, handshakes and     *)
(* transfers of libfabric, workers and transfers of UCX, connections and   *)
(* transfers of UCCL, queue pairs, connections, transfers and              *)
(* notifications of GPUNETIO.  These parts share no state, so each is      *)
(* explored by itself, the others at rest.                                 *)
(***************************************************************************)
EXTENDS LibfabricRails, LibfabricHandshake, LibfabricXfer, MpscRing, UcxEngine, UcclEngine,
        GpunetioPeers, GpunetioXfer

CONSTANT Parts     \* what to explore

VARIABLE part

-----------------------------------------------------------------------------
(* Hosts: two packages (2, 3), two host bridges (4, 5) and two PCIe        *)
(* switches (6, 7), with devices 8.. below them.  b2 is the package of     *)
(* bridge 5, s2 the parent of switch 7.                                    *)
HostWith(b2, s2, nics, gpus, link, numa, bw) ==
    LET n    == Len(nics)
        all  == 1..(7 + n + Len(gpus))
        isNic(x) == x \in 8..(7 + n)
        found == AvailableDevices([efa |-> [i \in 1..n |-> 7 + i], tcp |-> <<8>>])
    IN [parent   |-> [x \in all |-> CASE x = 1 -> 0 [] x \in {2, 3} -> 1 [] x = 4 -> 2
                                      [] x = 5 -> b2 [] x = 6 -> 4 [] x = 7 -> s2
                                      [] isNic(x) -> nics[x - 7] [] OTHER -> gpus[x - 7 - n]],
        type     |-> [x \in all |-> CASE x = 1 -> "machine" [] x \in {2, 3} -> "package"
                                      [] x \in {4, 5} -> "host" [] x \in {6, 7} -> "switch"
                                      [] isNic(x) -> "nic" [] OTHER -> "gpu"],
        link     |-> [x \in all |-> IF x \in {6, 7} THEN link[x - 5] ELSE 1],
        bus      |-> [x \in all |-> x],
        devices  |-> found.devices,
        seen     |-> 8..(7 + n),
        line     |-> [x \in all |-> 1],
        numa     |-> [x \in all |-> IF isNic(x) THEN numa[x - 7] ELSE NoNuma],
        nodes    |-> 2,
        near     |-> [x \in {0, 1} |-> <<x, 1 - x>>],
        provider |-> found.provider,
        maxBw    |-> bw]

Places == 4..7

\* Every placement of three NICs, which are walked in every order, and two
\* accelerators.
GroupHosts == {HostWith(b2, s2, nics, <<g, h>>, <<1, 1>>, <<0, 0, 0>>, 1) :
                 b2 \in {2, 3}, s2 \in {5, 6}, g \in Places, h \in {6, 7},
                 nics \in {f \in [1..3 -> Places] : f[1] <= f[2] /\ f[2] <= f[3]}}

\* Five NICs on two switches, which belong to two NUMA nodes or share one.
NumaHosts == {HostWith(3, 5, nics, <<>>, <<l, m>>,
                       [i \in 1..5 |-> IF nics[i] = 6 \/ i = far THEN 0 ELSE 1], bw) :
                 nics \in {f \in [1..5 -> {6, 7}] : \A i \in 1..4 : f[i] <= f[i + 1]},
                 l \in {1, 2}, m \in {1, 3}, far \in {0, 4}, bw \in {0, 2, 3}}

MCHosts == GroupHosts \union NumaHosts
MCRegs(h) == IF Len(h.devices) = 5 THEN 2 ELSE 1
-----------------------------------------------------------------------------
(* Transfers on three rails: mixed sizes and rails, and long batches.      *)
MixedDescs == {[size |-> s, rails |-> r, keys |-> k] :
                 s \in {1, 5}, r \in {<<1>>, <<1, 2>>, <<3, 1, 2>>}, k \in {<<0, 7>>, <<7, 7, 7>>}}
BatchDescs == {[size |-> s, rails |-> r, keys |-> <<0, 7>>] : s \in {1, 5}, r \in {<<1, 2>>, <<3, 1>>}}
MCPosts ==
    {[op |-> op, base |-> b, more |-> m, descs |-> d] :
        op \in {"WRITE", "READ"}, b \in {0, 1}, m \in BOOLEAN,
        d \in UNION {[1..n -> MixedDescs] : n \in 1..2}}
    \union {[op |-> "WRITE", base |-> b, more |-> TRUE, descs |-> d] :
               b \in {0, 1}, d \in [1..5 -> BatchDescs]}
-----------------------------------------------------------------------------
(* UCX engines of every kind.                                              *)
Config(rings, threads, workers, prog, sync, hint) ==
    [rings |-> rings, threads |-> threads, workers |-> workers, prog |-> prog, sync |-> sync,
     mt |-> TRUE, errMode |-> "unset", hint |-> hint, types |-> {"cuda", "ze"}, named |-> FALSE]

MCConfigs == {Config(2, 0, 1, FALSE, "NONE", "auto"),
              [Config(0, 0, 2, FALSE, "STRICT", "auto") EXCEPT !.named = TRUE],
              Config(0, 1, 3, FALSE, "RW", "none"),
              Config(0, 1, 1, TRUE, "NONE", "none"),
              [Config(0, 0, 2, TRUE, "STRICT", "auto") EXCEPT !.types = {"ze"}]}

MCCallers == {<<"caller", 1>>, <<"caller", 2>>}
MCMems == {[id |-> 1, seg |-> "VRAM"], [id |-> 2, seg |-> "DRAM"]}
-----------------------------------------------------------------------------
(* Descriptor lists for GPUNETIO: lengths around the limits, and gaps that *)
(* keep neighbours apart on one side or on both.                           *)
Shapes == {<<len, gap>> : len \in {0, 1, 3, 5}, gap \in {<<0, 0>>, <<1, 0>>, <<1, 1>>}}
Place(shape) ==
    LET D[i \in 1..Len(shape)] ==
          [l |-> (IF i = 1 THEN 0 ELSE D[i - 1].l + D[i - 1].len) + shape[i][2][1],
           r |-> (IF i = 1 THEN 20 ELSE D[i - 1].r + D[i - 1].len) + shape[i][2][2],
           len |-> shape[i][1], lk |-> 1, rk |-> 1]
    IN D
MCStages == {[op |-> op, descs |-> Place(s)] :
                op \in {"read", "write"},
                s \in [1..3 -> Shapes]
                      \union [1..4 -> {<<1, <<0, 0>>>>, <<1, <<0, 1>>>>, <<3, <<1, 0>>>>}]}

\* Who connects to whom: both ways, a common peer, both of these, a third.
MCGraphs == {{<<"a", "b">>, <<"b", "a">>},
             {<<"a", "b">>, <<"a", "c">>, <<"b", "c">>},
             {<<"a", "b">>, <<"b", "a">>, <<"a", "c">>, <<"b", "c">>},
             {<<"a", "b">>, <<"b", "a">>, <<"c", "a">>}}

MCShapes == {[n |-> 3, op |-> "write", notif |-> TRUE], [n |-> 1, op |-> "read", notif |-> FALSE]}

MCQps == <<"data", "write", "notif">>
MCLoads == [a \in {"a", "b"} |-> IF a = "a" THEN 2 ELSE 1]
MCVersions == [x \in HsAgents |-> IF x = "a" THEN {2} ELSE {2, 3}]
-----------------------------------------------------------------------------
vars == <<rmVars, psVars, rpVars, hsVars, lfVars, mpVars, ucVars, uxVars, upVars, ulVars, utVars,
          gsVars, gvVars, gcVars, gxVars, gnVars, part>>

\* One host, transfer, configuration and list, for a part at rest.
OneHost == HostWith(2, 5, <<6>>, <<>>, <<1, 1>>, <<0>>, 1)
OnePost == [op |-> "READ", base |-> 0, more |-> FALSE, descs |-> <<>>]
OneStage == [op |-> "read", descs |-> Place(<<<<1, <<0, 0>>>>>>)]
OneConfig == Config(0, 0, 1, FALSE, "NONE", "none")

Init ==
    /\ part \in Parts
    /\ IF part = "rm" THEN RmInit ELSE RmStart(OneHost)
    /\ IF part = "ps" THEN PsInit ELSE PsStart(OnePost)
    /\ IF part = "uc" THEN UcInit ELSE UcStart(OneConfig)
    /\ IF part = "ul" THEN UlInit ELSE UlStart({})
    /\ IF part = "gs" THEN GsInit ELSE GsStart(OneStage)
    /\ HsInit /\ (part # "hs" => ~hsPt /\ \A x \in HsAgents : hsVer[x] = 2)
    /\ LfInit /\ (part # "lf" => ~lfPt /\ lfPool = 0)
    /\ UxInit /\ (part # "ux" => ~uxSgl /\ uxN = 0)
    /\ RpInit /\ MpInit /\ UpInit /\ UtInit /\ GvInit /\ GcInit /\ GxInit /\ GnInit

Rm(A) == part = "rm" /\ A
    /\ UNCHANGED <<psVars, rpVars, hsVars, lfVars, mpVars, ucVars, uxVars, upVars,
                   ulVars, utVars, gsVars, gvVars, gcVars, gxVars, gnVars, part>>
Ps(A) == part = "ps" /\ A
    /\ UNCHANGED <<rmVars, rpVars, hsVars, lfVars, mpVars, ucVars, uxVars, upVars,
                   ulVars, utVars, gsVars, gvVars, gcVars, gxVars, gnVars, part>>
Rp(A) == part = "rp" /\ A
    /\ UNCHANGED <<rmVars, psVars, hsVars, lfVars, mpVars, ucVars, uxVars, upVars,
                   ulVars, utVars, gsVars, gvVars, gcVars, gxVars, gnVars, part>>
Hs(A) == part = "hs" /\ A
    /\ UNCHANGED <<rmVars, psVars, rpVars, lfVars, mpVars, ucVars, uxVars, upVars,
                   ulVars, utVars, gsVars, gvVars, gcVars, gxVars, gnVars, part>>
Lf(A) == part = "lf" /\ A
    /\ UNCHANGED <<rmVars, psVars, rpVars, hsVars, mpVars, ucVars, uxVars, upVars,
                   ulVars, utVars, gsVars, gvVars, gcVars, gxVars, gnVars, part>>
Mp(A) == part = "mp" /\ A
    /\ UNCHANGED <<rmVars, psVars, rpVars, hsVars, lfVars, ucVars, uxVars, upVars,
                   ulVars, utVars, gsVars, gvVars, gcVars, gxVars, gnVars, part>>
Uc(A) == part = "uc" /\ A
    /\ UNCHANGED <<rmVars, psVars, rpVars, hsVars, lfVars, mpVars, uxVars, upVars,
                   ulVars, utVars, gsVars, gvVars, gcVars, gxVars, gnVars, part>>
Ux(A) == part = "ux" /\ A
    /\ UNCHANGED <<rmVars, psVars, rpVars, hsVars, lfVars, mpVars, ucVars, upVars,
                   ulVars, utVars, gsVars, gvVars, gcVars, gxVars, gnVars, part>>
Up(A) == part = "up" /\ A
    /\ UNCHANGED <<rmVars, psVars, rpVars, hsVars, lfVars, mpVars, ucVars, uxVars,
                   ulVars, utVars, gsVars, gvVars, gcVars, gxVars, gnVars, part>>
Ul(A) == part = "ul" /\ A
    /\ UNCHANGED <<rmVars, psVars, rpVars, hsVars, lfVars, mpVars, ucVars, uxVars,
                   upVars, utVars, gsVars, gvVars, gcVars, gxVars, gnVars, part>>
Ut(A) == part = "ut" /\ A
    /\ UNCHANGED <<rmVars, psVars, rpVars, hsVars, lfVars, mpVars, ucVars, uxVars,
                   upVars, ulVars, gsVars, gvVars, gcVars, gxVars, gnVars, part>>
Gs(A) == part = "gs" /\ A
    /\ UNCHANGED <<rmVars, psVars, rpVars, hsVars, lfVars, mpVars, ucVars, uxVars,
                   upVars, ulVars, utVars, gvVars, gcVars, gxVars, gnVars, part>>
Gv(A) == part = "gv" /\ A
    /\ UNCHANGED <<rmVars, psVars, rpVars, hsVars, lfVars, mpVars, ucVars, uxVars,
                   upVars, ulVars, utVars, gsVars, gcVars, gxVars, gnVars, part>>
Gc(A) == part = "gc" /\ A
    /\ UNCHANGED <<rmVars, psVars, rpVars, hsVars, lfVars, mpVars, ucVars, uxVars,
                   upVars, ulVars, utVars, gsVars, gvVars, gxVars, gnVars, part>>
Gx(A) == part = "gx" /\ A
    /\ UNCHANGED <<rmVars, psVars, rpVars, hsVars, lfVars, mpVars, ucVars, uxVars,
                   upVars, ulVars, utVars, gsVars, gvVars, gcVars, gnVars, part>>
Gn(A) == part = "gn" /\ A
    /\ UNCHANGED <<rmVars, psVars, rpVars, hsVars, lfVars, mpVars, ucVars, uxVars,
                   upVars, ulVars, utVars, gsVars, gvVars, gcVars, gxVars, part>>

Next ==
    \/ Rm(RmNextStep) \/ Ps(PsNext) \/ Rp(RpNext) \/ Hs(HsNext) \/ Lf(LfNext) \/ Mp(MpNext)
    \/ Uc(UcNext) \/ Ux(UxNext) \/ Up(UpNext) \/ Ul(UlNext) \/ Ut(UtNext)
    \/ Gs(GsNext) \/ Gv(GvNext) \/ Gc(GcNext) \/ Gx(GxNext) \/ Gn(GnNext)

Spec == Init /\ [][Next]_vars

\* HsFairness, LfFairness and so on, each while its part runs.
Fairness ==
    /\ \A a \in HsAgents : WF_hsVars(Hs(HsStep(a)))
    /\ WF_lfVars(Lf(LfCaller)) /\ WF_lfVars(Lf(LfProgressThread)) /\ WF_lfVars(Lf(LfProvider))
    /\ WF_lfVars(Lf(LfTargetProgress))
    /\ WF_mpVars(Mp(MpPopStep)) /\ \A p \in MpProducers : WF_mpVars(Mp(MpPushStep(p)))
    /\ WF_uxVars(Ux(TasksReturn)) /\ WF_uxVars(Ux(PostReturns)) /\ WF_uxVars(Ux(UxCheckXfer))
    /\ WF_uxVars(Ux(Land)) /\ WF_uxVars(Ux(CompleteReq))
    /\ \A c \in 1..Max(UxThreads) : WF_uxVars(Ux(c \in Chunks /\ UxThread(c)))
    /\ WF_upVars(Up(UpThreadStep))
    /\ \A a \in UlAgents : WF_ulVars(Ul(UlAgentStep(a))) /\ WF_ulVars(Ul(UlListenerAccepts(a)))
    /\ \A a \in GcAgents : WF_gcVars(Gc(GcClient(a))) /\ WF_gcVars(Gc(GcServer(a)))
    /\ WF_gxVars(Gx(GxKernels)) /\ WF_gxVars(Gx(GxNicRuns)) /\ WF_gxVars(Gx(GxPolls))
    /\ WF_gnVars(Gn(GnSender)) /\ WF_gnVars(Gn(GnReceiver))
    /\ \A c \in GnCallers : WF_gnVars(Gn(SendReturns(c))) /\ WF_gnVars(Gn(GnPostNotif(c)))

FairSpec == Spec /\ Fairness
-----------------------------------------------------------------------------
(* A transfer a network engine reports complete is: every piece of it has  *)
(* reached its place, none is still under way and none has failed, however *)
(* its pieces were spread over rails, threads, queue pairs or chunks       *)
(* (LfSuccessIsComplete, UxSuccessIsLanded, GxSuccessIsComplete).          *)
NetSuccessIsComplete == LfSuccessIsComplete /\ UxSuccessIsLanded /\ GxSuccessIsComplete

(* The peer is notified of a transfer only behind its data, although the   *)
(* notification takes another way than the data (LfNotifAfterData,         *)
(* UxNotifAfterData, GxNotifAfterData), and gets notifications whole, once *)
(* and in order, although buffers are reused and checkXfer is called again *)
(* (GnIntact, UtNotifOnce).                                                *)
NetNotifAfterData ==
    LfNotifAfterData /\ UxNotifAfterData /\ GxNotifAfterData /\ GnIntact /\ UtNotifOnce

(* Two agents that are connected mean each other: a libfabric connection   *)
(* id belongs to the life of the peer that sent it (HsAttributed), the     *)
(* queue pairs two GPUNETIO agents use lead to each other, whichever side  *)
(* started and whatever failed on the way (GcLoadedIsUsable,               *)
(* GcRoutesAgree), and a caller's UCX worker reaches every peer            *)
(* (UcBoundReaches).                                                       *)
NetPeersAgree == HsAttributed /\ GcLoadedIsUsable /\ GcRoutesAgree /\ UcBoundReaches

(* Nothing is shared, used or left behind against its owner: requests of   *)
(* the libfabric pool (RpNoSharing), UCX workers not made for two threads  *)
(* (UcWorkerGuarded), connections UCCL's listener accepted while the       *)
(* engine was being destroyed and registrations a UCCL post names          *)
(* (UlAllClosed, UtPostsLive), slots of GPUNETIO's completion ring and     *)
(* what its queue pairs are built from (GxSlotsOwned, GvNeedsLive,         *)
(* GvNothingLeft).                                                         *)
NetOwned ==
    /\ RpNoSharing /\ UcWorkerGuarded /\ UlAllClosed /\ UtPostsLive
    /\ GxSlotsOwned /\ GvNeedsLive /\ GvNothingLeft

(* What a transfer's descriptors are cut into covers them exactly, fits    *)
(* what the device takes, and is all handed to the device: the posts of    *)
(* libfabric (PsTiled, PsFlushed) and the staged work requests of GPUNETIO *)
(* (GsExact, GsFits).  A registration picks rails it can use, which the    *)
(* progress loop keeps polling, and no network device beside an            *)
(* accelerator is left idle (RmRailsHeld, RmNicsServe).                    *)
PostsExact == PsTiled /\ PsFlushed /\ GsExact /\ GsFits /\ RmRailsHeld /\ RmNicsServe

(* A transfer that is polled ends, in success or failure, whatever fails   *)
(* on the way (LfAtRest, UxAtRest, GxAtRest), and what was handed over is  *)
(* taken: posts in libfabric's ring (MpEmpty), events of a UCX worker      *)
(* whose thread sleeps (UpAtRest) and notifications given to GPUNETIO's    *)
(* kernel (GnAtRest).                                                      *)
NetTransfersEnd == []<>(LfAtRest /\ UxAtRest /\ GxAtRest /\ MpEmpty /\ UpAtRest /\ GnAtRest)

(* Connecting ends: both libfabric agents get the other's handshake        *)
(* (HsCompletes), and UCCL or GPUNETIO agents that connect to each other   *)
(* at the same time do not wait for each other for good (UlAtRest,         *)
(* GcAtRest).                                                              *)
NetConnectsEnd == HsCompletes /\ []<>(UlAtRest /\ GcAtRest)

==============================================================================
