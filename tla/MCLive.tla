---------------------------- MODULE MCLive ----------------------------
(***************************************************************************)
(* The parts of the agent that wait for somebody: the worker thread,       *)
(* transfer requests, the device proxy, the metrics server and the         *)
(* telemetry's periodic task.  They share no state, so each is explored by *)
(* itself, the others at rest; the fairness of a part is that of its own   *)
(* module.                                                                 *)
(***************************************************************************)
EXTENDS MetadataWorker, AgentXfer, DeviceProxy, MetricsDir, Telemetry

CONSTANTS b1, b2, b3, i1, i2

VARIABLE part

-----------------------------------------------------------------------------
\* A peer with two lives that publishes connection info with its sections.
\* b3 is not an engine here.
Blob(info, C, S) == [info |-> info, conns |-> C, secs |-> S]
SelfContained ==
    {m \in {Blob(info, C, S) : info \in {i1, i2}, C \in {{b1, b2}, {b2, b3}, {b3}},
                               S \in {{b1}, {b2}, {b1, b2}}} : m.secs \subseteq m.conns}

\* The device proxy: two GPU threads on a ring of one slot; a put, a release, a shutdown.
ProxyView(remote, agent) ==
    [remote |-> remote, descs |-> <<[agent |-> agent, len |-> 8, usable |-> TRUE]>>]
MCViews == [l |-> ProxyView(FALSE, NoAgent), ra |-> ProxyView(TRUE, "a")]
MCCommands == {[opcode |-> "PUT", src |-> "l", sidx |-> 0, soff |-> 0,
                dst |-> "ra", didx |-> 0, doff |-> 0, size |-> 8]}
MCConfigs == {[channels |-> 1, threads |-> 1, peers |-> 1, depth |-> 1, progThread |-> FALSE,
               posts |-> 2, releases |-> 1, cmds |-> MCCommands, views |-> {"l", "ra"}]}

\* Metrics: a foreign server holds the port for a while, and process 2 exports nothing.
MCPmScenarios == {[time |-> 1, count |-> 0, flock |-> TRUE, junk |-> FALSE, foreign |-> TRUE,
                   silent |-> {2}, files |-> 2]}
MCSrScenarios == {[cap |-> 2, flock |-> TRUE, old |-> 0, pushes |-> 0, starts |-> 0, opens |-> 0]}
\* Telemetry: a queue of three.
MCTpScenarios == {[cap |-> 3, mask |-> {"count", "xfer_time", "bytes", "dropped"}, calls |-> 2,
                   phases |-> 1]}
-----------------------------------------------------------------------------
vars == <<workerVars, xferVars, pxVars, pmVars, tpVars, srVars, dxVars, part>>

\* The shared ring and the DOCA exporter wait for nobody.
Init ==
    /\ part \in {"worker", "xfer", "px", "pm", "tp"}
    /\ WorkerInit /\ XferInit /\ PxInit /\ PmInit /\ TpInit /\ SrInit /\ DxInit

Wk(A) == part = "worker" /\ A
    /\ UNCHANGED <<xferVars, pxVars, pmVars, tpVars, srVars, dxVars, part>>
Xf(A) == part = "xfer" /\ A
    /\ UNCHANGED <<workerVars, pxVars, pmVars, tpVars, srVars, dxVars, part>>
Px(A) == part = "px" /\ A
    /\ UNCHANGED <<workerVars, xferVars, pmVars, tpVars, srVars, dxVars, part>>
Pm(A) == part = "pm" /\ A
    /\ UNCHANGED <<workerVars, xferVars, pxVars, tpVars, srVars, dxVars, part>>
Tp(A) == part = "tp" /\ A
    /\ UNCHANGED <<workerVars, xferVars, pxVars, pmVars, srVars, dxVars, part>>

Next ==
    \/ Wk(WorkerNext) \/ Xf(XferNext) \/ Px(PxNext) \/ Pm(PmNext) \/ Tp(TpStep)

\* WorkerFairness, XferFairness and so on, each while its part runs.
Fairness ==
    /\ WF_workerVars(Wk(LoopWake \/ PopTask \/ NothingQueued \/ WorkerBegin \/ PollEnd \/ TaskEnd))
    /\ \A c \in Callers :
         /\ WF_workerVars(Wk(Join(c))) /\ WF_workerVars(Wk(WakeIdle(c)))
         /\ SF_workerVars(Wk(InlineBegin(c))) /\ WF_workerVars(Wk(InlineEnd(c)))
    /\ \A h \in Handles :
         /\ WF_xferVars(Xf(EngineEnd(h))) /\ WF_xferVars(Xf(GetXferStatus(h)))
         /\ WF_xferVars(Xf(ReleaseXferReq(h) /\ ~Current(peer[h], gen[h])))
    /\ \A t \in GpuThreads : WF_pxVars(Px(GpuStep(t)))
    /\ \A w \in UNION {0..c.threads - 1 : c \in Configs} :
         /\ WF_pxVars(Px(w \in Workers /\ WorkerStep(w)))
         /\ SF_pxVars(Px(w \in Workers /\ WProgress(w) /\ net' # net))
    /\ WF_pxVars(Px(\E r \in Rings : \E k \in DOMAIN net[r] : NetVisible(r, k)))
    /\ WF_pxVars(Px(AppReturns))
    /\ WF_pmVars(Pm(ForeignLeaves))
    /\ \A p \in PmProcs :
         WF_pmVars(Pm(CoolDown(p))) /\ WF_pmVars(Pm(PmProceeds(p))) /\ WF_pmVars(Pm(SocketCloses(p)))
    /\ \A k \in 1..3 : WF_pmVars(Pm(k \in PmFileIds /\ ExportEvent(k)))
    /\ WF_tpVars(Tp(TpTaskStep))

Spec == Init /\ [][Next]_vars /\ Fairness
-----------------------------------------------------------------------------
(* What was handed over is taken: tasks given to the metadata worker,      *)
(* whose callers return (WorkerAtRest), commands GPU threads gave the      *)
(* device proxy, whose release and shutdown return (PxAtRest), and events  *)
(* given to the telemetry (TpFlushed).  Metrics are served, or nobody is   *)
(* there to serve them (PmServedOrSilent).                                 *)
HandedOver == []<>(WorkerAtRest /\ PxAtRest /\ TpFlushed /\ PmServedOrSilent)
=======================================================================
