---------------------------- MODULE DeviceProxy ----------------------------
(***************************************************************************)
(* The device proxy: the pure parts of a submission, then GPU threads,     *)
(* proxy threads, transport and control thread.                            *)
(***************************************************************************)
EXTENDS Integers, Sequences, FiniteSets, SequencesExt

(***************************************************************************)
(* The pure parts of the device proxy: how the rings are shared out among  *)
(* the proxy threads (proxy_config.h), how the configuration is accepted   *)
(* (proxy_config.cpp), and how a GPU-written command becomes a transport   *)
(* submission (proxy_submission.cpp).                                      *)
(*                                                                         *)
(* A memory view is [remote, descs]; a descriptor is [agent, len, usable], *)
(* agent being NoAgent for local memory and for a hole.  A command is      *)
(* [opcode, src, sidx, soff, dst, didx, doff, size] with 0-based indices.  *)
(***************************************************************************)

CONSTANT
    NoAgent   \* the agent of a descriptor that names no remote memory

\* sizeof(uint64_t): what an atomic add touches.
CounterSize == 8

\* proxyConfig: thread_count threads split the rings evenly, as whole
\* channels or as each channel's peers.
EvenThreadSplit(cfg) ==
    /\ cfg.threads # 0 /\ cfg.channels # 0
    /\ IF cfg.threads <= cfg.channels
       THEN cfg.channels % cfg.threads = 0
       ELSE /\ cfg.threads % cfg.channels = 0
            /\ cfg.peers % (cfg.threads \div cfg.channels) = 0

IsPowerOfTwo(n) == \E k \in 0..n : n = 2 ^ k

\* parseProxyConfig once device_proxy=true, and the checks of
\* proxyRuntime::create that repeat them.
ConfigAccepted(cfg) ==
    /\ cfg.channels # 0 /\ cfg.threads # 0 /\ cfg.peers # 0
    /\ cfg.depth # 0 /\ IsPowerOfTwo(cfg.depth)
    /\ ~cfg.progThread
    /\ EvenThreadSplit(cfg)

\* A ring is <<channel, peer>>.
PxRings(cfg) == (0..cfg.channels - 1) \X (0..cfg.peers - 1)

\* Thread w's rings, in the order the thread visits them.
ThreadShare(cfg, w) ==
    IF cfg.threads <= cfg.channels
    THEN LET n == cfg.channels \div cfg.threads
         IN  [i \in 1..n * cfg.peers |->
                <<w * n + (i - 1) \div cfg.peers, (i - 1) % cfg.peers>>]
    ELSE LET per == cfg.threads \div cfg.channels
         IN  [i \in 1..cfg.peers \div per |->
                <<w \div per, (w % per) + (i - 1) * per>>]

RangeFits(desc, off, size) == off <= desc.len /\ size <= desc.len - off

\* The status of lookupDesc for descriptor `idx` of the view at key `v`.
LookupDesc(views, v, idx, off, size, wantRemote) ==
    IF v \notin DOMAIN views THEN "not_found"
    ELSE IF views[v].remote # wantRemote THEN "invalid"
    ELSE IF idx >= Len(views[v].descs) THEN "invalid"
    ELSE LET d == views[v].descs[idx + 1]
         IN  IF d.usable /\ RangeFits(d, off, size) THEN "ok" ELSE "invalid"

TransferSize(c) == IF c.opcode = "PUT" THEN c.size ELSE CounterSize

\* resolveSubmission: the destination is looked up first, then, for a PUT,
\* the source.
ResolveSubmission(views, c) ==
    IF c.opcode \notin {"PUT", "ATOMIC_ADD"} THEN "not_supported"
    ELSE LET d == LookupDesc(views, c.dst, c.didx, c.doff, TransferSize(c), TRUE)
         IN  IF d # "ok" \/ c.opcode # "PUT" THEN d
             ELSE LookupDesc(views, c.src, c.sidx, c.soff, c.size, FALSE)

-----------------------------------------------------------------------------
(***************************************************************************)
(* The device proxy (utils/device/proxy, api/device/gpu/impl/proxy and the *)
(* transport of plugins/ucx/ucx_proxy_engine.cpp): GPU threads write       *)
(* commands into per-(channel, peer) rings, proxy threads on the host turn *)
(* each command into a transport request and publish completions, and the  *)
(* application prepares and releases memory views and shuts the runtime    *)
(* down.  Every access a GPU thread makes to memory it shares with the     *)
(* host is a step of its own, and so is every store with which the host    *)
(* publishes a completion.                                                 *)
(***************************************************************************)

CONSTANTS
    GpuThreads,       \* GPU threads (leaders of the groups that make a call)
    Configs,       \* the configurations tried
    ViewTable,     \* view name -> view
    Commands       \* the commands GPU threads enqueue

ASSUME ProxyAssumption ==
    \A c \in Configs :
        /\ {c.channels, c.threads, c.peers, c.depth} \subseteq Nat
        /\ ConfigAccepted(c)

\* A command names a descriptor of a remote view: what the GPU thread looks
\* up in the device memview.
ASSUME CommandAssumption ==
    \A c \in Commands :
        /\ ViewTable[c.dst].remote
        /\ c.didx \in Nat /\ c.didx + 1 \in DOMAIN ViewTable[c.dst].descs

VARIABLES
    cfg,   \* the accepted configuration
    app,   \* the control thread: [pc, view]
    rt,    \* the runtime: [shutting, shut, stop, req, live, peers]
    ring,  \* ring -> what host and GPU share, and the host's indices
    gpu,   \* GPU thread -> its place in enqueue() or pollXferStatus()
    wrk,   \* proxy thread -> its place in its loop
    net,   \* ring -> the transport's requests, in the order of their posts
    hist,  \* ring -> since the last reset: tickets retired or skipped, first failure
    posts  \* commands enqueued so far (bound)

pxVars == <<cfg, app, rt, ring, gpu, wrk, net, hist, posts>>

Rings == PxRings(cfg)
Workers == 0..cfg.threads - 1
Owned(w) == ThreadShare(cfg, w)
LiveViews == [v \in rt.live |-> ViewTable[v]]

NoCommand == [op |-> 0, cmd |-> CHOOSE c \in Commands : TRUE]
NoRequest == [op |-> 0, status |-> "in_prog"]
FreshRing ==
    [cmds |-> [s \in 0..cfg.depth - 1 |-> NoCommand],
     pidx |-> 0,          \* producer_idx, device memory
     cons |-> 0,          \* consumer_idx, published by the host
     cache |-> 0,         \* consumer_idx_cache, device memory
     submit |-> 0,        \* submit_idx_, host only
     inflight |-> [s \in 0..cfg.depth - 1 |-> NoRequest],
     completed |-> 0, failed |-> 0, status |-> "in_prog"]
IdleThread == [pc |-> "idle", r |-> <<0, 0>>, cmd |-> NoCommand.cmd,
               ticket |-> 0, cached |-> 0, seen |-> 0, st |-> "in_prog"]

NoHistory == [n |-> 0, bad |-> 0, st |-> "ok"]

\* proxyRuntime::create has built and started the runtime.
PxInit ==
    /\ cfg \in Configs    \* with the bounds of the instance: posts, releases,
                       \* cmds, views
    /\ app = [pc |-> "idle", view |-> "none", releases |-> 0]
    /\ rt = [shutting |-> FALSE, shut |-> "RUNNING", stop |-> FALSE,
             req |-> 0, live |-> {}, peers |-> <<>>]
    /\ ring = [r \in Rings |-> FreshRing]
    /\ gpu = [t \in GpuThreads |-> IdleThread]
    /\ wrk = [w \in Workers |-> [pc |-> "top", i |-> 1, gen |-> 0,
                                 acked |-> 0, draining |-> FALSE, skipped |-> FALSE]]
    /\ net = [r \in Rings |-> <<>>]
    /\ hist = [r \in Rings |-> NoHistory]
    /\ posts = 0

-----------------------------------------------------------------------------
(* GPU threads: put() and atomicAdd() end in enqueue(), getXferStatus() in  *)
(* pollXferStatus().                                                        *)

Slot(ticket) == ticket % cfg.depth

\* Variant: the ring is taken for full one command too late.
FullLate(ticket, cidx) == cidx > ticket \/ ticket - cidx > cfg.depth

\* `ticket - consumer_idx >= depth` on unsigned 64-bit integers: a consumer
\* index past the ticket reads as a full ring.
Full(ticket, cidx) == cidx > ticket \/ ticket - cidx >= cfg.depth

\* The peer that nixlProxyDeviceMemViewPeer reads for descriptor `i` of a
\* remote view; a hole has peer 0.
PeerOf(v, i) ==
    LET d == ViewTable[v].descs[i + 1]
    IN  IF d.usable THEN (CHOOSE k \in DOMAIN rt.peers : rt.peers[k] = d.agent) - 1 ELSE 0

\* The shutdown word is read first; once it says SHUTDOWN nothing is claimed.
GEnter(t, c, ch) ==
    /\ gpu[t].pc = "idle" /\ app.pc = "idle" /\ posts < cfg.posts /\ c \in cfg.cmds
    /\ rt.shut = "RUNNING"
    /\ c.dst \in rt.live /\ (c.opcode = "PUT" => c.src \in rt.live)
    /\ gpu' = [gpu EXCEPT ![t] =
         [IdleThread EXCEPT !.pc = "claim", !.cmd = c,
                            !.r = <<ch % cfg.channels, PeerOf(c.dst, c.didx)>>]]
    /\ posts' = posts + 1
    /\ UNCHANGED <<cfg, app, rt, ring, wrk, net, hist>>

GClaim(t) ==
    LET r == gpu[t].r IN
    /\ gpu[t].pc = "claim"
    /\ gpu' = [gpu EXCEPT ![t].pc = "test", ![t].ticket = ring[r].pidx]
    /\ ring' = [ring EXCEPT ![r].pidx = @ + 1]
    /\ UNCHANGED <<cfg, app, rt, wrk, net, hist, posts>>

\* The fast path: room according to the cached consumer index.
GTest(t) ==
    /\ gpu[t].pc = "test"
    /\ gpu' = [gpu EXCEPT ![t].pc =
         IF Full(gpu[t].ticket, ring[gpu[t].r].cache) THEN "full" ELSE "write"]
    /\ UNCHANGED <<cfg, app, rt, ring, wrk, net, hist, posts>>

GRefresh(t) ==
    LET r == gpu[t].r IN
    /\ gpu[t].pc = "full"
    /\ gpu' = [gpu EXCEPT ![t].pc = "recheck", ![t].cached = ring[r].cons]
    /\ ring' = [ring EXCEPT ![r].cache = ring[r].cons]
    /\ UNCHANGED <<cfg, app, rt, wrk, net, hist, posts>>

\* The loop's shutdown check: the ticket is abandoned, never published.
GRecheck(t) ==
    /\ gpu[t].pc = "recheck"
    /\ gpu' = [gpu EXCEPT ![t] =
         IF rt.shut = "SHUTDOWN" THEN IdleThread
         ELSE [@ EXCEPT !.pc = IF Full(gpu[t].ticket, gpu[t].cached) THEN "full" ELSE "write"]]
    /\ UNCHANGED <<cfg, app, rt, ring, wrk, net, hist, posts>>

GWrite(t) ==
    LET r == gpu[t].r IN
    /\ gpu[t].pc = "write"
    /\ ring' = [ring EXCEPT ![r].cmds[Slot(gpu[t].ticket)] =
                               [op |-> 0, cmd |-> gpu[t].cmd]]
    /\ gpu' = [gpu EXCEPT ![t].pc = "publish", ![t].cmd = NoCommand.cmd, ![t].cached = 0]
    /\ UNCHANGED <<cfg, app, rt, wrk, net, hist, posts>>

GPublish(t) ==
    LET r == gpu[t].r IN
    /\ gpu[t].pc = "publish"
    /\ ring' = [ring EXCEPT ![r].cmds[Slot(gpu[t].ticket)].op = gpu[t].ticket + 1]
    /\ gpu' = [gpu EXCEPT ![t].pc = "poll"]
    /\ UNCHANGED <<cfg, app, rt, wrk, net, hist, posts>>

\* pollXferStatus: completed_idx, then failed_idx, then, behind a failure,
\* completion_status.
GPoll(t) ==
    /\ gpu[t].pc = "poll"
    /\ gpu' = [gpu EXCEPT ![t].pc = "poll2", ![t].seen = ring[gpu[t].r].completed]
    /\ UNCHANGED <<cfg, app, rt, ring, wrk, net, hist, posts>>

Tell(t, st) == [gpu EXCEPT ![t].pc = "told", ![t].st = st]

\* Variant: the failed operation itself is not behind the failure.
GPoll2Past(t) ==
    LET op == gpu[t].ticket + 1
        failed == ring[gpu[t].r].failed
    IN
    /\ gpu[t].pc = "poll2"
    /\ gpu' = IF failed # 0 /\ op > failed THEN [gpu EXCEPT ![t].pc = "poll3", ![t].seen = 0]
              ELSE IF gpu[t].seen >= op THEN Tell(t, "ok")
              ELSE [gpu EXCEPT ![t].pc = "poll", ![t].seen = 0]
    /\ UNCHANGED <<cfg, app, rt, ring, wrk, net, hist, posts>>

GPoll2(t) ==
    LET op == gpu[t].ticket + 1
        failed == ring[gpu[t].r].failed
    IN
    /\ gpu[t].pc = "poll2"
    /\ gpu' = IF failed # 0 /\ op >= failed THEN [gpu EXCEPT ![t].pc = "poll3", ![t].seen = 0]
              ELSE IF gpu[t].seen >= op THEN Tell(t, "ok")
              ELSE [gpu EXCEPT ![t].pc = "poll", ![t].seen = 0]
    /\ UNCHANGED <<cfg, app, rt, ring, wrk, net, hist, posts>>

GPoll3(t) ==
    /\ gpu[t].pc = "poll3"
    /\ gpu' = Tell(t, ring[gpu[t].r].status)
    /\ UNCHANGED <<cfg, app, rt, ring, wrk, net, hist, posts>>

GReturn(t) ==
    /\ gpu[t].pc = "told"
    /\ gpu' = [gpu EXCEPT ![t] = IdleThread]
    /\ UNCHANGED <<cfg, app, rt, ring, wrk, net, hist, posts>>

\* A kernel need not wait for what it posted.
GLeave(t) ==
    /\ gpu[t].pc = "poll"
    /\ gpu' = [gpu EXCEPT ![t] = IdleThread]
    /\ UNCHANGED <<cfg, app, rt, ring, wrk, net, hist, posts>>

-----------------------------------------------------------------------------
(* The transport: one UCX worker per ring, error mode none.                 *)

ViewsOf(c) == {c.dst} \cup (IF c.opcode = "PUT" THEN {c.src} ELSE {})

\* submit(): PUT and atomic add are posted on the ring's own worker; an add
\* first fences the worker.  The post completes at once, goes on, or fails.
Post(r, op, c, st) ==
    IF st = "err" THEN net
    ELSE [net EXCEPT ![r] = Append(@,
           [op |-> op, kind |-> c.opcode, views |-> ViewsOf(c), fence |-> c.opcode = "ATOMIC_ADD",
            req |-> IF st = "ok" THEN "ok" ELSE "busy", vis |-> FALSE])]

PostStatuses == {"ok", "in_prog", "err"}

\* The wire: independently of its request, an operation's effect becomes
\* visible at the peer; that of a fenced one only after every operation
\* posted before it.
NetVisible(r, k) ==
    /\ ~net[r][k].vis
    /\ net[r][k].fence => \A j \in 1..k - 1 : net[r][j].vis
    /\ net' = [net EXCEPT ![r][k].vis = TRUE]
    /\ UNCHANGED <<cfg, app, rt, ring, gpu, wrk, hist, posts>>

\* ucp_worker_progress of a ring's worker: any of its requests end, well or
\* badly.
Progressed(reqs) ==
    {new \in [DOMAIN reqs -> {"busy", "ok", "err"}] :
       \A k \in DOMAIN reqs : reqs[k].req # "busy" => new[k] = reqs[k].req}

\* checkCompletion of the request of operation `op`.
CheckCompletion(r, op) ==
    LET q == CHOOSE k \in DOMAIN net[r] : net[r][k].op = op
    IN  IF net[r][q].req \in {"ok", "err"} THEN net[r][q].req ELSE "in_prog"

-----------------------------------------------------------------------------
(* A proxy thread: proxyWorker::runOnce.                                     *)

Cur(w) == Owned(w)[wrk[w].i]
LastRing(w) == wrk[w].i = Len(Owned(w))

\* On to the next owned ring of this phase, or to the first of the next one.
Step(w, next) ==
    IF LastRing(w) THEN [wrk EXCEPT ![w].pc = next, ![w].i = 1]
    ELSE [wrk EXCEPT ![w].i = @ + 1]

\* runOnce: a drain was requested since the last acknowledgment.
DrainWanted(w) == rt.req # wrk[w].acked

WTop(w) ==
    /\ wrk[w].pc = "top"
    /\ wrk' = [wrk EXCEPT ![w] =
         IF rt.stop THEN [@ EXCEPT !.pc = "gone"]
         ELSE IF DrainWanted(w)
         THEN [@ EXCEPT !.pc = "drain", !.gen = rt.req, !.draining = TRUE]
         ELSE [@ EXCEPT !.pc = "submit"]]
    /\ UNCHANGED <<cfg, app, rt, ring, gpu, net, hist, posts>>

\* submitReady: at most one published command of the ring is taken, resolved
\* and submitted.
WSubmit(w) ==
    LET r == Cur(w)
        s == Slot(ring[r].submit)
        c == ring[r].cmds[s]
        res == ResolveSubmission(LiveViews, c.cmd)
    IN
    /\ wrk[w].pc = "submit"
    /\ wrk' = Step(w, "progress")
    /\ IF ring[r].submit - ring[r].cons >= cfg.depth \/ c.op = 0
       THEN UNCHANGED <<ring, net>>
       ELSE \E st \in IF res = "ok" THEN PostStatuses ELSE {res} :
              /\ ring' = [ring EXCEPT ![r].cmds[s] = NoCommand, ![r].submit = @ + 1,
                            ![r].inflight[s] = [op |-> c.op, status |-> st]]
              /\ net' = IF res = "ok" THEN Post(r, c.op, c.cmd, st) ELSE net
    /\ UNCHANGED <<cfg, app, rt, gpu, hist, posts>>

\* progress() of the owned rings, one after the other.
WProgress(w) ==
    LET r == Cur(w) IN
    /\ wrk[w].pc = "progress"
    /\ \E new \in Progressed(net[r]) :
         net' = [net EXCEPT ![r] = [k \in DOMAIN @ |-> [@[k] EXCEPT !.req = new[k]]]]
    /\ wrk' = Step(w, "publish")
    /\ UNCHANGED <<cfg, app, rt, ring, gpu, hist, posts>>

\* The status with which the oldest in-flight request of the ring can be
\* retired, or "in_prog".
FrontStatus(r) ==
    LET f == ring[r].inflight[Slot(ring[r].cons)]
    IN  IF ring[r].cons = ring[r].submit THEN "in_prog"
        ELSE IF f.status # "in_prog" THEN f.status
        ELSE CheckCompletion(r, f.op)

\* History: the next ticket was retired with status st.
Retired(h, st) ==
    IF h.bad = 0 /\ st # "ok" THEN [n |-> h.n + 1, bad |-> h.n + 1, st |-> st]
    ELSE [h EXCEPT !.n = @ + 1]

\* publishCompletions, and the first store of retireOldest: behind a failure
\* the slot is latched and only the consumer index moves.
WCheck(w) ==
    LET r == Cur(w)
        st == FrontStatus(r)
    IN
    /\ wrk[w].pc = "publish"
    /\ IF st = "in_prog"
       THEN /\ wrk' = Step(w, IF wrk[w].draining THEN "drain" ELSE "top")
            /\ UNCHANGED <<ring, hist, posts>>
       ELSE /\ hist' = [hist EXCEPT ![r] = Retired(@, st)]
            /\ IF ring[r].failed = 0
               THEN /\ ring' = [ring EXCEPT ![r].status = st]
                    /\ wrk' = [wrk EXCEPT ![w].pc = IF st = "ok" THEN "completed" ELSE "failed"]
               ELSE wrk' = [wrk EXCEPT ![w].pc = "retire"] /\ UNCHANGED ring
    /\ UNCHANGED <<cfg, app, rt, gpu, net, posts>>

FrontOp(r) == ring[r].inflight[Slot(ring[r].cons)].op

WFailed(w) ==
    LET r == Cur(w) IN
    /\ wrk[w].pc = "failed"
    /\ ring' = [ring EXCEPT ![r].failed = FrontOp(r)]
    /\ wrk' = [wrk EXCEPT ![w].pc = "completed"]
    /\ UNCHANGED <<cfg, app, rt, gpu, net, hist, posts>>

WCompleted(w) ==
    LET r == Cur(w) IN
    /\ wrk[w].pc = "completed"
    /\ ring' = [ring EXCEPT ![r].completed = FrontOp(r)]
    /\ wrk' = [wrk EXCEPT ![w].pc = "retire"]
    /\ UNCHANGED <<cfg, app, rt, gpu, net, hist, posts>>

\* publishConsumerIdx: the slot is the GPU's again.
WRetire(w) ==
    LET r == Cur(w) IN
    /\ wrk[w].pc = "retire"
    /\ ring' = [ring EXCEPT ![r].cons = @ + 1, ![r].inflight[Slot(ring[r].cons)] = NoRequest]
    /\ wrk' = [wrk EXCEPT ![w].pc = "publish"]
    /\ UNCHANGED <<cfg, app, rt, gpu, net, hist, posts>>

-----------------------------------------------------------------------------
(* Draining: drainOwnedChannels.                                             *)

Published(r, ticket) == ring[r].cmds[Slot(ticket)].op # 0

RingDrained(r) == ring[r].cons = ring[r].submit /\ ~Published(r, ring[r].submit)

OwnedSet(w) == ToSet(Owned(w))

WDrain(w) ==
    /\ wrk[w].pc = "drain"
    /\ wrk' = [wrk EXCEPT ![w].pc =
         IF \A r \in OwnedSet(w) : RingDrained(r)
         THEN IF rt.shutting THEN "skip" ELSE "assert"
         ELSE "submit"]
    /\ UNCHANGED <<cfg, app, rt, ring, gpu, net, hist, posts>>

\* skipOwnedAbandonedTickets: on to the next owned ring; after the last one
\* the thread drains again when any ring had tickets to skip.
SkipNext(w, skipped) ==
    LET any == wrk[w].skipped \/ skipped IN
    IF LastRing(w)
    THEN [wrk EXCEPT ![w].pc = IF any THEN "drain" ELSE "assert", ![w].i = 1,
                     ![w].skipped = FALSE]
    ELSE [wrk EXCEPT ![w].pc = "skip", ![w].i = @ + 1, ![w].skipped = any]

\* skipAbandonedTickets: threads that gave up a full ring left tickets behind.
WSkip(w) ==
    /\ wrk[w].pc = "skip"
    /\ wrk' = IF RingDrained(Cur(w)) THEN [wrk EXCEPT ![w].pc = "skipping"]
              ELSE SkipNext(w, FALSE)
    /\ UNCHANGED <<cfg, app, rt, ring, gpu, net, hist, posts>>

Abandoned(r) == ring[r].submit < ring[r].pidx /\ ~Published(r, ring[r].submit)

WSkipTicket(w) ==
    LET r == Cur(w) IN
    /\ wrk[w].pc = "skipping" /\ Abandoned(r)
    /\ ring' = [ring EXCEPT ![r].submit = @ + 1]
    /\ UNCHANGED <<cfg, app, rt, gpu, wrk, net, hist, posts>>

\* The consumer index is published once, behind all the tickets skipped.
WSkipped(w) ==
    LET r == Cur(w) IN
    /\ wrk[w].pc = "skipping" /\ ~Abandoned(r)
    /\ ring' = [ring EXCEPT ![r].cons = ring[r].submit]
    /\ hist' = [hist EXCEPT ![r].n = @ + (ring[r].submit - ring[r].cons)]
    /\ wrk' = SkipNext(w, ring[r].submit # ring[r].cons)
    /\ UNCHANGED <<cfg, app, rt, gpu, net, posts>>

\* drainAndRearm, per ring: the check of every ticket is fatal when it fails.
AssertDrained(r) == RingDrained(r) /\ ring[r].pidx = ring[r].submit

WAssert(w) ==
    /\ wrk[w].pc = "assert"
    /\ wrk' = [wrk EXCEPT ![w].pc = IF AssertDrained(Cur(w)) THEN "quiesce" ELSE "fatal"]
    /\ UNCHANGED <<cfg, app, rt, ring, gpu, net, hist, posts>>

\* Variant: the flush is not waited for.
WQuiesceUnwaited(w) ==
    /\ wrk[w].pc = "quiesce"
    /\ wrk' = [wrk EXCEPT ![w].pc = "clear"]
    /\ UNCHANGED <<cfg, app, rt, ring, gpu, net, hist, posts>>

\* quiesce(): the flush ends once every operation of the ring's worker is
\* visible at the peer.
WQuiesce(w) ==
    LET r == Cur(w) IN
    /\ wrk[w].pc = "quiesce"
    /\ \A k \in DOMAIN net[r] : net[r][k].vis
    /\ net' = [net EXCEPT ![r] = <<>>]
    /\ wrk' = [wrk EXCEPT ![w].pc = "clear"]
    /\ UNCHANGED <<cfg, app, rt, ring, gpu, hist, posts>>

\* rearm(), up to the wait for the device.
WClear(w) ==
    LET r == Cur(w) IN
    /\ wrk[w].pc = "clear"
    /\ ring' = [ring EXCEPT ![r].cmds = FreshRing.cmds, ![r].pidx = 0, ![r].cache = 0]
    /\ wrk' = [wrk EXCEPT ![w].pc = "sync"]
    /\ UNCHANGED <<cfg, app, rt, gpu, net, hist, posts>>

\* synchronize() returns when no kernel runs; then the rest of rearm(), and
\* after the last ring the acknowledgment of the generation read at the top.
WRearm(w) ==
    LET r == Cur(w) IN
    /\ wrk[w].pc = "sync"
    /\ \A t \in GpuThreads : gpu[t].pc = "idle"
    /\ ring' = [ring EXCEPT ![r] =
         [FreshRing EXCEPT !.cmds = ring[r].cmds, !.pidx = ring[r].pidx, !.cache = ring[r].cache]]
    /\ hist' = [hist EXCEPT ![r] = NoHistory]
    /\ wrk' = IF LastRing(w)
              THEN [wrk EXCEPT ![w] = [@ EXCEPT !.pc = "submit", !.i = 1, !.draining = FALSE,
                                                 !.acked = wrk[w].gen]]
              ELSE [wrk EXCEPT ![w].pc = "assert", ![w].i = @ + 1]
    /\ UNCHANGED <<cfg, app, rt, gpu, net, posts>>

-----------------------------------------------------------------------------
(* The application's control thread, serialised by control_mutex_.           *)

\* prepMemView: a remote view gives each agent it names a peer the first time;
\* the agents before the first one that does not fit keep theirs.
Names(v, i, a) ==
    LET d == ViewTable[v].descs[i] IN ViewTable[v].remote /\ d.usable /\ d.agent = a

\* The descriptors that name an agent for the first time.
Newcomers(v) ==
    {i \in DOMAIN ViewTable[v].descs :
       LET a == ViewTable[v].descs[i].agent
       IN  Names(v, i, a) /\ a \notin ToSet(rt.peers) /\ \A j \in 1..i - 1 : ~Names(v, j, a)}

NewPeer(v, n) ==
    LET i == CHOOSE i \in Newcomers(v) : Cardinality({j \in Newcomers(v) : j <= i}) = n
    IN  ViewTable[v].descs[i].agent

PeersAfter(v) ==
    LET known == Len(rt.peers)
        all == known + Cardinality(Newcomers(v))
    IN  [k \in 1..IF all > cfg.peers THEN cfg.peers ELSE all |->
           IF k <= known THEN rt.peers[k] ELSE NewPeer(v, k - known)]

FitsPeers(v) ==
    \A i \in DOMAIN ViewTable[v].descs :
       ViewTable[v].remote /\ ViewTable[v].descs[i].usable
          => ViewTable[v].descs[i].agent \in ToSet(PeersAfter(v))

\* proxyMemViewManager::createView: the host view and its device memview, or
\* nothing when device memory cannot be had.
CreateView(v, ok) == IF FitsPeers(v) /\ ok THEN rt.live \cup {v} ELSE rt.live

PrepMemView(v) ==
    /\ app.pc = "idle" /\ v \notin rt.live
    /\ \E ok \in BOOLEAN : rt' = [rt EXCEPT !.peers = PeersAfter(v), !.live = CreateView(v, ok)]
    /\ UNCHANGED <<cfg, app, ring, gpu, wrk, net, hist, posts>>

Enqueuing(t) == gpu[t].pc \notin {"idle", "poll", "poll2", "poll3", "told"}

\* releaseMemView is called once the kernels that post have ended; it drains
\* every ring before the view goes.
ReleaseMemView(v) ==
    /\ app.pc = "idle" /\ v \in rt.live /\ app.releases < cfg.releases
    /\ \A t \in GpuThreads : ~Enqueuing(t)
    /\ rt' = [rt EXCEPT !.req = @ + 1]
    /\ app' = [pc |-> "release", view |-> v, releases |-> app.releases + 1]
    /\ UNCHANGED <<cfg, ring, gpu, wrk, net, hist, posts>>

\* prepProxyMemView: when the wrapper the application would get cannot be
\* allocated, the new view is released again, with a drain of every ring.
PrepRollsBack(v) ==
    /\ app.pc = "idle" /\ v \notin rt.live /\ FitsPeers(v) /\ app.releases < cfg.releases
    /\ \A t \in GpuThreads : ~Enqueuing(t)
    /\ rt' = [rt EXCEPT !.peers = PeersAfter(v), !.live = CreateView(v, TRUE), !.req = @ + 1]
    /\ app' = [pc |-> "release", view |-> v, releases |-> app.releases + 1]
    /\ UNCHANGED <<cfg, ring, gpu, wrk, net, hist, posts>>

\* drainChannels waits for every worker's acknowledgment of its generation.
AllAcked == \A w \in Workers : wrk[w].acked >= rt.req

ReleaseDone ==
    /\ app.pc = "release" /\ AllAcked
    /\ rt' = [rt EXCEPT !.live = @ \ {app.view}]
    /\ app' = [app EXCEPT !.pc = "idle", !.view = "none"]
    /\ UNCHANGED <<cfg, ring, gpu, wrk, net, hist, posts>>

\* A thread that waits for room is in the loop that watches the shutdown word.
Parked(t) == ~Enqueuing(t) \/ gpu[t].pc \in {"full", "recheck"}

\* ~proxyRuntime: shutting_down_, the shutdown word, then the last drain.
Shutdown ==
    /\ app.pc = "idle"
    /\ \A t \in GpuThreads : Parked(t)
    /\ rt' = [rt EXCEPT !.shutting = TRUE, !.shut = "SHUTDOWN", !.req = @ + 1]
    /\ app' = [app EXCEPT !.pc = "draining"]
    /\ UNCHANGED <<cfg, ring, gpu, wrk, net, hist, posts>>

StopWorkers ==
    /\ app.pc = "draining" /\ AllAcked
    /\ rt' = [rt EXCEPT !.stop = TRUE]
    /\ app' = [app EXCEPT !.pc = "joining"]
    /\ UNCHANGED <<cfg, ring, gpu, wrk, net, hist, posts>>

\* The workers are joined; views, rings and, last, the transport go.
JoinWorkers ==
    /\ app.pc = "joining" /\ \A w \in Workers : wrk[w].pc = "gone"
    /\ rt' = [rt EXCEPT !.live = {}]
    /\ app' = [app EXCEPT !.pc = "dead"]
    /\ UNCHANGED <<cfg, ring, gpu, wrk, net, hist, posts>>

-----------------------------------------------------------------------------
GpuStep(t) ==
    \/ GClaim(t) \/ GTest(t) \/ GRefresh(t) \/ GRecheck(t) \/ GWrite(t)
    \/ GPublish(t) \/ GPoll(t) \/ GPoll2(t) \/ GPoll3(t) \/ GReturn(t)

WorkerStep(w) ==
    \/ WTop(w) \/ WSubmit(w) \/ WProgress(w) \/ WCheck(w) \/ WFailed(w)
    \/ WCompleted(w) \/ WRetire(w) \/ WDrain(w) \/ WSkip(w) \/ WSkipTicket(w)
    \/ WSkipped(w) \/ WAssert(w) \/ WQuiesce(w) \/ WClear(w) \/ WRearm(w)

AppReturns == ReleaseDone \/ StopWorkers \/ JoinWorkers

PxNext ==
    \/ \E t \in GpuThreads :
         \/ GpuStep(t) \/ GLeave(t)
         \/ \E c \in Commands, ch \in 0..cfg.channels - 1 : GEnter(t, c, ch)
    \/ \E w \in Workers : WorkerStep(w)
    \/ \E r \in Rings : \E k \in DOMAIN net[r] : NetVisible(r, k)
    \/ \E v \in cfg.views : PrepMemView(v) \/ PrepRollsBack(v)
    \/ \E v \in cfg.views \ {"l"} : ReleaseMemView(v)
    \/ Shutdown \/ AppReturns

\* GPU threads of a running kernel and host threads are scheduled, the wire
\* delivers, and the control thread leaves a wait whose condition holds.
PxFairness ==
    /\ \A t \in GpuThreads : WF_pxVars(GpuStep(t))
    /\ \A w \in UNION {0..c.threads - 1 : c \in Configs} :
         /\ WF_pxVars(w \in Workers /\ WorkerStep(w))
         /\ SF_pxVars(w \in Workers /\ WProgress(w) /\ net' # net)
    /\ WF_pxVars(\E r \in Rings : \E k \in DOMAIN net[r] : NetVisible(r, k))
    /\ WF_pxVars(AppReturns)

PxSpec == PxInit /\ [][PxNext]_pxVars /\ PxFairness

-----------------------------------------------------------------------------
\* An operation reported NIXL_SUCCESS to a GPU thread did succeed, and so did
\* every operation before it in its ring; one reported as failed is not
\* before the ring's first failure, and the status is that failure's
\* (retireOldest's three stores against pollXferStatus's three loads).
PxPollTruth ==
    \A t \in GpuThreads : gpu[t].pc = "told" =>
        LET h == hist[gpu[t].r]
            op == gpu[t].ticket + 1
        IN  IF gpu[t].st = "ok" THEN op <= h.n /\ (h.bad = 0 \/ op < h.bad)
            ELSE h.bad \in 1..op /\ gpu[t].st = h.st

\* The receiver may take the counter as the signal that the data has landed:
\* once an atomic add is visible, every command enqueued before it in its
\* ring is visible or was refused.
PxCounterAfterData(r) ==
    \A k \in DOMAIN net[r] :
        net[r][k].kind = "ATOMIC_ADD" /\ net[r][k].vis =>
            \A op \in 1..net[r][k].op - 1 :
                /\ op <= ring[r].submit
                /\ \A j \in DOMAIN net[r] : net[r][j].op = op => net[r][j].vis

\* The ring protocol: a published command is one of the next `depth` tickets,
\* in the slot of its ticket; a GPU thread writes only into a slot whose last
\* command was retired; two threads never write one slot; every ring has
\* exactly one proxy thread; and counters follow the data.
PxRingProtocol ==
    \A r \in Rings :
        /\ \A s \in DOMAIN ring[r].cmds :
             LET op == ring[r].cmds[s].op
             IN  op # 0 => op - 1 \in ring[r].submit..ring[r].cons + cfg.depth - 1 /\ Slot(op - 1) = s
        /\ LET writing == {t \in GpuThreads : gpu[t].pc \in {"write", "publish"} /\ gpu[t].r = r}
           IN  /\ \A t \in writing : gpu[t].ticket \in ring[r].submit..ring[r].cons + cfg.depth - 1
               /\ \A t, u \in writing : Slot(gpu[t].ticket) = Slot(gpu[u].ticket) => t = u
        /\ Cardinality({w \in Workers : r \in OwnedSet(w)}) = 1
        /\ PxCounterAfterData(r)

\* The runtime destroys its transport after every ring has drained: no ring
\* still holds a command and no request is outstanding (~proxyRuntime).
PxDestroyedDrained ==
    app.pc = "dead" => \A r \in Rings : AssertDrained(r) /\ net[r] = <<>>

\* Views are freed only when no queued command and no transport operation
\* can still use them, no drain finds an unfinished ticket, and the transport
\* is destroyed with every ring drained.
PxViewsOutlive ==
    /\ \A r \in Rings :
         /\ \A k \in DOMAIN net[r] : ~net[r][k].vis => net[r][k].views \subseteq rt.live
         /\ \A s \in DOMAIN ring[r].cmds :
              ring[r].cmds[s].op # 0 => ring[r].cmds[s].cmd.dst \in rt.live
    /\ \A w \in Workers : wrk[w].pc # "fatal"
    /\ PxDestroyedDrained

\* Calls of the application return and every polled operation ends.
PxAtRest == app.pc \in {"idle", "dead"} /\ \A t \in GpuThreads : gpu[t].pc = "idle"
=============================================================================
