----------------------------- MODULE UcxEngine ------------------------------
(***************************************************************************)
(* The UCX engine: its workers, connections and registrations; its         *)
(* transfers; and the progress thread that sleeps until a worker has events.*)
(***************************************************************************)
EXTENDS Integers, Sequences, FiniteSets, SequencesExt

(***************************************************************************)
(* The UCX engine around its transfers: which engine a configuration       *)
(* makes, with how many workers and in which UCX thread mode; connections, *)
(* remote keys and memory registrations; and which threads enter which UCX *)
(* worker.  Callers enter workers under the agent's lock (as its mode      *)
(* allows), the progress thread enters the shared workers, a dedicated     *)
(* thread its own worker and a device-proxy thread the worker of its ring. *)
(***************************************************************************)

CONSTANTS UcConfigs,   \* backend parameters the engine may be created with
          UcCallers,   \* application threads: pairs <<"caller", i>>
          UcAgents,    \* agents to connect to
          UcMems,      \* memories to register
          UcConns,     \* bound on connections made
          UcFaults     \* bound on failures of UCX calls and endpoints

VARIABLES ucCfg,     \* the configuration
          ucBound,   \* per caller: the shared worker it is bound to, or NoWorker
          ucIndex,   \* sharedWorkerIndex_
          ucAt,      \* per thread: the worker it is in, or NoWorker
          ucCall,    \* per caller: the call it is in and the workers still to enter
          ucConns,   \* connections made: agent and the state of each endpoint
          ucMap,     \* remoteConnMap: agent to connection, 0 when absent
          ucMds,     \* remote metadata: connection and number of keys
          ucMems,    \* registrations: memory to its mapping
          ucMapped,  \* memories mapped in UCX
          ucFaults   \* failures so far

ucVars == <<ucCfg, ucBound, ucIndex, ucAt, ucCall, ucConns, ucMap, ucMds, ucMems, ucMapped, ucFaults>>

NoWorker == -1
NoCall == [op |-> "none", agent |-> "", work |-> <<>>]

(***************************************************************************)
(* Creation.                                                               *)
(***************************************************************************)

\* nixlUcxEngine::create and the constructors: the engine a configuration
\* gives, or "none" when construction throws.
EngineKind(c) ==
    IF c.rings > 0
    THEN IF c.threads > 0 \/ c.workers > c.rings \/ c.errMode \notin {"unset", "none"}
         THEN "none" ELSE "proxy"
    ELSE IF c.threads > 0 THEN (IF c.prog /\ ~c.mt THEN "none" ELSE "pool")
    ELSE IF c.prog THEN (IF c.mt THEN "thread" ELSE "none")
    ELSE "plain"

Dedicated(c) == IF EngineKind(c) = "pool" THEN c.threads ELSE 0
NumWorkers(c) ==
    LET asked == IF EngineKind(c) = "proxy" THEN c.rings ELSE c.workers
    IN  IF asked <= Dedicated(c) THEN Dedicated(c) + 1 ELSE asked
NumShared(c) == NumWorkers(c) - Dedicated(c)

\* makeMtType; the proxy engine asks for the agent's read-write mode.
MtType(c) == IF c.prog \/ c.sync = "RW" \/ EngineKind(c) = "proxy" THEN "WORKER" ELSE "SINGLE"

\* ucx_auto_detect_vram_hint and resolveMemoryTypeConfig: the memory type
\* named to UCX for device memory; "throw" when it is not supported.
VramHint(c) ==
    IF c.hint = "auto"
    THEN IF "ze" \in c.types /\ c.types \cap {"cuda", "cuda-managed", "rocm"} = {}
         THEN "ze" ELSE "unknown"
    ELSE IF c.hint = "none" THEN "unknown"
    ELSE IF c.hint \in c.types THEN c.hint ELSE "throw"

AllWorkers == 0 .. NumWorkers(ucCfg) - 1
SharedWorkers == 0 .. NumShared(ucCfg) - 1
InOrder(n) == [i \in 1 .. n |-> i - 1]

\* The threads of the engine and the workers each of them enters.
Threads(c) ==
    (IF c.prog /\ EngineKind(c) # "plain" /\ EngineKind(c) # "proxy" THEN {<<"progress", 0>>} ELSE {})
    \cup {<<"dedicated", i>> : i \in NumShared(c) .. NumWorkers(c) - 1}
    \cup (IF EngineKind(c) = "proxy" THEN {<<"ring", i>> : i \in 0 .. c.rings - 1} ELSE {})

EntersOf(th) == IF th[1] = "progress" THEN SharedWorkers ELSE {th[2]}

UcStart(cfg) ==
    /\ ucCfg = cfg
    /\ ucBound = [t \in UcCallers |-> NoWorker] /\ ucIndex = 1
    /\ ucAt = [t \in UcCallers \cup Threads(cfg) |-> NoWorker]
    /\ ucCall = [t \in UcCallers |-> NoCall]
    /\ ucConns = <<>> /\ ucMap = [a \in UcAgents |-> 0] /\ ucMds = {}
    /\ ucMems = {} /\ ucMapped = {} /\ ucFaults = 0

UcInit == \E cfg \in {c \in UcConfigs : EngineKind(c) # "none" /\ VramHint(c) # "throw"} : UcStart(cfg)

(***************************************************************************)
(* Calls.  A call enters the workers it needs one after the other.         *)
(***************************************************************************)

\* The agent lets one call at a time into the engine (without locking, its
\* user does), except that in the read-write mode transfers and notifications
\* of several threads run together.
MayCall(t) == \A u \in UcCallers : ucCall[u] = NoCall
MayShare(t) == \/ MayCall(t)
               \/ /\ ucCfg.sync = "RW" /\ ucCall[t] = NoCall
                  /\ \A u \in UcCallers : ucCall[u].op \in {"none", "use", "notifs"}

Begin(t, op, a, work) == ucCall' = [ucCall EXCEPT ![t] = [op |-> op, agent |-> a, work |-> work]]

\* getSharedWorkerId: a thread is bound to a shared worker at its first call.
BoundOf(t) == IF ucBound[t] # NoWorker THEN ucBound[t] ELSE ucIndex % NumShared(ucCfg)

\* loadRemoteConnInfo (connect of the agent to itself included) opens an
\* endpoint on every worker.
LoadRemoteConn(t, a) ==
    /\ MayCall(t) /\ ucMap[a] = 0 /\ Len(ucConns) < UcConns
    /\ Begin(t, "conn", a, InOrder(NumWorkers(ucCfg)))
    /\ UNCHANGED <<ucCfg, ucBound, ucIndex, ucAt, ucConns, ucMap, ucMds, ucMems, ucMapped, ucFaults>>

\* loadRemoteMD and loadLocalMD: refused without a connection or over one with
\* a failed endpoint; otherwise a key is unpacked for every worker.
LoadMD(t, a) ==
    /\ MayCall(t) /\ ucMap[a] # 0
    /\ \A i \in DOMAIN ucConns[ucMap[a]].eps : ucConns[ucMap[a]].eps[i] = "CONNECTED"
    /\ Begin(t, "md", a, InOrder(NumWorkers(ucCfg)))
    /\ UNCHANGED <<ucCfg, ucBound, ucIndex, ucAt, ucConns, ucMap, ucMds, ucMems, ucMapped, ucFaults>>

\* prepXfer, postXfer, checkXfer, genNotif and prepMemView work on the shared
\* worker of the calling thread, or on one the caller names.
UseWorker(t) ==
    /\ MayShare(t)
    /\ \E w \in {BoundOf(t)} \cup (IF ucCfg.named THEN SharedWorkers ELSE {}) :
        /\ Begin(t, "use", "", <<w>>)
        /\ IF w = BoundOf(t) /\ ucBound[t] = NoWorker
           THEN ucBound' = [ucBound EXCEPT ![t] = w] /\ ucIndex' = ucIndex + 1
           ELSE UNCHANGED <<ucBound, ucIndex>>
    /\ UNCHANGED <<ucCfg, ucAt, ucConns, ucMap, ucMds, ucMems, ucMapped, ucFaults>>

\* getNotifs progresses the shared workers when no thread does.
UcGetNotifs(t) ==
    /\ MayShare(t) /\ Threads(ucCfg) \cap ({<<"progress", 0>>} \cup {<<"ring", i>> : i \in AllWorkers}) = {}
    /\ Begin(t, "notifs", "", InOrder(NumShared(ucCfg)))
    /\ UNCHANGED <<ucCfg, ucBound, ucIndex, ucAt, ucConns, ucMap, ucMds, ucMems, ucMapped, ucFaults>>

\* disconnect drops the map's reference; the endpoints are closed, on every
\* worker, once no metadata refers to the connection.
UcDisconnect(t, a) ==
    /\ MayCall(t) /\ ucMap[a] # 0
    /\ ucMap' = [ucMap EXCEPT ![a] = 0]
    /\ IF \E m \in ucMds : m.conn = ucMap[a] THEN UNCHANGED ucCall
       ELSE Begin(t, "close", a, InOrder(NumWorkers(ucCfg)))
    /\ UNCHANGED <<ucCfg, ucBound, ucIndex, ucAt, ucConns, ucMds, ucMems, ucMapped, ucFaults>>

\* unloadMD destroys the keys, and the connection with its last metadata when
\* it is no longer in the map.
UnloadMD(t, m) ==
    /\ MayCall(t) /\ m \in ucMds
    /\ ucMds' = ucMds \ {m}
    /\ IF m.conn \in {ucMap[a] : a \in UcAgents} \/ \E k \in ucMds \ {m} : k.conn = m.conn
       THEN UNCHANGED ucCall
       ELSE Begin(t, "close", "", InOrder(NumWorkers(ucCfg)))
    /\ UNCHANGED <<ucCfg, ucBound, ucIndex, ucAt, ucConns, ucMap, ucMems, ucMapped, ucFaults>>

EnterWorker(t) ==
    /\ ucCall[t].work # <<>> /\ ucAt[t] = NoWorker
    /\ ucAt' = [ucAt EXCEPT ![t] = Head(ucCall[t].work)]
    /\ UNCHANGED <<ucCfg, ucBound, ucIndex, ucCall, ucConns, ucMap, ucMds, ucMems, ucMapped, ucFaults>>

\* A worker is left; after the last one the call has its effect.
LeaveWorker(t) ==
    LET c == ucCall[t] IN
    /\ c.op # "none" /\ ucAt[t] # NoWorker
    /\ ucAt' = [ucAt EXCEPT ![t] = NoWorker]
    /\ IF Len(c.work) > 1
       THEN /\ ucCall' = [ucCall EXCEPT ![t].work = Tail(@)]
            /\ UNCHANGED <<ucConns, ucMap, ucMds>>
       ELSE /\ ucCall' = [ucCall EXCEPT ![t] = NoCall]
            /\ IF c.op = "conn"
               THEN /\ ucConns' = Append(ucConns, [agent |-> c.agent,
                                                   eps |-> [i \in AllWorkers |-> "CONNECTED"]])
                    /\ ucMap' = [ucMap EXCEPT ![c.agent] = Len(ucConns) + 1]
                    /\ UNCHANGED ucMds
               ELSE /\ UNCHANGED <<ucConns, ucMap>>
                    /\ ucMds' = IF c.op = "md"
                                THEN ucMds \cup {[conn |-> ucMap[c.agent],
                                                  keys |-> NumWorkers(ucCfg)]}
                                ELSE ucMds
    /\ UNCHANGED <<ucCfg, ucBound, ucIndex, ucMems, ucMapped, ucFaults>>

\* Opening an endpoint or unpacking a key fails: the call ends without effect,
\* and what it made is destroyed again.
CallFails(t) ==
    /\ ucFaults < UcFaults /\ ucAt[t] # NoWorker /\ ucCall[t].op \in {"conn", "md"}
    /\ ucFaults' = ucFaults + 1
    /\ ucAt' = [ucAt EXCEPT ![t] = NoWorker]
    /\ ucCall' = [ucCall EXCEPT ![t] = NoCall]
    /\ UNCHANGED <<ucCfg, ucBound, ucIndex, ucConns, ucMap, ucMds, ucMems, ucMapped>>

\* An endpoint fails (err_cb).
UcEpFails ==
    /\ ucFaults < UcFaults /\ ucFaults' = ucFaults + 1
    /\ \E k \in DOMAIN ucConns : \E w \in AllWorkers :
        /\ ucConns[k].eps[w] = "CONNECTED"
        /\ ucConns' = [ucConns EXCEPT ![k].eps[w] = "FAILED"]
    /\ UNCHANGED <<ucCfg, ucBound, ucIndex, ucAt, ucCall, ucMap, ucMds, ucMems, ucMapped>>

\* A thread of the engine makes progress on a worker of its own.
ThreadEnters(th) ==
    /\ ucAt[th] = NoWorker
    /\ \E w \in EntersOf(th) : ucAt' = [ucAt EXCEPT ![th] = w]
    /\ UNCHANGED <<ucCfg, ucBound, ucIndex, ucCall, ucConns, ucMap, ucMds, ucMems, ucMapped, ucFaults>>

ThreadLeaves(th) ==
    /\ ucAt[th] # NoWorker
    /\ ucAt' = [ucAt EXCEPT ![th] = NoWorker]
    /\ UNCHANGED <<ucCfg, ucBound, ucIndex, ucCall, ucConns, ucMap, ucMds, ucMems, ucMapped, ucFaults>>

(***************************************************************************)
(* Memory.                                                                 *)
(***************************************************************************)

\* memReg maps the memory, names its type to UCX when there is a hint, and
\* unmaps device memory that UCX takes for host memory; then packRkey.  When
\* packing fails the call fails and the mapping stays.
UcRegisterMem(t, m) ==
    /\ MayCall(t) /\ m \notin ucMapped
    /\ \E seen \in IF m.seg = "DRAM" THEN {"host"}
                   ELSE IF VramHint(ucCfg) # "unknown" THEN {VramHint(ucCfg)} ELSE {"device", "host"} :
       \E packed \in BOOLEAN :
        /\ packed \/ ucFaults < UcFaults
        /\ IF m.seg = "VRAM" /\ seen = "host"
           THEN packed /\ UNCHANGED <<ucMems, ucMapped, ucFaults>>
           ELSE /\ ucMapped' = ucMapped \cup {m}
                /\ ucMems' = IF packed THEN ucMems \cup {m} ELSE ucMems
                /\ ucFaults' = ucFaults + (IF packed THEN 0 ELSE 1)
    /\ UNCHANGED <<ucCfg, ucBound, ucIndex, ucAt, ucCall, ucConns, ucMap, ucMds>>

UcDeregisterMem(t, m) ==
    /\ MayCall(t) /\ m \in ucMems
    /\ ucMems' = ucMems \ {m} /\ ucMapped' = ucMapped \ {m}
    /\ UNCHANGED <<ucCfg, ucBound, ucIndex, ucAt, ucCall, ucConns, ucMap, ucMds, ucFaults>>

UcCaller(t) ==
    \/ \E a \in UcAgents : LoadRemoteConn(t, a) \/ LoadMD(t, a) \/ UcDisconnect(t, a)
    \/ \E m \in ucMds : UnloadMD(t, m)
    \/ UseWorker(t) \/ UcGetNotifs(t) \/ EnterWorker(t) \/ LeaveWorker(t) \/ CallFails(t)
    \/ \E m \in UcMems : UcRegisterMem(t, m) \/ UcDeregisterMem(t, m)

UcNext == \/ \E t \in UcCallers : UcCaller(t)
          \/ \E th \in Threads(ucCfg) : ThreadEnters(th) \/ ThreadLeaves(th)
          \/ UcEpFails

(***************************************************************************)
(* Properties.                                                             *)
(***************************************************************************)

\* Two threads are in one UCX worker at once only when the worker was created
\* for several threads (UCS_THREAD_MODE_MULTI).
UcWorkerGuarded ==
    \A s, t \in DOMAIN ucAt : s # t /\ ucAt[s] # NoWorker /\ ucAt[s] = ucAt[t] => MtType(ucCfg) = "WORKER"

\* Whatever worker a caller is bound to, it is a shared worker with an endpoint
\* in every connection that is in use and a key in every metadata of it.
UcBoundReaches ==
    \A t \in UcCallers : ucBound[t] # NoWorker =>
        /\ ucBound[t] \in SharedWorkers
        /\ \A th \in Threads(ucCfg) : th[1] = "dedicated" => th[2] # ucBound[t]
        /\ \A k \in DOMAIN ucConns : ucBound[t] \in DOMAIN ucConns[k].eps
        /\ \A m \in ucMds : ucBound[t] < m.keys

(***************************************************************************)
(* One transfer handle of the UCX engine, from prepXfer to releaseReqH,    *)
(* plain or composite.  A plain handle posts all of its descriptors over   *)
(* one endpoint of a shared worker.  A composite handle is cut into one    *)
(* chunk per dedicated thread: posting hands each thread a task, the       *)
(* threads post their chunk and then poll it, and the handle only reads    *)
(* the status word and the count of pending chunks they share.             *)
(*                                                                         *)
(* Leg 0 is the handle on its shared worker and legs 1 .. n the chunks on  *)
(* the dedicated workers; a leg has one endpoint.                          *)
(***************************************************************************)

CONSTANTS UxThreads,     \* numbers of dedicated threads; 0 is a plain handle
          UxDescs,       \* descriptors of the transfer
          UxPosts,       \* bound on the posts of the handle
          UxFaults,      \* bound on failing endpoints and refused posts
          UxRepostFailed \* may a transfer be posted again after an error

VARIABLES uxN,       \* dedicated threads of this engine
          uxSgl,     \* NIXL_UCX_SGL_ENABLE: one put carries a whole range
          uxCall,    \* what the caller does: "idle", "posting" or "released"
          uxStatus,  \* the status the caller was last given
          uxNotif,   \* posts whose notification is still to be sent (0 or 1)
          uxPosts,   \* posts made so far
          uxReqs,    \* per leg: the requests of its handle (requests_)
          uxEp,      \* per leg: state of its endpoint
          uxOut,     \* posted operations that have not reached the peer
          uxLanded,  \* operations that have
          uxShared,  \* the state the chunks share: status and pendingReqs
          uxTask,    \* per thread: the state of the posting task given to it
          uxRun,     \* per thread: where its loop is
          uxActive,  \* chunks with a shared-state pointer
          uxList,    \* chunks their thread polls (requests_ of the thread)
          uxStop,    \* the engine's destructor has asked the threads to stop
          uxFaults   \* endpoints failed and posts refused so far

uxVars == <<uxN, uxSgl, uxCall, uxStatus, uxNotif, uxPosts, uxReqs, uxEp, uxOut, uxLanded,
            uxShared, uxTask, uxRun, uxActive, uxList, uxStop, uxFaults>>

UxLegs == 0 .. uxN
Chunks == 1 .. uxN
Composite == uxN > 0

UxInit ==
    /\ uxN \in UxThreads /\ uxSgl \in BOOLEAN
    /\ uxCall = "idle" /\ uxStatus = "new" /\ uxNotif = 0 /\ uxPosts = 0
    /\ uxReqs = [l \in 0 .. uxN |-> <<>>]
    /\ uxEp = [l \in 0 .. uxN |-> "CONNECTED"]
    /\ uxOut = {} /\ uxLanded = {}
    /\ uxShared = [status |-> "ok", pending |-> 0]
    /\ uxTask = [c \in 1 .. uxN |-> "none"]
    /\ uxRun = [c \in 1 .. uxN |-> "loop"]
    /\ uxActive = {} /\ uxList = {} /\ uxStop = FALSE /\ uxFaults = 0

\* The descriptors of a leg: chunk c has those from (c-1) * UxDescs / n on.
Range0(l) == IF l = 0 THEN 1 .. UxDescs
             ELSE (((l - 1) * UxDescs) \div uxN) + 1 .. (l * UxDescs) \div uxN

Op(l, p, d) == [leg |-> l, post |-> p, desc |-> d]
NotifDesc == 0   \* the active message of a post, in the place of a descriptor

(***************************************************************************)
(* The request list of a handle.                                           *)
(***************************************************************************)

\* nixlUcxBackendReqH::status: the last request decides first; only when it
\* has succeeded are the others looked at, and the finished ones dropped.
LastOf(reqs) == reqs[Len(reqs)].st

StatusOf(reqs) ==
    IF reqs = <<>> THEN "ok"
    ELSE IF LastOf(reqs) # "ok" THEN LastOf(reqs)
    ELSE IF \E i \in DOMAIN reqs : reqs[i].st = "err" THEN "err"
    ELSE IF \E i \in DOMAIN reqs : reqs[i].st = "prog" THEN "prog"
    ELSE "ok"

KeptOf(reqs) ==
    IF reqs = <<>> \/ LastOf(reqs) # "ok" THEN reqs
    ELSE SelectSeq(reqs, LAMBDA r : r.st = "prog")

\* append: a pending request is kept, an error releases what was started.
Append3(reqs, st, ops) ==
    CASE st = "prog" -> Append(reqs, [st |-> "prog", ops |-> ops])
      [] st = "err"  -> <<>>
      [] st = "ok"   -> reqs

\* sendXferRange over leg l, for post p.  The puts or gets are posted in
\* order, or as one with a scatter-gather list; only the request of the last
\* pending one is kept.  A refused one ends the call and leaves the earlier
\* ones in flight.  Then the endpoint is flushed: the flush covers every
\* operation in flight on the endpoint and is complete when all have landed.
PostedBefore(l, p) ==
    LET all == {Op(l, p, d) : d \in Range0(l)}
    IN  IF uxEp[l] = "FAILED" THEN {{}}
        ELSE IF uxSgl THEN {{}, all}
        ELSE {{o \in all : o.desc < d} : d \in Range0(l) \cup {UxDescs + 1}}

RangeOutcomes(l, p) ==
    LET all == {Op(l, p, d) : d \in Range0(l)}
        earlier == {o \in uxOut : o.leg = l}
        Pending(ops) == [st |-> "prog", ops |-> ops]
        sent == {[out |-> all, landed |-> {}, st |-> "ok",
                  reqs |-> Append3(r, "prog", earlier \cup all)] : r \in {<<>>, <<Pending(all)>>}}
        atOnce == {[out |-> {}, landed |-> all, st |-> "ok", reqs |-> <<>>]}
        refused == {[out |-> ops, landed |-> {}, st |-> "err", reqs |-> Append3(<<>>, "err", {})]
                    : ops \in PostedBefore(l, p)}
    IN  (IF uxEp[l] = "CONNECTED" THEN sent ELSE {})
        \cup (IF uxEp[l] = "CONNECTED" /\ earlier = {} THEN atOnce ELSE {})
        \cup (IF uxEp[l] = "FAILED" \/ uxFaults < UxFaults THEN refused ELSE {})

\* A refusal over a working endpoint is a fault of its own.
Spent(l, r) == IF r.st = "err" /\ uxEp[l] = "CONNECTED" THEN 1 ELSE 0

\* sendNotif over the handle's own endpoint, and what append makes of it.
NotifOutcomes ==
    LET am == Op(0, uxPosts, NotifDesc)
    IN  IF uxEp[0] = "FAILED" THEN {[out |-> {}, st |-> "err", reqs |-> Append3(<<>>, "err", {})]}
        ELSE {[out |-> {am}, st |-> st, reqs |-> Append3(KeptOf(uxReqs[0]), st, {am})]
              : st \in {"ok", "prog"}}

(***************************************************************************)
(* The caller.                                                             *)
(***************************************************************************)

\* nixlUcxCompositeBackendReqH::status and nixlUcxBackendReqH::status.
HandleStatus ==
    IF Composite /\ uxShared.pending > 0 THEN "prog"
    ELSE IF StatusOf(uxReqs[0]) # "ok" THEN StatusOf(uxReqs[0])
    ELSE IF Composite THEN uxShared.status ELSE "ok"

\* The requests left on the handle by that look at its status.
HandleReqs == IF Composite /\ uxShared.pending > 0 THEN uxReqs[0] ELSE KeptOf(uxReqs[0])

\* The handle has no request and no chunk of an earlier post.
UxIdle == uxReqs[0] = <<>> /\ uxShared.pending = 0 /\ uxActive = {}

MayPost == /\ uxCall = "idle" /\ uxPosts < UxPosts
           /\ \/ uxStatus \in {"new", "ok"}
              \/ UxRepostFailed /\ uxStatus = "err"

\* postXfer of a plain handle up to the end of sendXferRange.
PostPlain ==
    /\ MayPost /\ ~Composite
    /\ uxPosts' = uxPosts + 1 /\ uxNotif' = 0
    /\ \E r \in RangeOutcomes(0, uxPosts + 1) :
        /\ uxOut' = uxOut \cup r.out
        /\ uxLanded' = uxLanded \cup r.landed
        /\ uxReqs' = [uxReqs EXCEPT ![0] = r.reqs]
        /\ uxFaults' = uxFaults + Spent(0, r)
        /\ IF r.st = "err" THEN uxCall' = "idle" /\ uxStatus' = "err"
           ELSE uxCall' = "posted" /\ uxStatus' = "prog"
    /\ UNCHANGED <<uxN, uxSgl, uxEp, uxShared, uxTask, uxRun, uxActive, uxList, uxStop>>

\* postXfer of a composite handle: startXfer, then one task for each thread.
PostComposite ==
    /\ MayPost /\ Composite
    /\ uxPosts' = uxPosts + 1 /\ uxNotif' = 0
    /\ uxShared' = [status |-> "ok", pending |-> uxN]
    /\ uxTask' = [c \in Chunks |-> "queued"]
    /\ uxCall' = "posting" /\ uxStatus' = "prog"
    /\ UNCHANGED <<uxN, uxSgl, uxReqs, uxEp, uxOut, uxLanded, uxRun, uxActive, uxList, uxStop,
                   uxFaults>>

\* execute returns once every task has counted down the latch, with an error
\* if a task had one; postXfer then returns it.
TasksReturn ==
    /\ uxCall = "posting" /\ \A c \in Chunks : uxTask[c] \in {"ok", "err"}
    /\ IF \E c \in Chunks : uxTask[c] = "err"
       THEN uxCall' = "idle" /\ uxStatus' = "err"
       ELSE uxCall' = "posted" /\ UNCHANGED uxStatus
    /\ UNCHANGED <<uxN, uxSgl, uxNotif, uxPosts, uxReqs, uxEp, uxOut, uxLanded, uxShared, uxTask,
                   uxRun, uxActive, uxList, uxStop, uxFaults>>

\* The notification goes out over the handle's endpoint, and the status is
\* read again.
SendNotif ==
    \E r \in NotifOutcomes :
        /\ uxOut' = uxOut \cup r.out
        /\ uxReqs' = [uxReqs EXCEPT ![0] = r.reqs]
        /\ uxStatus' = IF r.st = "err" THEN "err" ELSE StatusOf(r.reqs)

\* The rest of postXfer: the status of the handle, and the notification,
\* sent at once when the transfer is already complete and kept otherwise.
PostReturns ==
    /\ uxCall = "posted" /\ uxCall' = "idle"
    /\ \E notif \in {0, 1} :
        IF notif = 1 /\ HandleStatus = "ok"
        THEN uxNotif' = 0 /\ SendNotif
        ELSE /\ uxNotif' = IF HandleStatus = "err" THEN 0 ELSE notif
             /\ uxStatus' = HandleStatus
             /\ uxReqs' = [uxReqs EXCEPT ![0] = HandleReqs]
             /\ UNCHANGED uxOut
    /\ UNCHANGED <<uxN, uxSgl, uxPosts, uxEp, uxLanded, uxShared, uxTask, uxRun, uxActive, uxList,
                   uxStop, uxFaults>>

\* checkXfer: the notification that waited is sent when the data is complete
\* and dropped when the transfer failed.
UxCheckXfer ==
    /\ uxCall = "idle" /\ uxStatus = "prog"
    /\ IF uxNotif = 1 /\ HandleStatus = "ok"
       THEN uxNotif' = 0 /\ SendNotif
       ELSE /\ uxNotif' = IF HandleStatus = "err" THEN 0 ELSE uxNotif
            /\ uxStatus' = HandleStatus
            /\ uxReqs' = [uxReqs EXCEPT ![0] = HandleReqs]
            /\ UNCHANGED uxOut
    /\ UNCHANGED <<uxN, uxSgl, uxCall, uxPosts, uxEp, uxLanded, uxShared, uxTask, uxRun, uxActive,
                   uxList, uxStop, uxFaults>>

\* releaseReqH: the handle's own requests are cancelled and freed, and the
\* chunks are told to end by the status word they share.
ReleaseReqH ==
    /\ uxCall = "idle" /\ uxPosts > 0 /\ uxCall' = "released"
    /\ uxReqs' = [uxReqs EXCEPT ![0] = <<>>]
    /\ uxNotif' = 0
    /\ uxShared' = [uxShared EXCEPT !.status = IF Composite THEN "err" ELSE @]
    /\ UNCHANGED <<uxN, uxSgl, uxStatus, uxPosts, uxEp, uxOut, uxLanded, uxTask, uxRun, uxActive,
                   uxList, uxStop, uxFaults>>

\* The engine is destroyed once its handles are released: the threads stop.
StopThreads ==
    /\ uxCall = "released" /\ ~uxStop /\ uxStop' = TRUE
    /\ UNCHANGED <<uxN, uxSgl, uxCall, uxStatus, uxNotif, uxPosts, uxReqs, uxEp, uxOut, uxLanded,
                   uxShared, uxTask, uxRun, uxActive, uxList, uxFaults>>

(***************************************************************************)
(* A dedicated thread.                                                     *)
(***************************************************************************)

\* The posting task: startChunk, sendXferRange over the chunk, then the chunk
\* goes on the thread's list, or is completed with the error.
RunTask(c) ==
    /\ uxRun[c] = "loop" /\ uxTask[c] = "queued"
    /\ uxActive' = uxActive \cup {c}
    /\ \E r \in RangeOutcomes(c, uxPosts) :
        /\ uxOut' = uxOut \cup r.out
        /\ uxLanded' = uxLanded \cup r.landed
        /\ uxReqs' = [uxReqs EXCEPT ![c] = r.reqs]
        /\ uxFaults' = uxFaults + Spent(c, r)
        /\ IF r.st = "err"
           THEN uxRun' = [uxRun EXCEPT ![c] = "fail"] /\ UNCHANGED <<uxTask, uxList>>
           ELSE /\ uxTask' = [uxTask EXCEPT ![c] = "ok"]
                /\ uxRun' = [uxRun EXCEPT ![c] = "poll"]
                /\ uxList' = uxList \cup {c}
    /\ UNCHANGED <<uxN, uxSgl, uxCall, uxStatus, uxNotif, uxPosts, uxEp, uxShared, uxStop>>

\* Variant: the count goes down before the status is stored.
StoreErrorLate(c) ==
    /\ uxReqs' = [uxReqs EXCEPT ![c] = <<>>]
    /\ uxShared' = [uxShared EXCEPT !.pending = @ - 1]

\* complete, first half: on an error the chunk's requests are released and
\* the shared status is set.
StoreError(c) ==
    /\ uxReqs' = [uxReqs EXCEPT ![c] = <<>>]
    /\ uxShared' = [uxShared EXCEPT !.status = "err"]

\* complete, second half: one chunk less is pending, and the chunk lets go
\* of the shared state.
CountDown(c) ==
    /\ uxShared' = [uxShared EXCEPT !.pending = @ - 1]
    /\ uxActive' = uxActive \ {c}

\* nixlUcxChunkBackendReqH::status.
ChunkStatus(c) == IF uxShared.status # "ok" THEN "err" ELSE StatusOf(uxReqs[c])

\* Polling the chunk: one that is not in progress is completed.
PollChunk(c) ==
    /\ uxRun[c] = "poll"
    /\ IF c \notin uxList \/ ChunkStatus(c) = "prog"
       THEN /\ uxRun' = [uxRun EXCEPT ![c] = "loop"]
            /\ uxReqs' = [uxReqs EXCEPT ![c] = IF c \in uxList THEN KeptOf(@) ELSE @]
            /\ UNCHANGED uxShared
       ELSE /\ uxRun' = [uxRun EXCEPT ![c] = "done"]
            /\ IF ChunkStatus(c) = "ok"
               THEN uxReqs' = [uxReqs EXCEPT ![c] = <<>>] /\ UNCHANGED uxShared
               ELSE StoreError(c)
    /\ UNCHANGED <<uxN, uxSgl, uxCall, uxStatus, uxNotif, uxPosts, uxEp, uxOut, uxLanded, uxTask,
                   uxActive, uxList, uxStop, uxFaults>>

\* A failed posting task stores its error (complete, first half).
TaskFails(c) ==
    /\ uxRun[c] = "fail" /\ StoreError(c)
    /\ uxRun' = [uxRun EXCEPT ![c] = "failed"]
    /\ UNCHANGED <<uxN, uxSgl, uxCall, uxStatus, uxNotif, uxPosts, uxEp, uxOut, uxLanded, uxTask,
                   uxActive, uxList, uxStop, uxFaults>>

\* complete ends, and the chunk leaves the thread's list; a failed task then
\* counts the latch down with its error.
EndChunk(c) ==
    /\ uxRun[c] \in {"done", "failed"} /\ CountDown(c)
    /\ uxList' = uxList \ {c}
    /\ uxTask' = [uxTask EXCEPT ![c] = IF uxRun[c] = "failed" THEN "err" ELSE @]
    /\ uxRun' = [uxRun EXCEPT ![c] = "loop"]
    /\ UNCHANGED <<uxN, uxSgl, uxCall, uxStatus, uxNotif, uxPosts, uxReqs, uxEp, uxOut, uxLanded,
                   uxStop, uxFaults>>

\* The loop without a task: the chunks on the list are polled again.
PollAgain(c) ==
    /\ uxRun[c] = "loop" /\ uxTask[c] # "queued" /\ c \in uxList /\ ~uxStop
    /\ uxRun' = [uxRun EXCEPT ![c] = "poll"]
    /\ UNCHANGED <<uxN, uxSgl, uxCall, uxStatus, uxNotif, uxPosts, uxReqs, uxEp, uxOut, uxLanded,
                   uxShared, uxTask, uxActive, uxList, uxStop, uxFaults>>

\* The loop ends at a stop request: what is left on the list is completed
\* with an error.
ThreadExit(c) ==
    /\ uxRun[c] = "loop" /\ uxStop
    /\ uxRun' = [uxRun EXCEPT ![c] = "gone"]
    /\ IF c \in uxList
       THEN /\ uxReqs' = [uxReqs EXCEPT ![c] = <<>>]
            /\ uxShared' = [status |-> "err", pending |-> uxShared.pending - 1]
            /\ uxActive' = uxActive \ {c} /\ uxList' = uxList \ {c}
       ELSE UNCHANGED <<uxReqs, uxShared, uxActive, uxList>>
    /\ UNCHANGED <<uxN, uxSgl, uxCall, uxStatus, uxNotif, uxPosts, uxEp, uxOut, uxLanded, uxTask,
                   uxStop, uxFaults>>

(***************************************************************************)
(* UCX: operations land, requests complete, endpoints fail.                *)
(***************************************************************************)

\* An operation reaches the peer, in any order.
Land ==
    /\ \E o \in uxOut :
        /\ uxOut' = uxOut \ {o} /\ uxLanded' = uxLanded \cup {o}
    /\ UNCHANGED <<uxN, uxSgl, uxCall, uxStatus, uxNotif, uxPosts, uxReqs, uxEp, uxShared, uxTask,
                   uxRun, uxActive, uxList, uxStop, uxFaults>>

\* A request completes when none of its operations is in flight any more.
CompleteReq ==
    /\ \E l \in UxLegs : \E i \in DOMAIN uxReqs[l] :
        /\ uxReqs[l][i].st = "prog" /\ uxReqs[l][i].ops \cap uxOut = {}
        /\ uxReqs' = [uxReqs EXCEPT ![l][i].st = "ok"]
    /\ UNCHANGED <<uxN, uxSgl, uxCall, uxStatus, uxNotif, uxPosts, uxEp, uxOut, uxLanded, uxShared,
                   uxTask, uxRun, uxActive, uxList, uxStop, uxFaults>>

\* err_cb: the endpoint fails.  Its operations in flight are lost and its
\* pending requests end with an error.
EpFails ==
    /\ uxFaults < UxFaults
    /\ \E l \in UxLegs :
        /\ uxEp[l] = "CONNECTED"
        /\ uxEp' = [uxEp EXCEPT ![l] = "FAILED"]
        /\ uxOut' = {o \in uxOut : o.leg # l}
        /\ uxReqs' = [uxReqs EXCEPT ![l] = [i \in DOMAIN @ |->
                        IF @[i].st = "prog" THEN [@[i] EXCEPT !.st = "err"] ELSE @[i]]]
    /\ uxFaults' = uxFaults + 1
    /\ UNCHANGED <<uxN, uxSgl, uxCall, uxStatus, uxNotif, uxPosts, uxLanded, uxShared, uxTask,
                   uxRun, uxActive, uxList, uxStop>>

UxThread(c) == \/ RunTask(c) \/ PollChunk(c) \/ TaskFails(c) \/ EndChunk(c) \/ PollAgain(c)
               \/ ThreadExit(c)

UxNext == \/ PostPlain \/ PostComposite \/ TasksReturn \/ PostReturns \/ UxCheckXfer
          \/ ReleaseReqH \/ StopThreads
          \/ \E c \in Chunks : UxThread(c)
          \/ Land \/ CompleteReq \/ EpFails

\* The caller polls a transfer in progress, the threads run, and UCX completes
\* what it was given.
UxFairness ==
    /\ WF_uxVars(TasksReturn) /\ WF_uxVars(PostReturns) /\ WF_uxVars(UxCheckXfer)
    /\ WF_uxVars(Land) /\ WF_uxVars(CompleteReq)
    /\ \A c \in 1 .. Max(UxThreads) : WF_uxVars(c \in Chunks /\ UxThread(c))

UxSpec == UxInit /\ [][UxNext]_uxVars /\ UxFairness

(***************************************************************************)
(* Properties.                                                             *)
(***************************************************************************)

LandedOf(p) == {o.desc : o \in {x \in uxLanded : x.post = p}}

\* A transfer the engine reports complete, from postXfer or checkXfer, has
\* every descriptor at the peer: neither a request freed early, nor the cut
\* into chunks, nor the order of the shared status and the shared count lets
\* an unfinished or failed chunk pass for success.
UxSuccessIsLanded == uxStatus = "ok" => 1 .. UxDescs \subseteq LandedOf(uxPosts)

\* The notification of a post is sent only behind all of its data.
UxNotifAfterData ==
    \A p \in 1 .. uxPosts :
        (NotifDesc \in {o.desc : o \in {x \in uxOut \cup uxLanded : x.post = p}})
            => 1 .. UxDescs \subseteq LandedOf(p)

\* Nothing is under way: no transfer is in progress, and no thread holds a
\* chunk of a released handle.
UxAtRest == IF uxCall = "released" THEN uxActive = {} /\ uxList = {} ELSE uxStatus # "prog"

-----------------------------------------------------------------------------
(***************************************************************************)
(* The progress thread of the UCX engine and the notifications it brings   *)
(* in.  The thread sleeps in poll() on the event descriptors of the shared *)
(* workers and on a control descriptor; it progresses the workers whose    *)
(* descriptor woke it, and goes back to sleep only after each of them      *)
(* could be armed.  Callers progress the same workers from checkXfer.      *)
(* Notifications arrive on worker 0 and are appended to the engine's list, *)
(* which getNotifs takes as a whole.                                       *)
(***************************************************************************)

CONSTANTS UpWorkers,  \* number of shared workers
          UpEvents    \* bound on the events that arrive

VARIABLES upArrived, \* events that arrived so far; each is one notification or completion
          upEvents,  \* per worker: events not yet processed
          upArmed,   \* per worker: armed, the next event makes its descriptor readable
          upReadable,\* per worker: its descriptor is readable
          upThread,  \* where the thread is: "poll", "serve" or "exited"
          upServe,   \* workers still to be served in this round, per step
          upStop,    \* a stop was requested: the control descriptor is readable
          upList     \* notifList_

upVars == <<upArrived, upEvents, upArmed, upReadable, upThread, upServe, upStop, upList>>

UpAll == 0 .. UpWorkers - 1

\* The first round serves every worker (timeout starts as true).
UpInit ==
    /\ upArrived = 0 /\ upEvents = [w \in UpAll |-> <<>>]
    /\ upArmed = [w \in UpAll |-> FALSE] /\ upReadable = [w \in UpAll |-> FALSE]
    /\ upThread = "serve" /\ upServe = UpAll /\ upStop = FALSE
    /\ upList = <<>>

\* An event arrives at a worker; at an armed one it makes the descriptor
\* readable.
Arrive(w) ==
    /\ upArrived < UpEvents /\ upArrived' = upArrived + 1
    /\ upEvents' = [upEvents EXCEPT ![w] = Append(@, upArrived + 1)]
    /\ upReadable' = [upReadable EXCEPT ![w] = @ \/ upArmed[w]]
    /\ upArmed' = [upArmed EXCEPT ![w] = FALSE]
    /\ UNCHANGED <<upThread, upServe, upStop, upList>>

\* ucp_worker_progress: one event is processed.  On worker 0 it is an active
\* message: notifAmCb appends the notification to the list under its lock.
ProgressWorker(w) ==
    /\ upEvents[w] # <<>>
    /\ upEvents' = [upEvents EXCEPT ![w] = Tail(@)]
    /\ upList' = IF w = 0 THEN Append(upList, Head(upEvents[w])) ELSE upList

\* progressLoop of the thread on a worker it serves.
ServeWorker ==
    /\ upThread = "serve"
    /\ \E w \in upServe : ProgressWorker(w)
    /\ UNCHANGED <<upArrived, upArmed, upReadable, upThread, upServe, upStop>>

\* Variant: a refused arm is taken for a successful one.
ArmOnce ==
    /\ upThread = "serve"
    /\ \E w \in upServe :
        /\ upArmed' = [upArmed EXCEPT ![w] = upEvents[w] = <<>>]
        /\ upReadable' = [upReadable EXCEPT ![w] = FALSE]
        /\ upServe' = upServe \ {w}
    /\ UNCHANGED <<upArrived, upEvents, upThread, upStop, upList>>

\* arm: refused while the worker has events, and then it is progressed again;
\* otherwise it clears the descriptor.
ArmWorker ==
    /\ upThread = "serve"
    /\ \E w \in upServe :
        /\ upEvents[w] = <<>>
        /\ upArmed' = [upArmed EXCEPT ![w] = TRUE]
        /\ upReadable' = [upReadable EXCEPT ![w] = FALSE]
        /\ upServe' = upServe \ {w}
    /\ UNCHANGED <<upArrived, upEvents, upThread, upStop, upList>>

\* The round ends: the thread goes to sleep, or leaves when it was stopped.
RoundEnds ==
    /\ upThread = "serve" /\ upServe = {}
    /\ upThread' = "poll"
    /\ UNCHANGED <<upArrived, upEvents, upArmed, upReadable, upServe, upStop, upList>>

\* poll() returns with readable descriptors; the control descriptor ends the
\* thread.
PollWakes ==
    /\ upThread = "poll"
    /\ upStop \/ \E w \in UpAll : upReadable[w]
    /\ upThread' = IF upStop THEN "exited" ELSE "serve"
    /\ upServe' = {w \in UpAll : upReadable[w]}
    /\ UNCHANGED <<upArrived, upEvents, upArmed, upReadable, upStop, upList>>

\* poll() times out: every worker is served.
PollTimesOut ==
    /\ upThread = "poll" /\ ~upStop /\ \A w \in UpAll : ~upReadable[w]
    /\ upThread' = "serve" /\ upServe' = UpAll
    /\ UNCHANGED <<upArrived, upEvents, upArmed, upReadable, upStop, upList>>

\* A caller progresses a worker from checkXfer.
CallerProgress ==
    /\ \E w \in UpAll : ProgressWorker(w)
    /\ UNCHANGED <<upArrived, upArmed, upReadable, upThread, upServe, upStop>>

\* getNotifs swaps the list with the caller's empty one.
TakeNotifs ==
    /\ upList # <<>>
    /\ upList' = <<>>
    /\ UNCHANGED <<upArrived, upEvents, upArmed, upReadable, upThread, upServe, upStop>>

\* The engine's destructor requests a stop, which writes the control descriptor.
RequestStop ==
    /\ ~upStop /\ upStop' = TRUE
    /\ UNCHANGED <<upArrived, upEvents, upArmed, upReadable, upThread, upServe, upList>>

UpThreadStep == ServeWorker \/ ArmWorker \/ RoundEnds \/ PollWakes

UpNext == \/ \E w \in UpAll : Arrive(w)
          \/ UpThreadStep \/ PollTimesOut \/ CallerProgress \/ TakeNotifs \/ RequestStop

\* The thread runs; nothing is assumed of time-outs or of callers.
UpFairness == WF_upVars(UpThreadStep)

UpSpec == UpInit /\ [][UpNext]_upVars /\ UpFairness

(***************************************************************************)
(* Properties.                                                             *)
(***************************************************************************)

\* No event waits, or the engine is stopped and its thread is gone.
UpAtRest == IF upStop THEN upThread = "exited" ELSE \A w \in 0 .. UpWorkers - 1 : upEvents[w] = <<>>
=============================================================================
