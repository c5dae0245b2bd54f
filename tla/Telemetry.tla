----------------------------- MODULE Telemetry -----------------------------
(***************************************************************************)
(* The telemetry: the staging queue of an agent, the shared ring of the    *)
(* buffer exporter and the DOCA exporter.                                  *)
(***************************************************************************)
EXTENDS Integers, Sequences, FiniteSets

(***************************************************************************)
(* Telemetry inside an agent (core/telemetry): application threads stage   *)
(* events in a bounded queue, a timer task drains it and hands the events, *)
(* the number of dropped events and the number of dropped trace phases to  *)
(* the exporter, and the destructor stops the task.                        *)
(***************************************************************************)

CONSTANTS
    TpThreads,     \* application threads
    TpScenarios    \* the settings: see tpSc

VARIABLES
    tpSc,       \* the setting: cap, maxBufferedEvents_; mask, the enabled metrics;
                \* calls and phases bound a thread's calls and the phase drops
    tpCalls,    \* thread -> calls made
    tpLive,     \* live_
    tpDrained,  \* what is left of the view that drainPending returned
    tpDropped,  \* numDroppedEvents_
    tpPhases,   \* tracePhasesDropped_
    tpTask,     \* the timer task: wait, export, dropped, phases, rearm, or off
    tpGone,     \* the destructor: no, stopping, or yes
    tpOut,      \* what the exporter was given
    tpAsked     \* for the properties: accepted events in their order, and the
                \* numbers of events rejected and of phases reported

tpVars == <<tpSc, tpCalls, tpLive, tpDrained, tpDropped, tpPhases, tpTask, tpGone, tpOut, tpAsked>>

TpInit ==
    /\ tpSc \in TpScenarios
    /\ tpCalls = [t \in TpThreads |-> 0]
    /\ tpLive = <<>> /\ tpDrained = <<>> /\ tpOut = <<>>
    /\ tpDropped = 0 /\ tpPhases = 0
    /\ tpTask = "wait" /\ tpGone = "no"
    /\ tpAsked = [events |-> <<>>, rejected |-> 0, phases |-> 0]

MetricEnabled(m) == m \in tpSc.mask

-----------------------------------------------------------------------------
\* Variant: as much of the batch as fits is queued.
TryPushBatchPart(batch) ==
    LET room == tpSc.cap - Len(tpLive)
        fits == SubSeq(batch, 1, IF Len(batch) < room THEN Len(batch) ELSE room)
    IN
    /\ tpLive' = tpLive \o fits
    /\ tpDropped' = tpDropped + Len(batch) - Len(fits)
    /\ tpAsked' = IF fits = batch THEN [tpAsked EXCEPT !.events = @ \o batch]
                  ELSE [tpAsked EXCEPT !.rejected = @ + Len(batch)]

\* tryPush and tryPushBatch, under the mutex: all of a batch or none of it.
TryPushBatch(batch) ==
    IF Len(batch) > tpSc.cap - Len(tpLive)
    THEN /\ tpDropped' = tpDropped + Len(batch)
         /\ tpAsked' = [tpAsked EXCEPT !.rejected = @ + Len(batch)]
         /\ UNCHANGED tpLive
    ELSE /\ tpLive' = tpLive \o batch
         /\ tpAsked' = [tpAsked EXCEPT !.events = @ \o batch]
         /\ UNCHANGED tpDropped

\* The events of a call that are enabled, in the order of the call.
Enabled(metrics, t) ==
    LET keep == SelectSeq(metrics, MetricEnabled) IN
    [i \in DOMAIN keep |-> [m |-> keep[i], t |-> t, k |-> tpCalls[t]]]

TpCall(t, metrics) ==
    /\ tpGone = "no" /\ tpCalls[t] < tpSc.calls
    /\ tpCalls' = [tpCalls EXCEPT ![t] = @ + 1]
    /\ TryPushBatch(Enabled(metrics, t))
    /\ UNCHANGED <<tpSc, tpDrained, tpPhases, tpTask, tpGone, tpOut>>

\* updateErrorCount, updateMemoryRegistered and the others: one event.
UpdateData(t) == TpCall(t, <<"count">>)

\* addXferStats: the enabled ones of post time, transfer time, bytes and
\* request count, as one batch.
AddXferStats(t) == TpCall(t, <<"post_time", "xfer_time", "bytes", "requests">>)

UpdateTracePhasesDropped ==
    /\ tpGone = "no" /\ tpAsked.phases < tpSc.phases
    /\ tpPhases' = tpPhases + 1
    /\ tpAsked' = [tpAsked EXCEPT !.phases = @ + 1]
    /\ UNCHANGED <<tpSc, tpCalls, tpLive, tpDrained, tpDropped, tpTask, tpGone, tpOut>>

-----------------------------------------------------------------------------
(* The timer task: flushPendingEvents, and registerPeriodicTask's re-arming. *)

\* drainPending: the buffers are swapped under the mutex.
DrainPending ==
    /\ tpTask = "wait" /\ tpGone = "no"
    /\ tpDrained' = tpLive
    /\ tpLive' = <<>>
    /\ tpTask' = "export"
    /\ UNCHANGED <<tpSc, tpCalls, tpDropped, tpPhases, tpGone, tpOut, tpAsked>>

TpExport ==
    /\ tpTask = "export"
    /\ IF tpDrained = <<>>
       THEN tpTask' = "dropped" /\ UNCHANGED <<tpDrained, tpOut>>
       ELSE /\ tpOut' = Append(tpOut, Head(tpDrained))
            /\ tpDrained' = Tail(tpDrained)
            /\ UNCHANGED tpTask
    /\ UNCHANGED <<tpSc, tpCalls, tpLive, tpDropped, tpPhases, tpGone, tpAsked>>

\* A count is given to the exporter when it is positive and its metric enabled.
Counted(m, n) ==
    IF n > 0 /\ MetricEnabled(m) THEN Append(tpOut, [m |-> m, n |-> n]) ELSE tpOut

\* exportDroppedEvents: takeNumDropped reads and resets in one exchange.
ExportDroppedEvents ==
    /\ tpTask = "dropped"
    /\ tpOut' = Counted("dropped", tpDropped)
    /\ tpDropped' = 0
    /\ tpTask' = "phases"
    /\ UNCHANGED <<tpSc, tpCalls, tpLive, tpDrained, tpPhases, tpGone, tpAsked>>

ExportTracePhasesDropped ==
    /\ tpTask = "phases"
    /\ tpOut' = Counted("phases", tpPhases)
    /\ tpPhases' = 0
    /\ tpTask' = "rearm"
    /\ UNCHANGED <<tpSc, tpCalls, tpLive, tpDrained, tpDropped, tpGone, tpAsked>>

\* The task is armed again unless the destructor has disabled it.
Rearm ==
    /\ tpTask = "rearm"
    /\ tpTask' = IF tpGone = "no" THEN "wait" ELSE "off"
    /\ UNCHANGED <<tpSc, tpCalls, tpLive, tpDrained, tpDropped, tpPhases, tpGone, tpOut, tpAsked>>

\* The destructor disables the task and stops the pool; join waits for a
\* callback that runs.
TpStop ==
    /\ tpGone = "no"
    /\ tpGone' = "stopping"
    /\ UNCHANGED <<tpSc, tpCalls, tpLive, tpDrained, tpDropped, tpPhases, tpTask, tpOut, tpAsked>>

TpJoin ==
    /\ tpGone = "stopping" /\ tpTask \in {"wait", "off"}
    /\ tpGone' = "yes"
    /\ UNCHANGED <<tpSc, tpCalls, tpLive, tpDrained, tpDropped, tpPhases, tpTask, tpOut, tpAsked>>

TpTaskStep ==
    \/ DrainPending \/ TpExport \/ ExportDroppedEvents \/ ExportTracePhasesDropped \/ Rearm
    \/ TpJoin

TpStep ==
    \/ \E t \in TpThreads : UpdateData(t) \/ AddXferStats(t)
    \/ UpdateTracePhasesDropped \/ TpTaskStep \/ TpStop

-----------------------------------------------------------------------------
IsEvent(e) == e.m \notin {"dropped", "phases"}
TpSum(m) == LET f[i \in 0..Len(tpOut)] ==
                  IF i = 0 THEN 0 ELSE f[i - 1] + (IF tpOut[i].m = m THEN tpOut[i].n ELSE 0)
            IN  f[Len(tpOut)]

\* Nothing is lost, repeated or reordered between a call and the exporter: what
\* was exported, what is drained and what is staged are together the accepted
\* events in their order, every batch whole; and the exported drop counts and
\* the pending ones add up to what was rejected (tryPushBatch, drainPending,
\* exportDroppedEvents, exportTracePhasesDropped).
TpConserved ==
    /\ SelectSeq(tpOut, IsEvent) \o tpDrained \o tpLive = tpAsked.events
    /\ Len(tpLive) <= tpSc.cap
    /\ MetricEnabled("dropped") => TpSum("dropped") + tpDropped = tpAsked.rejected
    /\ MetricEnabled("phases") => TpSum("phases") + tpPhases = tpAsked.phases

\* Everything accepted has been exported, or the telemetry object is gone.
TpFlushed == (tpLive = <<>> /\ tpDrained = <<>>) \/ tpGone = "yes"

-----------------------------------------------------------------------------
(***************************************************************************)
(* The shared ring of the buffer telemetry exporter (sharedRingBuffer): a  *)
(* file that one producer creates, reuses, resets or replaces and fills,   *)
(* and one consumer of another process opens and empties.  The producer    *)
(* restarts and the consumer detaches between any two accesses; the file   *)
(* lock is how the producer finds out about the consumer.                  *)
(***************************************************************************)

CONSTANTS SrScenarios   \* the settings: see srSc

VARIABLES
    srSc,      \* the setting: cap, slots of the ring (one stays empty); flock,
               \* do locks work; old, the version of the file found at first (0
               \* for none); pushes, starts and opens bound the calls of push,
               \* the producer's starts and the consumer's attempts to attach
    srFiles,   \* inodes in the order of their creation
    srName,    \* the inode the path names, or 0
    srProd,    \* the producer: pc, its inode, cachedReadPos_, number of events
    srCons     \* the consumer: pc, its inode, cachedWritePos_, the item read

srVars == <<srSc, srFiles, srName, srProd, srCons>>

SrCurrent == 1   \* TELEMETRY_VERSION; 0 is a header not yet written

\* An inode: its header, its slots, who holds its lock, and, for the
\* properties, the events stored since the header was written and how many of
\* them were taken.
SrBlank == [sized |-> FALSE, ver |-> 0, w |-> 0, r |-> 0, slot |-> <<>>,
            ex |-> FALSE, sh |-> FALSE, log |-> <<>>, taken |-> 0]
SrDown == [pc |-> "down", fd |-> 0, rd |-> 0, n |-> 0, starts |-> 0]
SrOut == [pc |-> "out", fd |-> 0, wr |-> 0, item |-> 0, opens |-> 0]

SrInit ==
    /\ srSc \in SrScenarios
    /\ srFiles = IF srSc.old = 0 THEN <<>>
                 ELSE <<[SrBlank EXCEPT !.sized = TRUE, !.ver = srSc.old,
                                        !.slot = [i \in 0..(srSc.cap - 1) |-> 0]]>>
    /\ srName = Len(srFiles)
    /\ srProd = SrDown
    /\ srCons = SrOut

SrNext(pos) == (pos + 1) % srSc.cap
Mine == srFiles[srProd.fd]     \* the producer's inode
Theirs == srFiles[srCons.fd]   \* the consumer's inode

-----------------------------------------------------------------------------
(* createCyclicBuffer.                                                       *)

\* The path is opened when it exists.
SrOpen ==
    /\ srProd.pc = "down" /\ srProd.starts < srSc.starts
    /\ srProd' = [srProd EXCEPT !.pc = IF srName = 0 THEN "create" ELSE "probe",
                                !.fd = srName, !.starts = @ + 1]
    /\ UNCHANGED <<srSc, srFiles, srName, srCons>>

\* The size, the version and the capacity of the file found are the wanted ones.
Compatible(f) == f.sized /\ f.ver = SrCurrent

\* The file found is reused while a consumer holds the shared lock, reset when
\* nobody does, and replaced when it is of another kind or cannot be probed.
FileAction ==
    IF ~Compatible(Mine) \/ ~srSc.flock THEN "replace"
    ELSE IF Mine.sh THEN "reuse" ELSE "reset"

SrProbe ==
    /\ srProd.pc = "probe"
    /\ \/ /\ FileAction = "reuse"
          /\ srProd' = [srProd EXCEPT !.pc = "seed"]
          /\ UNCHANGED <<srFiles, srName>>
       \/ /\ FileAction = "reset"
          /\ srFiles' = [srFiles EXCEPT ![srProd.fd].ex = TRUE]
          /\ srProd' = [srProd EXCEPT !.pc = "size"]
          /\ UNCHANGED srName
       \/ /\ FileAction = "replace"
          /\ srName' = 0   \* unlink, whose failure is an exception
          /\ srProd' = [srProd EXCEPT !.pc = IF srName = 0 THEN "down" ELSE "create", !.fd = 0]
          /\ UNCHANGED srFiles
    /\ UNCHANGED <<srSc, srCons>>

\* open(O_CREAT | O_EXCL).
SrCreate ==
    /\ srProd.pc = "create" /\ srName = 0
    /\ srFiles' = Append(srFiles, SrBlank)
    /\ srName' = Len(srFiles) + 1
    /\ srProd' = [srProd EXCEPT !.pc = "lock", !.fd = Len(srFiles) + 1]
    /\ UNCHANGED <<srSc, srCons>>

\* The exclusive lock on the new file; without it the producer only warns.
SrLock ==
    /\ srProd.pc = "lock"
    /\ srFiles' = [srFiles EXCEPT ![srProd.fd].ex = srSc.flock /\ ~Mine.sh]
    /\ srProd' = [srProd EXCEPT !.pc = "size"]
    /\ UNCHANGED <<srSc, srName, srCons>>

SrTruncate ==
    /\ srProd.pc = "size"
    /\ srFiles' = [srFiles EXCEPT ![srProd.fd].sized = TRUE,
                     ![srProd.fd].slot = IF Mine.sized THEN @ ELSE [i \in 0..(srSc.cap - 1) |-> 0]]
    /\ srProd' = [srProd EXCEPT !.pc = "head"]
    /\ UNCHANGED <<srSc, srName, srCons>>

\* The header is constructed: positions zero, version zero.
SrHeader ==
    /\ srProd.pc = "head"
    /\ srFiles' = [srFiles EXCEPT ![srProd.fd].w = 0, ![srProd.fd].r = 0, ![srProd.fd].ver = 0,
                                  ![srProd.fd].log = <<>>, ![srProd.fd].taken = 0]
    /\ srProd' = [srProd EXCEPT !.pc = "version"]
    /\ UNCHANGED <<srSc, srName, srCons>>

SrVersion ==
    /\ srProd.pc = "version"
    /\ srFiles' = [srFiles EXCEPT ![srProd.fd].ver = SrCurrent]
    /\ srProd' = [srProd EXCEPT !.pc = "seed"]
    /\ UNCHANGED <<srSc, srName, srCons>>

\* The cached position is taken from the header and the descriptor closed.
SrSeed ==
    /\ srProd.pc = "seed"
    /\ srFiles' = [srFiles EXCEPT ![srProd.fd].ex = FALSE]
    /\ srProd' = [srProd EXCEPT !.pc = "up", !.rd = Mine.r]
    /\ UNCHANGED <<srSc, srName, srCons>>

\* The producer's process ends, in order or not: its lock goes with it.
SrEnds ==
    /\ srProd.pc # "down"
    /\ srFiles' = IF srProd.fd = 0 THEN srFiles ELSE [srFiles EXCEPT ![srProd.fd].ex = FALSE]
    /\ srProd' = [srProd EXCEPT !.pc = "down", !.fd = 0, !.rd = 0]
    /\ UNCHANGED <<srSc, srName, srCons>>

-----------------------------------------------------------------------------
(* push and pop.                                                             *)

\* push(): the consumer's position is read again only when the cached one
\* says that the ring is full.
SrFresh == IF SrNext(Mine.w) = srProd.rd THEN Mine.r ELSE srProd.rd

SrPush ==
    /\ srProd.pc = "up" /\ srProd.n < srSc.pushes
    /\ IF SrNext(Mine.w) = SrFresh
       THEN /\ srProd' = [srProd EXCEPT !.rd = SrFresh, !.n = @ + 1]
            /\ UNCHANGED srFiles
       ELSE /\ srFiles' = [srFiles EXCEPT ![srProd.fd].slot[Mine.w] = srProd.n + 1]
            /\ srProd' = [srProd EXCEPT !.pc = "store", !.rd = SrFresh, !.n = @ + 1]
    /\ UNCHANGED <<srSc, srName, srCons>>

SrStore ==
    /\ srProd.pc = "store"
    /\ srFiles' = [srFiles EXCEPT ![srProd.fd].w = SrNext(Mine.w),
                                  ![srProd.fd].log = Append(Mine.log, srProd.n)]
    /\ srProd' = [srProd EXCEPT !.pc = "up"]
    /\ UNCHANGED <<srSc, srName, srCons>>

\* pop(): the producer's position likewise.
SrSeen == IF Theirs.r = srCons.wr THEN Theirs.w ELSE srCons.wr

SrPop ==
    /\ srCons.pc = "in" /\ Theirs.r # SrSeen
    /\ srCons' = [srCons EXCEPT !.pc = "took", !.wr = SrSeen, !.item = Theirs.slot[Theirs.r]]
    /\ UNCHANGED <<srSc, srFiles, srName, srProd>>

SrTaken ==
    /\ srCons.pc = "took"
    /\ srFiles' = [srFiles EXCEPT ![srCons.fd].r = SrNext(Theirs.r), ![srCons.fd].taken = @ + 1]
    /\ srCons' = [srCons EXCEPT !.pc = "in", !.item = 0]
    /\ UNCHANGED <<srSc, srName, srProd>>

-----------------------------------------------------------------------------
(* openCyclicBuffer.                                                         *)

SrAttach ==
    /\ srCons.pc = "out" /\ srCons.opens < srSc.opens /\ srName # 0
    /\ srCons' = [srCons EXCEPT !.pc = "opened", !.fd = srName, !.opens = @ + 1]
    /\ UNCHANGED <<srSc, srFiles, srName, srProd>>

\* flock(LOCK_SH) waits for the producer's lock; one that does not work is
\* done without.
SrShared ==
    /\ srCons.pc = "opened" /\ ~Theirs.ex
    /\ srFiles' = [srFiles EXCEPT ![srCons.fd].sh = srSc.flock]
    /\ srCons' = [srCons EXCEPT !.pc = "locked"]
    /\ UNCHANGED <<srSc, srName, srProd>>

\* The consumer leaves: its descriptor closes.
SrLeaves(c) == [c EXCEPT !.pc = "out", !.fd = 0, !.wr = 0, !.item = 0]

\* A file without a header is an exception, one of another version is also
\* unlinked; otherwise the cached position is taken from the header.
SrCheck ==
    /\ srCons.pc = "locked"
    /\ \/ /\ ~Theirs.sized
          /\ srFiles' = [srFiles EXCEPT ![srCons.fd].sh = FALSE]
          /\ srCons' = SrLeaves(srCons)
       \/ /\ Theirs.sized /\ Theirs.ver # SrCurrent
          /\ srCons' = [srCons EXCEPT !.pc = "mismatch"]
          /\ UNCHANGED srFiles
       \/ /\ Compatible(Theirs)
          /\ srCons' = [srCons EXCEPT !.pc = "in", !.wr = Theirs.w]
          /\ UNCHANGED srFiles
    /\ UNCHANGED <<srSc, srName, srProd>>

SrUnlink ==
    /\ srCons.pc = "mismatch"
    /\ srName' = 0
    /\ srFiles' = [srFiles EXCEPT ![srCons.fd].sh = FALSE]
    /\ srCons' = SrLeaves(srCons)
    /\ UNCHANGED <<srSc, srProd>>

\* The consumer's process ends.
SrDetach ==
    /\ srCons.pc # "out"
    /\ srFiles' = [srFiles EXCEPT ![srCons.fd].sh = FALSE]
    /\ srCons' = SrLeaves(srCons)
    /\ UNCHANGED <<srSc, srName, srProd>>

-----------------------------------------------------------------------------
SrStep ==
    \/ SrOpen \/ SrProbe \/ SrCreate \/ SrLock \/ SrTruncate \/ SrHeader \/ SrVersion \/ SrSeed
    \/ SrEnds \/ SrPush \/ SrStore \/ SrPop \/ SrTaken
    \/ SrAttach \/ SrShared \/ SrCheck \/ SrUnlink \/ SrDetach

\* Over every restart of the producer and every change of the consumer, the
\* consumer takes the events of a file one after the other in the order in
\* which they were stored, none twice and none skipped, and the positions
\* count what is left (push, pop, createCyclicBuffer).
SrExact ==
    /\ \A i \in DOMAIN srFiles :
         srFiles[i].ver = SrCurrent =>
             (srFiles[i].w - srFiles[i].r) % srSc.cap = Len(srFiles[i].log) - srFiles[i].taken
    /\ srCons.pc = "took" =>
         /\ Theirs.taken < Len(Theirs.log)
         /\ srCons.item = Theirs.log[Theirs.taken + 1]

\* While a consumer is attached and locks work, a restarting producer neither
\* resets the file nor takes its name away: what was stored is still read
\* ("a consumer attached (shared flock held): reused with its positions").
SrAttachedKept ==
    [][ srSc.flock /\ srCons.pc \in {"in", "took"} =>
          /\ Len(srFiles[srCons.fd].log) <= Len(srFiles'[srCons.fd].log)
          /\ srName = srCons.fd => srName' = srCons.fd ]_srVars

-----------------------------------------------------------------------------
(***************************************************************************)
(* The DOCA telemetry exporter (plugins/telemetry/doca/doca_exporter.cpp): *)
(* the process-wide DOCA context its exporters share, built in stages that *)
(* may each fail, and the recording and flushing of their metrics.         *)
(***************************************************************************)

CONSTANTS
    DxAgents,      \* the exporters' agents
    DxMaxEvents,   \* bound on events of an agent
    DxMaxLives     \* bound on the contexts of a run

\* The stages of DocaSharedContext's constructor; "source" and "metrics" hold
\* DOCA objects that cleanup must destroy, in the reverse order.
DxStages == <<"schema", "schema_started", "source", "source_started", "metrics", "labels",
              "histograms">>

VARIABLES
    dxAgent,    \* agent -> [pc, config]; pc: out, config, building, in
    dxCtx,      \* g_ctx_weak's context: [stage, config, users]; stage 0 is none
    dxLib,      \* the DOCA objects alive, by stage name
    dxBuilt,    \* contexts begun, a bound
    dxWrong,    \* whether an object was destroyed before one made from it
    dxSeen,     \* agent -> [count, observed, shown]: what its counter, its histogram
                \* and the export buffer hold
    dxIds,      \* histogram_ids
    dxSent,     \* agent -> [count, observed]: what was transmitted
    dxCalls,    \* agent -> events recorded: [n, counted, observed]
    dxOk        \* whether the last call was a flush that succeeded

dxVars == <<dxAgent, dxCtx, dxLib, dxBuilt, dxWrong, dxSeen, dxIds, dxSent, dxCalls,
            dxOk>>
dxMetrics == <<dxSeen, dxIds, dxSent, dxCalls>>

NoDxCtx == [stage |-> 0, config |-> "none", users |-> {}]
Nothing == [count |-> 0, observed |-> 0, shown |-> 0]
DxConfigs == {"scrape", "ipc"}

DxInit ==
    /\ dxAgent = [a \in DxAgents |-> [pc |-> "out", config |-> "none"]]
    /\ dxCtx = NoDxCtx /\ dxLib = {} /\ dxBuilt = 0 /\ dxWrong = FALSE
    /\ dxSeen = [a \in DxAgents |-> Nothing] /\ dxIds = {}
    /\ dxSent = [a \in DxAgents |-> [count |-> 0, observed |-> 0]]
    /\ dxCalls = [a \in DxAgents |-> [n |-> 0, counted |-> 0, observed |-> 0]]
    /\ dxOk = FALSE

\* g_ctx_mutex is held from the look at the shared context to its last stage.
CtxMutexFree == \A a \in DxAgents : dxAgent[a].pc # "building"

\* parseExporterConfig, which throws on an unknown name.
ParseExporterConfig(a, config) ==
    /\ dxAgent[a].pc = "out" /\ dxBuilt < DxMaxLives
    /\ dxAgent' = [dxAgent EXCEPT ![a] = [pc |-> "config", config |-> config]]
    /\ dxOk' = FALSE
    /\ UNCHANGED <<dxCtx, dxLib, dxBuilt, dxWrong, dxMetrics>>

\* The constructor shares the context there is, whatever its configuration.
ShareContext(a) ==
    /\ dxAgent[a].pc = "config" /\ CtxMutexFree /\ dxCtx.users # {}
    /\ dxCtx' = [dxCtx EXCEPT !.users = @ \cup {a}]
    /\ dxAgent' = [dxAgent EXCEPT ![a].pc = "in"]
    /\ dxOk' = FALSE
    /\ UNCHANGED <<dxLib, dxBuilt, dxWrong, dxMetrics>>

NewDocaContext(a) ==
    /\ dxAgent[a].pc = "config" /\ CtxMutexFree /\ dxCtx.users = {}
    /\ dxCtx' = [stage |-> 0, config |-> dxAgent[a].config, users |-> {}]
    /\ dxAgent' = [dxAgent EXCEPT ![a].pc = "building"]
    /\ dxBuilt' = dxBuilt + 1
    /\ dxOk' = FALSE
    /\ UNCHANGED <<dxLib, dxWrong, dxMetrics>>

\* One stage succeeds; at the last one the context is shared.
BuildStage(a) ==
    LET next == dxCtx.stage + 1 IN
    /\ dxAgent[a].pc = "building"
    /\ dxLib' = dxLib \cup ({DxStages[next]} \cap {"schema", "source", "metrics"})
    /\ IF next < Len(DxStages)
       THEN /\ dxCtx' = [dxCtx EXCEPT !.stage = next]
            /\ UNCHANGED dxAgent
       ELSE /\ dxCtx' = [dxCtx EXCEPT !.stage = next, !.users = {a}]
            /\ dxAgent' = [dxAgent EXCEPT ![a].pc = "in"]
    /\ dxOk' = FALSE
    /\ UNCHANGED <<dxBuilt, dxWrong, dxMetrics>>

\* cleanup: what it destroys, in its order, for a context at `stage`.
CleanedUp(stage) ==
    (IF stage >= 5 THEN <<"metrics">> ELSE <<>>)
    \o (IF stage >= 3 THEN <<"source">> ELSE <<>>)
    \o (IF stage >= 1 THEN <<"schema">> ELSE <<>>)

\* What may not exist any more when an object is destroyed.
MadeFrom(x) == CASE x = "schema" -> {"source", "metrics"} [] x = "source" -> {"metrics"} [] OTHER -> {}

Cleanup(stage) ==
    LET order == CleanedUp(stage)
        left(i) == dxLib \ {order[j] : j \in 1..i - 1}
    IN  /\ dxLib' = dxLib \ {order[i] : i \in DOMAIN order}
        /\ dxWrong' = (dxWrong \/ \E i \in DOMAIN order : MadeFrom(order[i]) \cap left(i) # {})
        /\ dxCtx' = NoDxCtx

\* The stage after the present one fails: cleanup, and the exporter's
\* constructor throws.
StageFails(a) ==
    /\ dxAgent[a].pc = "building"
    /\ Cleanup(dxCtx.stage)
    /\ dxAgent' = [dxAgent EXCEPT ![a] = [pc |-> "out", config |-> "none"]]
    /\ dxOk' = FALSE
    /\ UNCHANGED <<dxBuilt, dxMetrics>>

\* exportEvent under g_metrics_mutex: the histogram's observation and the
\* counter's increment fail independently; an error event has only a counter.
DxExportEvent(a) ==
    /\ dxAgent[a].pc = "in" /\ dxCalls[a].n < DxMaxEvents
    /\ \E hist, observe, count \in BOOLEAN :
         LET h == IF hist /\ observe THEN 1 ELSE 0
             c == IF count THEN 1 ELSE 0
         IN  /\ dxSeen' = [dxSeen EXCEPT ![a].count = @ + c, ![a].observed = @ + h]
             /\ dxIds' = IF h = 1 THEN dxIds \cup {a} ELSE dxIds
             /\ dxCalls' = [dxCalls EXCEPT ![a] = [n |-> @.n + 1, counted |-> @.counted + c,
                                                   observed |-> @.observed + h]]
    /\ dxOk' = FALSE
    /\ UNCHANGED <<dxAgent, dxCtx, dxLib, dxBuilt, dxWrong, dxSent>>

\* The histograms flush puts into the export buffer: those of all agents.
Snapshots(a) == dxIds

\* flush: every histogram's snapshot first (some may fail), then everything in
\* the buffer is transmitted, or that fails.
DxFlush(a) ==
    /\ dxAgent[a].pc = "in"
    /\ \E failed \in SUBSET Snapshots(a) : \E sent \in BOOLEAN :
         LET shown == [b \in DxAgents |-> IF b \in Snapshots(a) \ failed
                                          THEN dxSeen[b].observed ELSE dxSeen[b].shown]
         IN  /\ dxSeen' = [b \in DxAgents |-> [dxSeen[b] EXCEPT !.shown = shown[b]]]
             /\ dxSent' = IF sent THEN [b \in DxAgents |-> [count |-> dxSeen[b].count,
                                                            observed |-> shown[b]]]
                          ELSE dxSent
             /\ dxOk' = (sent /\ failed = {})
    /\ UNCHANGED <<dxAgent, dxCtx, dxLib, dxBuilt, dxWrong, dxIds, dxCalls>>

\* The destructor under g_ctx_mutex: the last exporter destroys the context,
\* and what it had recorded goes with it.
LeaveContext(a) ==
    /\ dxAgent[a].pc = "in" /\ CtxMutexFree
    /\ dxAgent' = [dxAgent EXCEPT ![a] = [pc |-> "out", config |-> "none"]]
    /\ IF dxCtx.users = {a}
       THEN /\ Cleanup(dxCtx.stage)
            /\ dxSeen' = [b \in DxAgents |-> Nothing]
            /\ dxIds' = {}
            /\ dxSent' = [b \in DxAgents |-> [count |-> 0, observed |-> 0]]
            /\ dxCalls' = [b \in DxAgents |-> [n |-> dxCalls[b].n, counted |-> 0, observed |-> 0]]
       ELSE /\ dxCtx' = [dxCtx EXCEPT !.users = @ \ {a}]
            /\ UNCHANGED <<dxLib, dxWrong, dxMetrics>>
    /\ dxOk' = FALSE
    /\ UNCHANGED dxBuilt

DxStep ==
    \E a \in DxAgents :
        \/ \E config \in DxConfigs : ParseExporterConfig(a, config)
        \/ ShareContext(a) \/ NewDocaContext(a) \/ BuildStage(a) \/ StageFails(a)
        \/ DxExportEvent(a) \/ DxFlush(a) \/ LeaveContext(a)

\* An exporter works on the one context, fully built; when there is none, and
\* no exporter is building one, nothing of DOCA is left, and nothing was ever
\* destroyed before what was made from it (DocaSharedContext, cleanup).
DxContextWhole ==
    /\ \A a \in DxAgents : dxAgent[a].pc = "in" <=> a \in dxCtx.users
    /\ dxCtx.users # {} => dxCtx.stage = Len(DxStages) /\ dxLib = {"schema", "source", "metrics"}
    /\ (\A a \in DxAgents : dxAgent[a].pc \in {"out", "config"}) => dxLib = {}
    /\ ~dxWrong

\* After a flush that reported success, all that any agent's exporter recorded
\* was transmitted: its counter and all observations of its histogram, whichever
\* agent flushed (flush's two phases, histogram_ids).
DxFlushed ==
    dxOk => \A a \in DxAgents : /\ dxSent[a].count = dxCalls[a].counted
                               /\ dxSent[a].observed = dxCalls[a].observed
=============================================================================
