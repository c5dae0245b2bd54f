------------------------------ MODULE MetricsDir ------------------------------
(***************************************************************************)
(* The multi-process Prometheus exporter (plugins/telemetry/prometheus_mp):*)
(* every agent of every process writes a store file of its own into a      *)
(* shared directory, one elected process serves the scrape endpoint, and a *)
(* scrape walks the directory, publishes the stores and reaps the ones     *)
(* whose writer is gone.  Processes start, crash and restart between any   *)
(* two steps; the scrape probes, reads and judges one file at a time.      *)
(***************************************************************************)
EXTENDS Integers, Sequences, FiniteSets

CONSTANTS
    PmProcs,      \* processes, numbered as their pids are ordered
    PmScenarios,  \* the settings: see pmSc
    PmNames,      \* agent identities: host name, agent name, local rank
    PmTtl         \* NIXL_TELEMETRY_MP_STALE_TTL

ASSUME PmAssumption == PmProcs \subseteq Nat \ {0} /\ PmTtl \in Nat

VARIABLES
    pmSc,      \* the setting: flock, do locks work on the file system; junk, is
               \* there a file of other contents; foreign, is the port held from
               \* outside at first; silent, the processes that export nothing
               \* after their start; files, time and count bound the number of
               \* files, the clock and the events counted in a store
    pmNow,     \* the monotonic clock
    pmFiles,   \* store files in the order of their creation
    pmEnd,     \* process -> its scrapeEndpoint: [pc, elect, cool]
    pmPort,    \* who is bound to the address: a process, PortFree or PortForeign
    pmBlame,   \* whose endpoints held the port when a winner failed to bind
    pmScan     \* the serving process's scrape

pmVars == <<pmSc, pmNow, pmFiles, pmEnd, pmPort, pmBlame, pmScan>>

PortFree == 0
PortForeign == -1   \* a process outside the run

NoEndpoint == [pc |-> "none", elect |-> FALSE, cool |-> FALSE]
NoScan == [pc |-> "idle", todo |-> {}, from |-> {}, cur |-> 0, alive |-> FALSE,
           snap |-> [upd |-> 0, n |-> 0], live |-> {}]
PmJunk == [proc |-> 0, name |-> "junk", st |-> "junk", locked |-> FALSE, named |-> TRUE,
         upd |-> 0, n |-> 0, reaped |-> 0]

PmInit ==
    /\ pmSc \in PmScenarios
    /\ pmNow = 1
    /\ pmFiles = IF pmSc.junk THEN <<PmJunk>> ELSE <<>>
    /\ pmEnd = [p \in PmProcs |-> NoEndpoint]
    /\ pmPort = IF pmSc.foreign THEN PortForeign ELSE PortFree
    /\ pmBlame = {}
    /\ pmScan = NoScan

PmFileIds == DOMAIN pmFiles
AgentsOf(p) == {f \in PmFileIds : pmFiles[f].proc = p /\ pmFiles[f].st \in {"staged", "named", "on", "leaving"}}
PmSharing(p) == {f \in AgentsOf(p) : pmFiles[f].st = "on"}
PmServing(p) == pmPort = p

-----------------------------------------------------------------------------
(* An agent's exporter.                                                      *)

\* stageStore and the rest of the store writer's constructor: the file has no
\* name a reader looks at, it is locked, then filled, with its first heartbeat.
StageStore(p, name) ==
    /\ Len(pmFiles) < pmSc.files
    /\ pmEnd[p].pc # "dying"
    /\ pmFiles' = Append(pmFiles, [proc |-> p, name |-> name, st |-> "staged", locked |-> pmSc.flock,
                                   named |-> FALSE, upd |-> pmNow, n |-> 0, reaped |-> 0])
    /\ UNCHANGED <<pmSc, pmNow, pmEnd, pmPort, pmBlame, pmScan>>

\* publishStore: from here on a scrape can find the store.
PublishStore(f) ==
    /\ pmFiles[f].st = "staged"
    /\ pmFiles' = [pmFiles EXCEPT ![f].st = "named", ![f].named = TRUE]
    /\ UNCHANGED <<pmSc, pmNow, pmEnd, pmPort, pmBlame, pmScan>>

\* The exporter takes the process's endpoint when there is one.
ShareEndpoint(f) ==
    /\ pmFiles[f].st = "named"
    /\ pmEnd[pmFiles[f].proc].pc = "up"
    /\ pmFiles' = [pmFiles EXCEPT ![f].st = "on"]
    /\ UNCHANGED <<pmSc, pmNow, pmEnd, pmPort, pmBlame, pmScan>>

\* ownerElection: the lock file admits one process; where locks do not work
\* nobody loses and the port decides.
PmWon(p) == ~pmSc.flock \/ \A q \in PmProcs \ {p} : ~pmEnd[q].elect

\* The first agent of a process makes the endpoint and claims the address.
PmClaim(f) ==
    LET p == pmFiles[f].proc IN
    /\ pmFiles[f].st = "named" /\ pmEnd[p].pc = "none"
    /\ pmFiles' = [pmFiles EXCEPT ![f].st = "on"]
    /\ pmEnd' = [pmEnd EXCEPT ![p] =
         IF PmWon(p) THEN [NoEndpoint EXCEPT !.pc = "serve", !.elect = TRUE]
         ELSE [NoEndpoint EXCEPT !.pc = "up"]]
    /\ UNCHANGED <<pmSc, pmNow, pmPort, pmBlame, pmScan>>

PortState == IF pmPort = PortForeign THEN "foreign" ELSE pmEnd[pmPort].pc

\* serve(): binds, or concedes the election when the port is held.
PmServe(p) ==
    /\ pmEnd[p].pc = "serve"
    /\ IF pmPort = PortFree
       THEN pmPort' = p /\ UNCHANGED pmBlame
       ELSE pmBlame' = pmBlame \cup {PortState} /\ UNCHANGED pmPort
    /\ pmEnd' = [pmEnd EXCEPT ![p].pc = "up", ![p].elect = pmPort = PortFree]
    /\ UNCHANGED <<pmSc, pmNow, pmFiles, pmScan>>

\* reclaim(), from the export path: at most once per interval a process that
\* does not serve runs the election again.
PmReclaim(p) ==
    [pmEnd EXCEPT ![p] =
        IF @.pc # "up" \/ PmServing(p) \/ @.cool THEN @
        ELSE [@ EXCEPT !.cool = TRUE, !.elect = PmWon(p), !.pc = IF PmWon(p) THEN "serve" ELSE "up"]]

\* exportEvent: the counter, then the heartbeat, then the reclaim.
ExportEvent(f) ==
    /\ pmFiles[f].st = "on" /\ pmFiles[f].proc \notin pmSc.silent
    /\ pmFiles' = [pmFiles EXCEPT ![f].n = IF @ < pmSc.count THEN @ + 1 ELSE @, ![f].upd = pmNow]
    /\ pmEnd' = PmReclaim(pmFiles[f].proc)
    /\ UNCHANGED <<pmSc, pmNow, pmPort, pmBlame, pmScan>>

\* The interval of reclaim(), or its backoff, is over.
CoolDown(p) ==
    /\ pmEnd[p].cool /\ pmEnd[p].pc = "up"
    /\ pmEnd' = [pmEnd EXCEPT ![p].cool = FALSE]
    /\ UNCHANGED <<pmSc, pmNow, pmFiles, pmPort, pmBlame, pmScan>>

\* The last agent's exporter drops the endpoint: the exposer stops once no
\* scrape runs, and frees the port before the election is released.
DestroyEndpoint(f) ==
    LET p == pmFiles[f].proc IN
    /\ pmFiles[f].st = "on" /\ pmEnd[p].pc = "up" /\ PmSharing(p) = {f}
    /\ pmScan.pc = "idle" \/ ~PmServing(p)
    /\ pmFiles' = [pmFiles EXCEPT ![f].st = "leaving"]
    /\ pmEnd' = [pmEnd EXCEPT ![p].pc = "closing"]
    /\ pmPort' = IF PmServing(p) THEN PortFree ELSE pmPort
    /\ UNCHANGED <<pmSc, pmNow, pmBlame, pmScan>>

ReleaseElection(p) ==
    /\ pmEnd[p].pc = "closing"
    /\ pmEnd' = [pmEnd EXCEPT ![p] = NoEndpoint]
    /\ UNCHANGED <<pmSc, pmNow, pmFiles, pmPort, pmBlame, pmScan>>

\* Another agent of the process still shares the endpoint.
LeaveEndpoint(f) ==
    /\ pmFiles[f].st = "on" /\ pmEnd[pmFiles[f].proc].pc = "up"
    /\ PmSharing(pmFiles[f].proc) # {f}
    /\ pmFiles' = [pmFiles EXCEPT ![f].st = "leaving"]
    /\ UNCHANGED <<pmSc, pmNow, pmEnd, pmPort, pmBlame, pmScan>>

\* The store goes last: its descriptor is closed and with it the lock.
CloseStore(f) ==
    /\ pmFiles[f].st = "leaving" /\ pmEnd[pmFiles[f].proc].pc # "closing"
    /\ pmFiles' = [pmFiles EXCEPT ![f].st = "closed", ![f].locked = FALSE]
    /\ UNCHANGED <<pmSc, pmNow, pmEnd, pmPort, pmBlame, pmScan>>

\* A process dies.  Its descriptors close in the order they were opened:
\* stores and lock file, and the listening socket some time later.
PmCrash(p) ==
    /\ AgentsOf(p) # {} /\ pmEnd[p].pc # "dying"
    /\ pmFiles' = [f \in PmFileIds |->
         IF f \in AgentsOf(p) THEN [pmFiles[f] EXCEPT !.st = "closed", !.locked = FALSE]
         ELSE pmFiles[f]]
    /\ pmEnd' = [pmEnd EXCEPT ![p] = [NoEndpoint EXCEPT !.pc = IF PmServing(p) THEN "dying" ELSE "none"]]
    /\ pmScan' = IF PmServing(p) THEN NoScan ELSE pmScan
    /\ UNCHANGED <<pmSc, pmNow, pmPort, pmBlame>>

SocketCloses(p) ==
    /\ pmEnd[p].pc = "dying"
    /\ pmEnd' = [pmEnd EXCEPT ![p] = NoEndpoint]
    /\ pmPort' = PortFree
    /\ UNCHANGED <<pmSc, pmNow, pmFiles, pmBlame, pmScan>>

\* A process outside the run gives the port up.
ForeignLeaves ==
    /\ pmPort = PortForeign
    /\ pmPort' = PortFree
    /\ UNCHANGED <<pmSc, pmNow, pmFiles, pmEnd, pmBlame, pmScan>>

PmTick ==
    /\ pmNow < pmSc.time
    /\ pmNow' = pmNow + 1
    /\ UNCHANGED <<pmSc, pmFiles, pmEnd, pmPort, pmBlame, pmScan>>

-----------------------------------------------------------------------------
(* A scrape by the serving process: Collect().                               *)

\* Collect opens the directory; `from` remembers what a reader could see.
ScanStart ==
    /\ pmPort \in PmProcs /\ pmEnd[pmPort].pc = "up" /\ pmScan.pc = "idle"
    /\ pmScan' = [NoScan EXCEPT !.pc = "iter", !.todo = {f \in PmFileIds : pmFiles[f].named},
                    !.from = {[f |-> f, n |-> pmFiles[f].n] :
                                f \in {g \in PmFileIds : pmFiles[g].named /\ pmFiles[g].st # "closed"}}]
    /\ UNCHANGED <<pmSc, pmNow, pmFiles, pmEnd, pmPort, pmBlame>>

\* storeWriterAlive: a file that cannot be opened, and one that cannot be
\* locked, counts as alive.
StoreWriterAlive(f) == ~pmFiles[f].named \/ ~pmSc.flock \/ pmFiles[f].locked

\* readStoreSnapshot.
PmSnapshot(f) == [upd |-> pmFiles[f].upd, n |-> pmFiles[f].n]

\* Variant: the snapshot is taken before the writer is probed.
ScanOrderSwapped == <<"read", "probe">>

\* scanLiveStores, per file: first the probe, then the read, then the verdict.
ScanOrder == <<"probe", "read">>

Looked(what, f) ==
    IF what = "probe" THEN [pmScan EXCEPT !.cur = f, !.alive = StoreWriterAlive(f)]
    ELSE [pmScan EXCEPT !.cur = f, !.snap = PmSnapshot(f)]

ScanFirst(f) ==
    /\ pmScan.pc = "iter" /\ f \in pmScan.todo
    /\ pmScan' = [Looked(ScanOrder[1], f) EXCEPT !.pc = "first"]
    /\ UNCHANGED <<pmSc, pmNow, pmFiles, pmEnd, pmPort, pmBlame>>

ScanSecond ==
    /\ pmScan.pc = "first"
    /\ pmScan' = [Looked(ScanOrder[2], pmScan.cur) EXCEPT !.pc = "second"]
    /\ UNCHANGED <<pmSc, pmNow, pmFiles, pmEnd, pmPort, pmBlame>>

\* isSnapshotLive.
SnapshotLive(s) == s.alive \/ (pmNow >= s.snap.upd /\ pmNow - s.snap.upd <= PmTtl)

\* A live store is kept for publication; a dead one past its time, and a file
\* with foreign contents that nobody holds, are removed.
ScanJudge ==
    LET f == pmScan.cur
        valid == pmFiles[f].st # "junk"
        reap == IF valid THEN ~SnapshotLive(pmScan) ELSE ~pmScan.alive
    IN
    /\ pmScan.pc = "second"
    /\ pmFiles' = IF reap THEN [pmFiles EXCEPT ![f].named = FALSE, ![f].reaped = pmNow] ELSE pmFiles
    /\ pmScan' = [pmScan EXCEPT !.pc = "iter", !.todo = @ \ {f}, !.cur = 0, !.alive = FALSE,
                    !.snap = NoScan.snap,
                    !.live = IF valid /\ ~reap
                             THEN @ \cup {[f |-> f, alive |-> pmScan.alive,
                                           upd |-> pmScan.snap.upd, n |-> pmScan.snap.n]}
                             ELSE @]
    /\ UNCHANGED <<pmSc, pmNow, pmEnd, pmPort, pmBlame>>

\* The iteration meets a store that was named after it began.
ScanMeets(f) ==
    /\ pmScan.pc = "iter" /\ f \notin pmScan.todo /\ pmFiles[f].named
    /\ \A s \in pmScan.live : s.f # f
    /\ \A s \in pmScan.from : s.f # f
    /\ pmFiles[f].st # "junk"
    /\ pmScan' = [pmScan EXCEPT !.todo = @ \cup {f}]
    /\ UNCHANGED <<pmSc, pmNow, pmFiles, pmEnd, pmPort, pmBlame>>

\* publishesBefore within an identity: precedenceOf compares liveness, last
\* update, pid and instance, in this order.
Precedes(a, b) ==
    LET pid(s) == pmFiles[s.f].proc IN
    \/ a.alive /\ ~b.alive
    \/ /\ a.alive = b.alive
       /\ \/ a.upd > b.upd
          \/ a.upd = b.upd /\ (pid(a) > pid(b) \/ (pid(a) = pid(b) /\ a.f > b.f))

\* selectStores: per identity the first store, or every live one, told apart
\* by process labels, when several writers are alive.
SelectStores(live) ==
    UNION {LET group == {s \in live : pmFiles[s.f].name = name}
               alive == {s \in group : s.alive}
           IN  IF Cardinality(alive) < 2
               THEN {[f |-> s.f, n |-> s.n, labels |-> FALSE] :
                       s \in {a \in group : \A b \in group \ {a} : Precedes(a, b)}}
               ELSE {[f |-> s.f, n |-> s.n, labels |-> TRUE] : s \in alive} : name \in PmNames}

ScanEnd ==
    /\ pmScan.pc = "iter" /\ pmScan.todo = {}
    /\ pmScan' = [pmScan EXCEPT !.pc = "done", !.live = SelectStores(pmScan.live)]
    /\ UNCHANGED <<pmSc, pmNow, pmFiles, pmEnd, pmPort, pmBlame>>

ScanAnswered ==
    /\ pmScan.pc = "done"
    /\ pmScan' = NoScan
    /\ UNCHANGED <<pmSc, pmNow, pmFiles, pmEnd, pmPort, pmBlame>>

-----------------------------------------------------------------------------
ScanStep ==
    \/ ScanSecond \/ ScanJudge \/ ScanEnd \/ ScanAnswered
    \/ \E f \in PmFileIds : ScanFirst(f)

PmNext ==
    \/ \E p \in PmProcs, name \in PmNames : StageStore(p, name)
    \/ \E f \in PmFileIds :
         \/ PublishStore(f) \/ ShareEndpoint(f) \/ PmClaim(f) \/ ExportEvent(f)
         \/ DestroyEndpoint(f) \/ LeaveEndpoint(f) \/ CloseStore(f) \/ ScanMeets(f)
    \/ \E p \in PmProcs :
         PmServe(p) \/ CoolDown(p) \/ ReleaseElection(p) \/ PmCrash(p) \/ SocketCloses(p)
    \/ ForeignLeaves \/ PmTick
    \/ ScanStart \/ ScanStep

\* What a scheduled process does by itself: its constructor, destructor and
\* election steps, and, when it serves, its scrapes.
PmProceeds(p) ==
    \/ \E f \in AgentsOf(p) :
         PublishStore(f) \/ ShareEndpoint(f) \/ PmClaim(f) \/ CloseStore(f)
    \/ PmServe(p) \/ ReleaseElection(p)
    \/ PmServing(p) /\ ScanStep

-----------------------------------------------------------------------------
PmLabels(s) ==
    IF s.labels THEN <<pmFiles[s.f].name, pmFiles[s.f].proc, s.f>> ELSE <<pmFiles[s.f].name, 0, 0>>

\* A scrape's answer: every store whose writer lived through the whole scrape
\* is published, with a value no older than the scrape; no two published
\* stores carry the same labels; and a departed store stands in only for an
\* identity that no such writer has (selectStores, scanLiveStores).
PmHonest ==
    pmScan.pc = "done" =>
        LET lived == {s \in pmScan.from : pmFiles[s.f].st \notin {"closed", "junk"}} IN
        /\ \A s \in lived : \E t \in pmScan.live : t.f = s.f /\ t.n >= s.n
        /\ \A s, t \in pmScan.live : PmLabels(s) = PmLabels(t) => s = t
        /\ \A t \in pmScan.live : pmFiles[t.f].st = "closed" /\ ~t.labels =>
             ~\E s \in lived : pmFiles[s.f].name = pmFiles[t.f].name

\* A store is removed only when its writer is gone and its last update is
\* older than the time to live: the values of a departed rank are published
\* that long (scanLiveStores probes before it reads).
PmReapedLate ==
    \A f \in PmFileIds : pmFiles[f].reaped # 0 /\ pmFiles[f].st # "junk" =>
        pmFiles[f].st = "closed" /\ pmFiles[f].reaped - pmFiles[f].upd > PmTtl

\* With working locks the server holds the election, an endpoint that holds
\* it and is not mid-way serves, and a winner fails to bind only because of a
\* process outside the run or one being torn down by a crash.
PmOneServer ==
    pmSc.flock =>
        /\ \A p, q \in PmProcs : pmEnd[p].elect /\ pmEnd[q].elect => p = q
        /\ \A p \in PmProcs : PmServing(p) /\ pmEnd[p].pc # "dying" => pmEnd[p].elect
        /\ \A p \in PmProcs : pmEnd[p].elect /\ pmEnd[p].pc = "up" => PmServing(p)
        /\ pmBlame \subseteq {"foreign", "dying"}

\* Someone serves, or nobody is there to take over: every agent that is up
\* belongs to a process that exports nothing.
PmServedOrSilent ==
    \/ \E p \in PmProcs : PmServing(p) /\ pmEnd[p].pc = "up"
    \/ \A f \in PmFileIds : pmFiles[f].st = "on" => pmFiles[f].proc \in pmSc.silent
==============================================================================
