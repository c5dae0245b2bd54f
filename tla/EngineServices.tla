--------------------------- MODULE EngineServices ---------------------------
(***************************************************************************)
(* What the storage engines do besides transfers: their tables of          *)
(* registrations, queryMem, and the pinned buffers of S3 over RDMA.        *)
(***************************************************************************)
EXTENDS Integers, FiniteSets, Sequences

(***************************************************************************)
(* What registerMem and deregisterMem of the storage engines keep: the     *)
(* devId (or address) to key map of the object engines, the path-mode      *)
(* reservations and open files of utils/file, and the registrations made   *)
(* with the library below.  A registration is of type obj, mem or file; a  *)
(* file named by path is opened here, another is the caller's descriptor.  *)
(***************************************************************************)

CONSTANTS TableEngines,  \* the engines loaded
          Devs,          \* devIds and addresses, naturals
          Keys,          \* metaInfo given for an object
          MaxLive,       \* registrations alive together
          MaxRegs,       \* registrations made
          Nil

VARIABLES tableEngine, live, tab

tableVars == <<tableEngine, live, tab>>

Mems == [type : {"obj"}, dev : Devs, meta : Keys \cup {Nil}]
   \cup [type : {"mem"}, dev : Devs, meta : {Nil}]
   \cup [type : {"file"}, dev : Devs, meta : {"path", Nil}]

Empty == [keys |-> <<>>, reserved |-> {}, open |-> {}, refs |-> <<>>, lib |-> {}, stuck |-> {},
          made |-> 0]

TablesInit == tableEngine \in TableEngines /\ live = {} /\ tab = Empty

Insert(f, x, v) == [y \in DOMAIN f \cup {x} |-> IF y = x THEN v ELSE f[y]]
Erase(f, x) == [y \in DOMAIN f \ {x} |-> f[y]]
Refs(t, x) == IF x \in DOMAIN t.refs THEN t.refs[x] ELSE 0

(* The descriptor the kernel gives an open: one that is not in use.        *)
FreeFd == CHOOSE fd \in 100..(100 + MaxLive) : fd \notin tab.open

(* A registration as its metadata keeps it: fd is the file's descriptor,   *)
(* key the object's name.                                                  *)
Metadata(m, fd, key) ==
    [id |-> tab.made, type |-> m.type, dev |-> m.dev, fd |-> fd, key |-> key,
     path |-> m.type = "file" /\ m.meta # Nil]

Add(m, fd, key, t) ==
    /\ tab' = [t EXCEPT !.made = @ + 1]
    /\ live' = live \cup {Metadata(m, fd, key)}

(* A call that returns an error keeps what the code has changed by then.   *)
Fail(t) == tab' = [t EXCEPT !.made = @ + 1] /\ UNCHANGED live

Drop(r, t) == tab' = t /\ live' = live \ {r}

----------------------------------------------------------------------------
(* Object names                                                            *)

NameOf(m) == IF m.meta = Nil THEN m.dev ELSE m.meta

(* S3 (standard and CRT) and Dell: emplace refuses a devId in use.         *)
RegisterUnique(m) ==
    /\ m.type = "obj"
    /\ IF m.dev \in DOMAIN tab.keys
       THEN Fail(tab)
       ELSE Add(m, Nil, NameOf(m), [tab EXCEPT !.keys = Insert(@, m.dev, NameOf(m))])

(* Azure, S3 accel, Infinia: a devId in use is overwritten, so the caller  *)
(* must not reuse it while it is registered.                               *)
RegisterOver(m) ==
    /\ m.type = "obj"
    /\ \A r \in live : r.type = "obj" => r.dev # m.dev
    /\ Add(m, Nil, NameOf(m), [tab EXCEPT !.keys = Insert(@, m.dev, NameOf(m))])

DropName(r) == Drop(r, [tab EXCEPT !.keys = Erase(@, r.dev)])

(* nixlRedisKVEngine: an object needs metaInfo and is not in the map;      *)
(* memory without one is mapped by its address.                            *)
RedisRegister(m) ==
    \/ m.type = "obj" /\ m.meta = Nil /\ Fail(tab)
    \/ m.type = "obj" /\ m.meta # Nil /\ Add(m, Nil, m.meta, tab)
    \/ /\ m.type = "mem"
       /\ \A r \in live : r.type = "mem" => r.dev # m.dev
       /\ Add(m, Nil, m.dev, [tab EXCEPT !.keys = Insert(@, m.dev, m.dev)])

RedisDeregister(r) == IF r.type = "mem" THEN DropName(r) ELSE Drop(r, tab)

(* infinia_engine: an object without metaInfo needs a devId that is not 0; *)
(* memory goes to RED, through a DMA-BUF or not.  deregisterMem erases the *)
(* devId's key whatever the type, so memory and objects must not share     *)
(* devIds.                                                                 *)
InfiniaRegister(m) ==
    /\ \A r \in live : r.dev # m.dev
    /\ \/ m.type = "obj" /\ m.meta = Nil /\ m.dev = 0 /\ Fail(tab)
       \/ ~ (m.meta = Nil /\ m.dev = 0) /\ RegisterOver(m)
       \/ m.type = "mem" /\ Fail(tab)
       \/ m.type = "mem" /\ Add(m, Nil, Nil, [tab EXCEPT !.lib = @ \cup {m.dev}])

Unregistered(t, x, ok) ==
    IF ok THEN [t EXCEPT !.lib = @ \ {x}, !.stuck = @ \ {x}] ELSE [t EXCEPT !.stuck = @ \cup {x}]

InfiniaDeregister(r) ==
    \E ok \in BOOLEAN :
       LET t == [tab EXCEPT !.keys = Erase(@, r.dev)] IN
       Drop(r, IF r.type = "mem" THEN Unregistered(t, r.dev, ok) ELSE t)

(* S3DellObsObjEngineImpl: memory gets a cuObject descriptor.              *)
DellRegister(m) ==
    \/ RegisterUnique(m)
    \/ m.type = "mem" /\ Fail(tab)
    \/ /\ m.type = "mem" /\ \A r \in live : r.type = "mem" => r.dev # m.dev
       /\ Add(m, Nil, Nil, [tab EXCEPT !.lib = @ \cup {m.dev}])

(* A descriptor that cannot be put back keeps its metadata.                *)
DellDeregister(r) ==
    \/ r.type = "obj" /\ DropName(r)
    \/ r.type = "mem" /\ Drop(r, Unregistered(tab, r.dev, TRUE))
    \/ r.type = "mem" /\ UNCHANGED <<live, tab>>

----------------------------------------------------------------------------
(* Memory                                                                  *)

(* nixlMooncakeEngine: one library registration per address, counted.      *)
MooncakeRegister(m) ==
    \/ /\ Refs(tab, m.dev) > 0
       /\ Add(m, Nil, Nil, [tab EXCEPT !.refs[m.dev] = @ + 1])
    \/ Refs(tab, m.dev) = 0 /\ Fail(tab)
    \/ /\ Refs(tab, m.dev) = 0
       /\ Add(m, Nil, Nil, [tab EXCEPT !.refs = Insert(@, m.dev, 1), !.lib = @ \cup {m.dev}])

MooncakeDeregister(r) ==
    IF Refs(tab, r.dev) > 1
    THEN Drop(r, [tab EXCEPT !.refs[r.dev] = @ - 1])
    ELSE \E ok \in BOOLEAN :
           Drop(r, Unregistered([tab EXCEPT !.refs = Erase(@, r.dev)], r.dev, ok))

(* nixlGusliEngine: block devices need nothing, buffers are the library's. *)
GusliRegister(m) ==
    \/ m.type = "file" /\ m.meta = Nil /\ Add(m, Nil, Nil, tab)
    \/ m.type = "mem" /\ Fail(tab)
    \/ /\ m.type = "mem" /\ \A r \in live : r.type = "mem" => r.dev # m.dev
       /\ Add(m, Nil, Nil, [tab EXCEPT !.lib = @ \cup {m.dev}])

GusliDeregister(r) ==
    \E ok \in BOOLEAN : Drop(r, IF r.type = "mem" THEN Unregistered(tab, r.dev, ok) ELSE tab)

----------------------------------------------------------------------------
(* Files                                                                   *)

Path(m) == m.meta = "path"

(* PathModeDevIdRegistry::reserve and the Reservation's destructor: a      *)
(* reservation that is not committed is given back.                        *)
Reserve(m) == ~ Path(m) \/ m.dev \notin tab.reserved
Committed(m) == IF Path(m) THEN tab.reserved \cup {m.dev} ELSE tab.reserved
Release(r, t) == IF r.path THEN [t EXCEPT !.reserved = @ \ {r.dev}] ELSE t

(* FileFd: a path is opened and closed here, a bare devId is a descriptor. *)
Fd(m) == IF Path(m) THEN FreeFd ELSE m.dev
Opened(m) == IF Path(m) THEN tab.open \cup {FreeFd} ELSE tab.open
Close(r, t) == IF r.path THEN [t EXCEPT !.open = @ \ {r.fd}] ELSE t

(* nixlPosixEngine: failures are a reserved devId and an open that fails.  *)
PosixRegister(m) ==
    \/ m.type = "mem" /\ Add(m, Nil, Nil, tab)
    \/ m.type = "file" /\ (~ Reserve(m) \/ Path(m)) /\ Fail(tab)
    \/ /\ m.type = "file" /\ Reserve(m)
       /\ Add(m, Fd(m), Nil, [tab EXCEPT !.reserved = Committed(m), !.open = Opened(m)])

PosixDeregister(r) == Drop(r, Close(r, Release(r, tab)))

(* nixlGdsEngine: one cuFile handle per descriptor, shared by the files    *)
(* registered with that descriptor; a handle that cannot be made drops the *)
(* reservation and closes the file.                                        *)
GdsRegister(m) ==
    \/ m.type = "mem" /\ Fail(tab)
    \/ m.type = "mem" /\ Add(m, Nil, Nil, tab)
    \/ m.type = "file" /\ ~ (Reserve(m) /\ Refs(tab, Fd(m)) > 0) /\ Fail(tab)
    \/ /\ m.type = "file" /\ Reserve(m)
       /\ Add(m, Fd(m), Nil,
              [tab EXCEPT !.reserved = Committed(m), !.open = Opened(m), !.lib = @ \cup {Fd(m)},
                          !.refs = Insert(@, Fd(m), Refs(tab, Fd(m)) + 1)])

GdsDeregister(r) ==
    \/ r.type = "mem" /\ Drop(r, tab)
    \/ /\ r.type = "file" /\ Refs(tab, r.fd) > 1
       /\ Drop(r, Release(r, [tab EXCEPT !.refs[r.fd] = @ - 1]))
    \/ /\ r.type = "file" /\ Refs(tab, r.fd) = 1
       /\ Drop(r, Close(r, Release(r, [tab EXCEPT !.refs = Erase(@, r.fd), !.lib = @ \ {r.fd}])))

(* nixlHf3fsEngine: hf3fs_file_set has no count, so the caller must not    *)
(* register one descriptor twice.                                          *)
Hf3fsRegister(m) ==
    /\ m.type = "file" => \A r \in live : r.type = "file" => r.fd # Fd(m)
    /\ \/ m.type = "mem" /\ Add(m, Nil, Nil, tab)
       \/ m.type = "file" /\ Fail(tab)
       \/ /\ m.type = "file" /\ Reserve(m)
          /\ Add(m, Fd(m), Nil,
                 [tab EXCEPT !.reserved = Committed(m), !.open = Opened(m), !.lib = @ \cup {Fd(m)}])

Hf3fsDeregister(r) ==
    Drop(r, IF r.type = "mem" THEN tab
            ELSE Close(r, [Release(r, tab) EXCEPT !.lib = @ \ {r.fd}]))

----------------------------------------------------------------------------
(* Azure, S3 accel without RDMA and Memos keep nothing for memory; Memos   *)
(* keeps an object's key in its metadata.                                  *)
PlainMem(m) == m.type = "mem" /\ Add(m, Nil, Nil, tab)
DropPlain(r) == IF r.type = "obj" THEN DropName(r) ELSE Drop(r, tab)

(* A metaInfo that does not convert to a key of the device is refused.     *)
MemosRegister(m) == m.type = "obj" /\ (Fail(tab) \/ Add(m, Nil, NameOf(m), tab))

RegisterMem ==
    /\ tab.made < MaxRegs /\ Cardinality(live) < MaxLive
    /\ UNCHANGED tableEngine
    /\ \E m \in Mems :
         \/ tableEngine = "OBJ" /\ (PlainMem(m) \/ RegisterUnique(m))
         \/ tableEngine \in {"AZURE_BLOB", "OBJ_ACCEL"} /\ (PlainMem(m) \/ RegisterOver(m))
         \/ tableEngine = "DELL" /\ DellRegister(m)
         \/ tableEngine = "REDIS" /\ RedisRegister(m)
         \/ tableEngine = "INFINIA" /\ InfiniaRegister(m)
         \/ tableEngine = "DOCA_MEMOS" /\ (PlainMem(m) \/ MemosRegister(m))
         \/ tableEngine = "Mooncake" /\ m.type = "mem" /\ MooncakeRegister(m)
         \/ tableEngine = "GUSLI" /\ GusliRegister(m)
         \/ tableEngine = "POSIX" /\ PosixRegister(m)
         \/ tableEngine = "GDS" /\ GdsRegister(m)
         \/ tableEngine = "HF3FS" /\ Hf3fsRegister(m)

DeregisterMem ==
    /\ UNCHANGED tableEngine
    /\ \E r \in live :
         \/ tableEngine \in {"OBJ", "AZURE_BLOB", "OBJ_ACCEL"} /\ DropPlain(r)
         \/ tableEngine = "DELL" /\ DellDeregister(r)
         \/ tableEngine = "REDIS" /\ RedisDeregister(r)
         \/ tableEngine = "INFINIA" /\ InfiniaDeregister(r)
         \/ tableEngine = "DOCA_MEMOS" /\ Drop(r, tab)
         \/ tableEngine = "Mooncake" /\ MooncakeDeregister(r)
         \/ tableEngine = "GUSLI" /\ GusliDeregister(r)
         \/ tableEngine = "POSIX" /\ PosixDeregister(r)
         \/ tableEngine = "GDS" /\ GdsDeregister(r)
         \/ tableEngine = "HF3FS" /\ Hf3fsDeregister(r)

TablesNext == RegisterMem \/ DeregisterMem

----------------------------------------------------------------------------
Files == {r \in live : r.type = "file"}
Mapped == CASE tableEngine = "REDIS" -> {r \in live : r.type = "mem"}
            [] tableEngine = "DOCA_MEMOS" -> {}
            [] OTHER -> {r \in live : r.type = "obj"}
Needed == CASE tableEngine \in {"GDS", "HF3FS"} -> {r.fd : r \in Files}
            [] tableEngine \in {"DELL", "INFINIA", "Mooncake", "GUSLI"} ->
                 {r.dev : r \in {q \in live : q.type = "mem"}}
            [] OTHER -> {}

(* The tables of registerMem and deregisterMem hold exactly what the live  *)
(* registrations need: a registered object keeps the key it was registered *)
(* with and a file its handle, its descriptor and its reservation, however *)
(* others that share them come and go, and a registration that fails or is *)
(* given back leaves nothing (except where the library itself refuses).    *)
TablesExact ==
    /\ DOMAIN tab.keys = {r.dev : r \in Mapped} /\ \A r \in Mapped : tab.keys[r.dev] = r.key
    /\ tab.lib = Needed \cup tab.stuck
    /\ tab.reserved = {r.dev : r \in {f \in Files : f.path}}
    /\ tab.open = {r.fd : r \in {f \in Files : f.path}}
    /\ Cardinality(tab.open) = Cardinality({f \in Files : f.path})
    /\ \A x \in DOMAIN tab.refs :
         tab.refs[x] = Cardinality({r \in live : IF tableEngine = "GDS" THEN r.fd = x ELSE r.dev = x})

-----------------------------------------------------------------------------
(***************************************************************************)
(* queryMem of the storage engines: one call that asks, for each of N      *)
(* descriptors, whether its object exists.  Azure and S3 ask with          *)
(* callbacks and give up on a descriptor after a timeout; Memos queues     *)
(* exist tasks on its progress engine and waits for all; Redis and Infinia *)
(* block.  The services answer the truth, an error, or nothing.            *)
(***************************************************************************)

CONSTANTS QueryEngines, NumQueries,
          TaskRoom           \* exist tasks the DOCA context holds at once

VARIABLES qe,      \* the engine
          truth,   \* which objects exist
          pc,      \* the caller: launch, wait, drain, settle, returned
          at,      \* the descriptor it is at
          call,    \* per descriptor: what became of its request
          shared,  \* resp and has_error, written by caller and callbacks
          conn,    \* Redis: the synchronous connection
          pending  \* Memos: descriptors waiting for a task

queryVars == <<qe, truth, pc, at, call, shared, conn, pending>>

Queries == 1..NumQueries
Fresh == [st |-> "idle", completed |-> FALSE, ready |-> FALSE, ans |-> "none"]
Async == {"AZURE_BLOB", "OBJ"}

QueryInit ==
    /\ qe \in QueryEngines
    /\ truth \in [Queries -> BOOLEAN]
    /\ pc = "launch" /\ at = 1
    /\ call = [i \in Queries |-> Fresh]
    /\ shared = [resp |-> [i \in Queries |-> FALSE], err |-> FALSE]
    /\ conn = "up" /\ pending = <<>>

Still(v) == UNCHANGED <<qe, truth, v>>

(* What a service answers about descriptor i.                              *)
Answers(i) == {IF truth[i] THEN "yes" ELSE "no", "error"}

Heard(sh, i, ans) ==
    [resp |-> [sh.resp EXCEPT ![i] = ans = "yes"], err |-> sh.err \/ ans = "error"]

Goto(label) == pc' = label /\ at' = 1
NextOr(label) ==
    IF at < NumQueries THEN at' = at + 1 /\ UNCHANGED pc ELSE Goto(label)

----------------------------------------------------------------------------
(* Azure and S3                                                            *)

(* One checkExistsAsync; it throws when the request cannot be made.        *)
Launch ==
    /\ qe \in Async /\ pc = "launch"
    /\ \/ call' = [call EXCEPT ![at].st = "asked"] /\ NextOr("wait")
       \/ Goto("drain") /\ UNCHANGED call
    /\ Still(<<shared, conn, pending>>)

(* The callback: exchange(completed) decides who writes, then the writes,  *)
(* then promise->set_value().                                              *)
Claim(i) ==
    /\ qe \in Async /\ call[i].st = "asked"
    /\ \E ans \in Answers(i) :
         call' = [call EXCEPT ![i] = IF @.completed
                                     THEN [@ EXCEPT !.st = "late"]
                                     ELSE [@ EXCEPT !.st = "claimed", !.completed = TRUE, !.ans = ans]]
    /\ Still(<<pc, at, shared, conn, pending>>)

Write(i) ==
    /\ qe \in Async /\ call[i].st = "claimed"
    /\ shared' = Heard(shared, i, call[i].ans)
    /\ call' = [call EXCEPT ![i].st = "written"]
    /\ Still(<<pc, at, conn, pending>>)

Resolve(i) ==
    /\ qe \in Async /\ call[i].st = "written"
    /\ call' = [call EXCEPT ![i].st = "answered", ![i].ready = TRUE]
    /\ Still(<<pc, at, shared, conn, pending>>)

Asked == {i \in Queries : call[i].st # "idle"}

(* wait_for returned in time, or the descriptor was never asked for.       *)
InTime == at \notin Asked \/ call[at].ready

(* The caller's exchange after a timeout, when it is first.                *)
GivenUp == [call EXCEPT ![at].completed = TRUE, ![at].ready = TRUE]

(* Variant: a callback that was first is not waited for.                   *)
AzureWaitBriefly ==
    /\ qe = "AZURE_BLOB" /\ pc \in {"wait", "drain"}
    /\ \/ (InTime \/ call[at].completed) /\ UNCHANGED <<call, shared>>
       \/ /\ ~ InTime /\ ~ call[at].completed
          /\ call' = GivenUp /\ shared' = Heard(shared, at, "error")
    /\ NextOr(IF pc = "drain" THEN "failed" ELSE "over")
    /\ Still(<<conn, pending>>)

(* waitForQueryMemFutures: a callback that was first is waited for.        *)
AzureWait ==
    /\ qe = "AZURE_BLOB" /\ pc \in {"wait", "drain"}
    /\ \/ InTime /\ UNCHANGED <<call, shared>>
       \/ /\ ~ InTime /\ ~ call[at].completed
          /\ call' = GivenUp /\ shared' = Heard(shared, at, "error")
    /\ NextOr(IF pc = "drain" THEN "failed" ELSE "over")
    /\ Still(<<conn, pending>>)

(* DefaultObjEngineImpl: the main path does not wait for a callback that   *)
(* was first; the path after an exception does, in a second loop.          *)
ObjWait ==
    /\ qe = "OBJ" /\ pc = "wait"
    /\ \/ InTime /\ UNCHANGED <<call, shared>>
       \/ /\ ~ InTime /\ ~ call[at].completed
          /\ call' = GivenUp /\ shared' = Heard(shared, at, "error")
       \/ ~ InTime /\ call[at].completed /\ UNCHANGED <<call, shared>>
    /\ NextOr("over")
    /\ Still(<<conn, pending>>)

ObjDrain ==
    /\ qe = "OBJ" /\ pc = "drain"
    /\ \/ InTime /\ UNCHANGED call
       \/ ~ InTime /\ ~ call[at].completed /\ call' = GivenUp
       \/ ~ InTime /\ call[at].completed /\ UNCHANGED call
    /\ NextOr("settle")
    /\ Still(<<shared, conn, pending>>)

ObjSettle ==
    /\ qe = "OBJ" /\ pc = "settle" /\ InTime
    /\ NextOr("failed")
    /\ Still(<<call, shared, conn, pending>>)

----------------------------------------------------------------------------
(* Redis: checkKeyExistsSync on one connection, made again when it is      *)
(* lost; no reply drops it.                                                *)
RedisAsk ==
    /\ qe = "REDIS" /\ pc = "launch"
    /\ \/ /\ conn = "none" /\ shared' = Heard(shared, at, "error") /\ UNCHANGED conn
       \/ \E ans \in Answers(at) :
            /\ shared' = Heard(shared, at, ans)
            /\ conn' \in IF ans = "error" THEN {"up", "none"} ELSE {"up"}
    /\ NextOr("over")
    /\ Still(<<call, pending>>)

(* Infinia: one batch; an operation that fails reads as a missing key.     *)
InfiniaAsk ==
    /\ qe = "INFINIA" /\ pc = "launch"
    /\ \/ Goto("failed") /\ UNCHANGED shared
       \/ /\ Goto("over")
          /\ \E ans \in [Queries -> {"yes", "no", "error"}] :
               /\ \A i \in Queries : ans[i] \in Answers(i)
               /\ shared' = [shared EXCEPT !.resp = [i \in Queries |-> ans[i] = "yes"]]
    /\ Still(<<call, conn, pending>>)

----------------------------------------------------------------------------
(* Memos                                                                   *)

Busy == {i \in Queries : call[i].st = "asked"}
Whole(c, i, ans) == [c EXCEPT ![i].st = "answered", ![i].ready = TRUE, ![i].ans = ans]

(* prepareQueryHandles and the submissions of queryMem: a key that does    *)
(* not resolve is over at once, a task goes to the context when there is   *)
(* room and nothing waits, else to pendingRequests_.                       *)
MemosAsk ==
    /\ qe = "DOCA_MEMOS" /\ pc = "launch"
    /\ \/ call' = Whole(call, at, "error") /\ UNCHANGED pending
       \/ /\ Cardinality(Busy) < TaskRoom /\ pending = <<>>
          /\ call' = [call EXCEPT ![at].st = "asked"] /\ UNCHANGED pending
       \/ /\ ~ (Cardinality(Busy) < TaskRoom /\ pending = <<>>)
          /\ pending' = Append(pending, at) /\ UNCHANGED call
    /\ NextOr("wait")
    /\ Still(<<shared, conn>>)

(* tryResumePendingRequests, in order, while there is room.                *)
MemosResume ==
    /\ qe = "DOCA_MEMOS" /\ pc # "launch" /\ pending # <<>> /\ Cardinality(Busy) < TaskRoom
    /\ \/ call' = [call EXCEPT ![Head(pending)].st = "asked"]
       \/ call' = Whole(call, Head(pending), "error")
    /\ pending' = Tail(pending)
    /\ Still(<<pc, at, shared, conn>>)

(* A completion callback of the context.                                   *)
MemosTask(i) ==
    /\ qe = "DOCA_MEMOS" /\ call[i].st = "asked"
    /\ \E ans \in Answers(i) : call' = Whole(call, i, ans)
    /\ Still(<<pc, at, shared, conn, pending>>)

(* waitForQueryCompletion and collectQueryResults                          *)
MemosCollect ==
    /\ qe = "DOCA_MEMOS" /\ pc = "wait" /\ \A i \in Queries : call[i].ready
    /\ Goto("over")
    /\ shared' = [resp |-> [i \in Queries |-> call[i].ans = "yes"],
                  err |-> \E i \in Queries : call[i].ans = "error"]
    /\ Still(<<call, conn, pending>>)

----------------------------------------------------------------------------
(* has_error decides the status.                                           *)
QueryReturn ==
    /\ pc \in {"over", "failed"}
    /\ pc' = IF pc = "failed" \/ shared.err THEN "backend_error" ELSE "success"
    /\ Still(<<at, call, shared, conn, pending>>)

QueryOver == pc \in {"success", "backend_error"}

Caller == Launch \/ AzureWait \/ ObjWait \/ ObjDrain \/ ObjSettle \/ RedisAsk \/ InfiniaAsk
            \/ MemosAsk \/ MemosCollect \/ QueryReturn
QueryCallback == \E i \in Queries : Write(i) \/ Resolve(i)
Library == MemosResume \/ \E i \in Queries : MemosTask(i)

QueryNext == Caller \/ QueryCallback \/ Library \/ \E i \in Queries : Claim(i)

(* The caller runs, a callback that has started finishes, and the DOCA     *)
(* context completes its tasks; a blob service may stay silent for ever.   *)
QueryFairness == WF_queryVars(Caller) /\ WF_queryVars(QueryCallback) /\ WF_queryVars(Library)

----------------------------------------------------------------------------
(* Once queryMem has returned no callback is about to write into the       *)
(* caller's resp or the dead has_error.                                    *)
NoLateWrite == QueryOver => \A i \in Queries : call[i].st # "claimed"

(* When queryMem returns no callback is left that will still write its     *)
(* result, and SUCCESS means that resp says of every object whether it     *)
(* exists (Infinia reports a failed lookup as a missing object).  S3 does  *)
(* not promise it: see NoLateWrite.                                        *)
QueryAnswers ==
    qe # "OBJ" =>
      /\ NoLateWrite
      /\ pc = "success" =>
           \A i \in Queries : shared.resp[i] = truth[i] \/ (qe = "INFINIA" /\ ~ shared.resp[i])

-----------------------------------------------------------------------------
(***************************************************************************)
(* S3 over RDMA (utils/object/rdma, plugins/obj/s3_accel): the process-    *)
(* wide table of pinned buffers and the tokens minted from it, and the     *)
(* put and get of one object in requests of at most one chunk each, over a *)
(* server that may decline, fail, or lose its answer.  Addresses and sizes *)
(* are in chunks of rdma_max_request_size.                                 *)
(***************************************************************************)

CONSTANTS Buffers,     \* [base, size] an engine may register
          Pins,        \* names of registrations
          Rdmas,       \* names of transfers
          MaxPins      \* registrations made

VARIABLES regs,     \* registrations_ : base -> [size, refs]
          descs,    \* bases with a cuObject descriptor (external)
          pin,      \* per name: the buffer an engine has registered
          rdma,     \* per name: the transfer's task
          object,   \* the object: who wrote it and how much (external)
          uploads,  \* multipart uploads open at the server (external)
          pins

rdmaVars == <<regs, descs, pin, rdma, object, uploads, pins>>

MaxAttempts == 2
NoPin == [base |-> -1, size |-> 0]
Idle == [pc |-> "idle", op |-> "get", addr |-> 0, size |-> 0, done |-> 0, attempt |-> 0,
         token |-> -1, upload |-> FALSE, etag |-> "", ifMatch |-> "", got |-> <<>>]
Original == [by |-> "original", size |-> 2]

RdmaInit ==
    /\ regs = <<>> /\ descs = {} /\ pin = [p \in Pins |-> NoPin]
    /\ rdma = [t \in Rdmas |-> Idle] /\ object = Original /\ uploads = {} /\ pins = 0

----------------------------------------------------------------------------
(* SharedCuObjClient                                                       *)

Added(base, n) == [regs EXCEPT ![base].refs = @ + n]

(* registerBuffer: one descriptor per address, counted; another size is    *)
(* refused.                                                                *)
RegisterBuffer(p) ==
    /\ pin[p] = NoPin /\ pins < MaxPins /\ pins' = pins + 1
    /\ \E b \in Buffers :
         \/ /\ b.base \in DOMAIN regs /\ regs[b.base].size = b.size
            /\ regs' = Added(b.base, 1) /\ pin' = [pin EXCEPT ![p] = b] /\ UNCHANGED descs
         \/ /\ b.base \notin DOMAIN regs
            /\ regs' = [x \in DOMAIN regs \cup {b.base} |->
                          IF x = b.base THEN [size |-> b.size, refs |-> 1] ELSE regs[x]]
            /\ descs' = descs \cup {b.base} /\ pin' = [pin EXCEPT ![p] = b]
         \/ UNCHANGED <<regs, descs, pin>>
    /\ UNCHANGED <<rdma, object, uploads>>

(* release: the last reference takes the descriptor away.                  *)
ReleaseRef(base) ==
    IF regs[base].refs > 1
    THEN regs' = Added(base, -1) /\ UNCHANGED descs
    ELSE /\ regs' = [x \in DOMAIN regs \ {base} |-> regs[x]]
         /\ descs' = descs \ {base}

(* Variant: tokens are not counted.                                        *)
DeregisterBufferNow(p) ==
    /\ pin[p] # NoPin
    /\ pin' = [pin EXCEPT ![p] = NoPin]
    /\ descs' = descs \ {q.base : q \in {pin[p]}}
    /\ regs' = [x \in DOMAIN regs \ {pin[p].base} |-> regs[x]]
    /\ UNCHANGED <<rdma, object, uploads, pins>>

DeregisterBuffer(p) ==
    /\ pin[p] # NoPin
    /\ pin' = [pin EXCEPT ![p] = NoPin]
    /\ IF pin[p].base \in DOMAIN regs THEN ReleaseRef(pin[p].base) ELSE UNCHANGED <<regs, descs>>
    /\ UNCHANGED <<rdma, object, uploads, pins>>

(* getToken: the nearest registration below that holds the whole chunk.    *)
Holds(base, addr) == base <= addr /\ addr + 1 <= base + regs[base].size
Holding(addr) == {b \in DOMAIN regs : Holds(b, addr)}
Nearest(addr) == CHOOSE b \in Holding(addr) : \A c \in Holding(addr) : c <= b

----------------------------------------------------------------------------
(* One transfer: rdmaPutObject and rdmaGetObject                           *)

Set(t, r) == rdma' = [rdma EXCEPT ![t] = r]

(* put/getObjectAsync: a put of a part of an object and a task the         *)
(* executor rejects fail at once.                                          *)
Submit(t) ==
    /\ rdma[t].pc = "idle"
    /\ \E op \in {"put", "get"}, b \in Buffers :
         LET r == [Idle EXCEPT !.op = op, !.addr = b.base, !.size = b.size] IN
         \/ Set(t, [r EXCEPT !.pc = IF op = "put" /\ b.size > 1 THEN "create" ELSE "mint"])
         \/ Set(t, [r EXCEPT !.pc = "failed"])
    /\ UNCHANGED <<regs, descs, pin, object, uploads, pins>>

CreateMultipartUpload(t) ==
    /\ rdma[t].pc = "create"
    /\ \/ /\ uploads' = uploads \cup {t}
          /\ Set(t, [rdma[t] EXCEPT !.pc = "mint", !.upload = TRUE])
       \/ Set(t, [rdma[t] EXCEPT !.pc = "failed"]) /\ UNCHANGED uploads
    /\ UNCHANGED <<regs, descs, pin, object, pins>>

(* What becomes of a transfer whose request got no bytes across.  A failed *)
(* attempt is retried once with a new token; a decline is not.             *)
GiveUp(r) == [r EXCEPT !.pc = IF r.upload THEN "abort" ELSE "failed"]
Again(r) == IF r.attempt + 1 < MaxAttempts
            THEN [r EXCEPT !.pc = "mint", !.attempt = @ + 1, !.token = -1]
            ELSE GiveUp([r EXCEPT !.token = -1])

Mint(t) ==
    LET r == rdma[t] IN
    /\ r.pc = "mint"
    /\ \/ /\ Holding(r.addr + r.done) # {}
          /\ \E base \in {Nearest(r.addr + r.done)} :
               /\ regs' = Added(base, 1)
               /\ Set(t, [r EXCEPT !.pc = "wire", !.token = base])
       \/ Set(t, Again(r)) /\ UNCHANGED regs
    /\ UNCHANGED <<descs, pin, object, uploads, pins>>

(* The server and its answer.  A put stores the chunk, and the answer may  *)
(* be lost; a server without RDMA stores an empty object and declines.     *)
(* A get is of the object as it is, if it is still the one asked for.      *)
Stored(t) == IF rdma[t].upload THEN UNCHANGED object ELSE object' = [by |-> t, size |-> 1]

ServePut(t) ==
    /\ rdma[t].pc = "wire" /\ rdma[t].op = "put"
    /\ \/ Stored(t) /\ Set(t, [rdma[t] EXCEPT !.pc = "ok", !.etag = t])
       \/ Stored(t) /\ Set(t, [rdma[t] EXCEPT !.pc = "error"])
       \/ UNCHANGED object /\ Set(t, [rdma[t] EXCEPT !.pc = "error"])
       \/ /\ IF rdma[t].upload THEN UNCHANGED object ELSE object' = [by |-> t, size |-> 0]
          /\ Set(t, [rdma[t] EXCEPT !.pc = "declined"])
    /\ UNCHANGED <<regs, descs, pin, uploads, pins>>

ServeGet(t) ==
    LET r == rdma[t] IN
    /\ r.pc = "wire" /\ r.op = "get"
    /\ \/ /\ r.ifMatch \in {"", object.by}
          /\ Set(t, [r EXCEPT !.pc = IF r.done < object.size THEN "ok" ELSE "short",
                              !.etag = object.by,
                              !.got = IF r.done < object.size THEN Append(@, object.by) ELSE @])
       \/ Set(t, [r EXCEPT !.pc = "error"])
       \/ Set(t, [r EXCEPT !.pc = "declined"])
    /\ UNCHANGED <<regs, descs, pin, object, uploads, pins>>

Advance(r) ==
    LET n == [r EXCEPT !.done = @ + 1, !.token = -1, !.attempt = 0] IN
    IF n.done < n.size
    THEN [n EXCEPT !.pc = "mint", !.ifMatch = IF r.op = "get" THEN r.etag ELSE @]
    ELSE [n EXCEPT !.pc = IF n.upload THEN "complete" ELSE "succeeded"]

PutToken(t) ==
    LET r == rdma[t] IN
    /\ r.pc \in {"ok", "short", "error", "declined"}
    /\ ReleaseRef(r.token)
    /\ Set(t, CASE r.pc = "ok" -> Advance(r)
                [] r.pc = "error" -> Again(r)
                [] OTHER -> GiveUp([r EXCEPT !.token = -1]))
    /\ UNCHANGED <<pin, object, uploads, pins>>

(* completeMultipartUpload makes the parts the object, unless it fails;    *)
(* abortUnlessCompleted then aborts, which may fail too.                   *)
CompleteMultipartUpload(t) ==
    /\ rdma[t].pc = "complete"
    /\ \/ /\ object' = [by |-> t, size |-> rdma[t].size] /\ uploads' = uploads \ {t}
          /\ Set(t, [rdma[t] EXCEPT !.pc = "succeeded"])
       \/ Set(t, [rdma[t] EXCEPT !.pc = "abort"]) /\ UNCHANGED <<object, uploads>>
    /\ UNCHANGED <<regs, descs, pin, pins>>

AbortMultipartUpload(t) ==
    /\ rdma[t].pc = "abort"
    /\ \/ uploads' = uploads \ {t} /\ Set(t, [rdma[t] EXCEPT !.pc = "failed"])
       \/ UNCHANGED uploads /\ Set(t, [rdma[t] EXCEPT !.pc = "abort_failed"])
    /\ UNCHANGED <<regs, descs, pin, object, pins>>

RdmaNext ==
    \/ \E p \in Pins : RegisterBuffer(p) \/ DeregisterBuffer(p)
    \/ \E t \in Rdmas : Submit(t) \/ CreateMultipartUpload(t) \/ Mint(t) \/ ServePut(t)
                          \/ ServeGet(t) \/ PutToken(t) \/ CompleteMultipartUpload(t)
                          \/ AbortMultipartUpload(t)

----------------------------------------------------------------------------
Tokens == {t \in Rdmas : rdma[t].token # -1}

(* Every buffer an engine has pinned and every token the server may be     *)
(* moving data with has its cuObject descriptor, also when the buffer is   *)
(* deregistered under a running transfer, and no descriptor outlives the   *)
(* last of them.                                                           *)
PinnedWhileUsed ==
    /\ descs = {pin[p].base : p \in {q \in Pins : pin[q] # NoPin}} \cup {rdma[t].token : t \in Tokens}
    /\ \A t \in Tokens :
         LET r == rdma[t] IN Holds(r.token, r.addr + r.done)

(* A get that succeeds has delivered all its chunks from one version of    *)
(* the object, however often it was replaced meanwhile and requests were   *)
(* retried; a put that is over has left no multipart upload open unless    *)
(* the server refused to abort it.                                         *)
WholeTransfers ==
    \A t \in Rdmas :
      /\ rdma[t].op = "get" /\ rdma[t].pc = "succeeded" =>
           /\ Len(rdma[t].got) = rdma[t].size
           /\ \A i \in 1..Len(rdma[t].got) : rdma[t].got[i] = rdma[t].got[1]
      /\ rdma[t].pc \in {"failed", "succeeded"} => t \notin uploads
=============================================================================
