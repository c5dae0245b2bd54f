--------------------------- MODULE ObjectEngines ---------------------------
(***************************************************************************)
(* The engines of object and key-value stores, whose requests a client     *)
(* library answers: Azure Blob, S3, Redis and Infinia.                     *)
(***************************************************************************)
EXTENDS EngineState, FiniteSetsExt

(***************************************************************************)
(* Engines whose request handle is a list of futures, one per descriptor   *)
(* of a post, kept by the callbacks of a client (OBJ, Azure Blob, Redis).  *)
(***************************************************************************)

Future(o, st) == [op |-> o, st |-> st]

(* The futures of the first n descriptors; those in R were refused by the  *)
(* client, whose callback had run before the call returned.                *)
Dispatched(h, n, R) ==
    [i \in 1..n |-> Future(Op(h, gen[h] + 1, i), IF i \in R THEN "err" ELSE "wait")]

(* set_value on the promise of an operation, if its future still exists.   *)
Resolved(o, st) ==
    [h \in Handles |->
        IF req[h] = None THEN None
        ELSE [j \in DOMAIN req[h] |-> IF req[h][j].op = o THEN Future(o, st) ELSE req[h][j]]]

(* The client's callback for an operation the service answered or that     *)
(* failed on the way.                                                      *)
Callback(o) ==
    \E st \in {"ok", "err"} :
        /\ dev' = Finished(o, st = "ok")
        /\ req' = Resolved(o, st)

Has(h, st) == \E j \in DOMAIN req[h] : req[h][j].st = st

-----------------------------------------------------------------------------
(***************************************************************************)
(* src/plugins/azure_blob: uploads and downloads posted to a thread pool,  *)
(* one future per descriptor.  eng is the set of descriptors whose devId   *)
(* is in devIdToBlobName_.                                                 *)
(***************************************************************************)

AzureInit == NoRequests /\ eng = Descs

AzurePrepXfer(h, rc) ==
    /\ req[h] = None /\ rc = "prepped"
    /\ req' = [req EXCEPT ![h] = <<>>]
    /\ UNCHANGED <<gen, dev, eng>>

AzureDeregisterMem(i) == i \in eng /\ eng' = eng \ {i} /\ UNCHANGED <<gen, req, dev>>

(* Descriptors are dispatched up to the first one that is not registered.  *)
AzureKnown == Max({n \in 0..N : 1..n \subseteq eng})

AzurePostXfer(h, rc) ==
    /\ Posting(h)
    /\ req' = [req EXCEPT ![h] = @ \o Dispatched(h, AzureKnown, {})]
    /\ dev' = Started(h, NewOps(h, 1..AzureKnown))
    /\ rc = IF AzureKnown = N THEN "in_prog" ELSE "err"
    /\ UNCHANGED eng

(* getOverallStatus takes futures off the back until one is not ready or   *)
(* has failed; a failure drops all of them.                                *)
Stop(h) == Max({0} \cup {j \in DOMAIN req[h] : req[h][j].st # "ok"})

AzureCheckXfer(h, rc) ==
    /\ req[h] # None
    /\ LET failed == Stop(h) # 0 /\ req[h][Stop(h)].st = "err" IN
       /\ rc = CASE Stop(h) = 0 -> "success" [] failed -> "err" [] OTHER -> "in_prog"
       /\ req' = [req EXCEPT ![h] = IF failed THEN <<>> ELSE SubSeq(@, 1, Stop(h))]
    /\ UNCHANGED <<gen, dev, eng>>

(* The handle is deleted; operations under way are not waited for.         *)
AzureReleaseReqH(h, rc) ==
    /\ req[h] # None /\ rc = "success"
    /\ req' = [req EXCEPT ![h] = None]
    /\ UNCHANGED <<gen, dev, eng>>

(* A task of the pool: putBlobAsync or getBlobAsync.                       *)
BlobTask == \E o \in dev.out : Callback(o) /\ UNCHANGED <<gen, eng>>

AzureWorks == BlobTask
AzureCalls == \E i \in Descs : AzureDeregisterMem(i)

-----------------------------------------------------------------------------
(***************************************************************************)
(* src/plugins/obj: the S3 engines.  The standard, CRT and accelerated     *)
(* engines share one request handle, that of s3/engine_impl.cpp; the Dell  *)
(* engine has its own.  eng.known is the set of descriptors whose devId is *)
(* in devIdToObjKey_.                                                      *)
(***************************************************************************)

(* createObjEngineImpl                                                     *)
ObjInit ==
    /\ NoRequests
    /\ \E impl \in {"s3", "crt", "accel", "dell"} : eng = [impl |-> impl, known |-> Descs]

(* The Dell engine resolves the keys and mints the RDMA descriptors here.  *)
ObjPrepXfer(h, rc) ==
    /\ req[h] = None /\ rc = "prepped"
    /\ eng.impl = "dell" => eng.known = Descs
    /\ req' = [req EXCEPT ![h] = <<>>]
    /\ UNCHANGED <<gen, dev, eng>>

ObjDeregisterMem(i) ==
    /\ i \in eng.known /\ eng' = [eng EXCEPT !.known = @ \ {i}]
    /\ UNCHANGED <<gen, req, dev>>

ObjKnown == Max({n \in 0..N : 1..n \subseteq eng.known})

(* What a descriptor asks of a client: an upload of a whole object or at   *)
(* an offset, a download, or nothing (no bytes).                           *)
Asks == {"put", "put_at", "get", "nothing"}

(* The client that gets it, and what each client turns down by calling     *)
(* back at once, before anything reaches the store.                        *)
GetClientForSize(impl, large) ==
    CASE impl = "crt" -> IF large THEN "crt" ELSE "s3"
      [] OTHER -> impl
S3Refuses(a) == a = "put_at"
CrtRefuses(a) == a = "put_at"
AccelRefuses(a) == a = "put_at"
DellRefuses(a) == a \in {"put_at", "nothing"}
Refuses(client, a) ==
    CASE client = "s3" -> S3Refuses(a)
      [] client = "crt" -> CrtRefuses(a)
      [] client = "accel" -> AccelRefuses(a)
      [] client = "dell" -> DellRefuses(a)

ObjPost(h, n, rc) ==
    /\ Posting(h)
    /\ \E asks \in [Descs -> Asks], large \in [Descs -> BOOLEAN] :
         LET R == {i \in 1..n : Refuses(GetClientForSize(eng.impl, large[i]), asks[i])} IN
         /\ req' = [req EXCEPT ![h] = @ \o Dispatched(h, n, R)]
         /\ dev' = Started(h, NewOps(h, (1..n) \ R))
    /\ rc = IF n = N THEN "in_prog" ELSE "err"
    /\ UNCHANGED eng

S3PostXfer(h, rc) == eng.impl # "dell" /\ ObjPost(h, ObjKnown, rc)
DellPostXfer(h, rc) == eng.impl = "dell" /\ ObjPost(h, N, rc)
ObjPostXfer(h, rc) == S3PostXfer(h, rc) \/ DellPostXfer(h, rc)

(* getOverallStatus, front to back: the standard one stops at a future     *)
(* that is not ready, the Dell one goes on to find failures behind it.     *)
StatusOf(h, rc) ==
    LET first(S) == Min(S \cup {Len(req[h]) + 1})
        failed == first({j \in DOMAIN req[h] : req[h][j].st = "err"})
        waiting == first({j \in DOMAIN req[h] : req[h][j].st = "wait"})
        error == failed <= Len(req[h]) /\ (eng.impl = "dell" \/ failed < waiting)
        left == CASE error -> <<>>
                  [] eng.impl # "dell" -> SubSeq(req[h], waiting, Len(req[h]))
                  [] OTHER -> SelectSeq(req[h], LAMBDA f : f.st # "ok")
    IN /\ req' = [req EXCEPT ![h] = left]
       /\ rc = CASE error -> "err" [] left = <<>> -> "success" [] OTHER -> "in_prog"

ObjCheckXfer(h, rc) == req[h] # None /\ StatusOf(h, rc) /\ UNCHANGED <<gen, dev, eng>>

ObjReleaseReqH(h, rc) ==
    /\ req[h] # None /\ rc = "success"
    /\ req' = [req EXCEPT ![h] = None]
    /\ UNCHANGED <<gen, dev, eng>>

(* The SDK calls back from its executor.                                   *)
ObjectCallback == \E o \in dev.out : Callback(o) /\ UNCHANGED <<gen, eng>>

ObjWorks == ObjectCallback
ObjCalls == \E i \in Descs : ObjDeregisterMem(i)

-----------------------------------------------------------------------------
(***************************************************************************)
(* src/plugins/redis: an engine over a pool of asynchronous connections.   *)
(* A command is scheduled on the event loop for the least loaded healthy   *)
(* slot, sent there, and answered in order; the copy of a GET's answer is  *)
(* made by a worker thread.  A connection that is lost stays lost.         *)
(***************************************************************************)

CONSTANT Slots  \* slots_: connections of the pool

(* The pool: whether its constructor is done; per slot the stage of its    *)
(* initialisation, whether it is connected, its inFlight counter and the   *)
(* commands it awaits answers for; the event loop's tasks; the workers'    *)
(* queue; the connection of the synchronous queries; the registered keys.  *)
RedisInit ==
    /\ NoRequests
    /\ eng = [up |-> "starting", stage |-> [s \in Slots |-> "connect"], connected |-> {},
              inFlight |-> [s \in Slots |-> 0], sent |-> [s \in Slots |-> <<>>],
              loop |-> <<>>, work |-> {}, sync |-> "none", known |-> Descs]

-----------------------------------------------------------------------------
(* RedisConnectionPool: every slot connects, authenticates and selects its *)
(* database; the constructor waits for all of them, one second at most.    *)

StartSlotAuth(s) == eng' = [eng EXCEPT !.stage[s] = "auth"]
StartSlotSelect(s) == eng' = [eng EXCEPT !.stage[s] = "select"]
CompleteSlotInit(s, success) ==
    eng' = IF success THEN [eng EXCEPT !.stage[s] = "ready", !.connected = @ \cup {s}]
                      ELSE [eng EXCEPT !.stage[s] = "failed"]

ConnectCallback(s) ==
    /\ eng.stage[s] = "connect"
    /\ StartSlotAuth(s) \/ CompleteSlotInit(s, FALSE)
AuthCallback(s) ==
    /\ eng.stage[s] = "auth"
    /\ StartSlotSelect(s) \/ CompleteSlotInit(s, FALSE)
SelectCallback(s) ==
    /\ eng.stage[s] = "select"
    /\ \E success \in BOOLEAN : CompleteSlotInit(s, success)

PoolReady ==
    /\ \A s \in Slots : eng.stage[s] = "ready"
    /\ eng' = [eng EXCEPT !.up = "up"]

(* stopEventLoop and an exception: the engine is not created.              *)
PoolFails ==
    /\ \E s \in Slots : eng.stage[s] # "ready"
    /\ eng' = [eng EXCEPT !.up = "dead", !.connected = {}]

Starting ==
    /\ eng.up = "starting"
    /\ PoolReady \/ PoolFails
       \/ \E s \in Slots : ConnectCallback(s) \/ AuthCallback(s) \/ SelectCallback(s)
    /\ UNCHANGED <<gen, req, dev>>

-----------------------------------------------------------------------------
(* The calls of the engine.                                                *)

RedisPrepXfer(h, rc) ==
    /\ eng.up = "up" /\ req[h] = None /\ rc = "prepped"
    /\ req' = [req EXCEPT ![h] = <<>>]
    /\ UNCHANGED <<gen, dev, eng>>

RedisDeregisterMem(i) ==
    /\ eng.up = "up" /\ i \in eng.known
    /\ eng' = [eng EXCEPT !.known = @ \ {i}]
    /\ UNCHANGED <<gen, req, dev>>

LeastLoadedHealthySlot(e) ==
    CHOOSE s \in e.connected : \A t \in e.connected : e.inFlight[s] <= e.inFlight[t]

(* putKeyAsync and getKeyAsync: scheduled on the event loop.               *)
Scheduled(e, o) ==
    LET s == LeastLoadedHealthySlot(e) IN
    [e EXCEPT !.inFlight[s] = @ + 1, !.loop = Append(@, [op |-> o, slot |-> s])]

(* waitForOutstanding                                                      *)
Settled(h) == ~ Has(h, "wait")

(* reset() waits and forgets the futures of the last post.  Every key is   *)
(* resolved before anything is dispatched.  With no healthy connection the *)
(* promises are set at once.                                               *)
RedisPostXfer(h, rc) ==
    /\ Posting(h) /\ Settled(h)
    /\ LET after[i \in 0..N] ==
             IF i = 0 THEN eng ELSE Scheduled(after[i - 1], Op(h, gen[h] + 1, i))
       IN CASE eng.known # Descs ->
                 /\ rc = "err" /\ req' = [req EXCEPT ![h] = <<>>]
                 /\ dev' = Started(h, {}) /\ UNCHANGED eng
            [] eng.known = Descs /\ eng.connected = {} ->
                 /\ rc = "in_prog" /\ req' = [req EXCEPT ![h] = Dispatched(h, N, Descs)]
                 /\ dev' = Started(h, {}) /\ UNCHANGED eng
            [] OTHER ->
                 /\ rc = "in_prog" /\ req' = [req EXCEPT ![h] = Dispatched(h, N, {})]
                 /\ dev' = Started(h, NewOps(h, Descs)) /\ eng' = after[N]

(* getOverallStatus: nothing is said before every operation is over.       *)
RedisCheckXfer(h, rc) ==
    /\ req[h] # None
    /\ IF Has(h, "wait")
       THEN rc = "in_prog" /\ UNCHANGED req
       ELSE /\ rc = IF Has(h, "err") THEN "err" ELSE "success"
            /\ req' = [req EXCEPT ![h] = <<>>]
    /\ UNCHANGED <<gen, dev, eng>>

(* ~nixlRedisBackendReqH waits.                                            *)
RedisReleaseReqH(h, rc) ==
    /\ req[h] # None /\ rc = "success" /\ Settled(h)
    /\ req' = [req EXCEPT ![h] = None]
    /\ UNCHANGED <<gen, dev, eng>>

(* queryMem: checkKeyExistsSync connects again when the connection is gone *)
(* and drops it when a query has no answer.                                *)
ConnectSyncContext(sync) == IF sync = "none" THEN {"none", "ok"} ELSE {sync}
CheckKeyExistsSync ==
    /\ eng.up = "up"
    /\ \E sync \in ConnectSyncContext(eng.sync) \cup {"none"} : eng' = [eng EXCEPT !.sync = sync]
    /\ UNCHANGED <<gen, req, dev>>

-----------------------------------------------------------------------------
(* The event loop and the workers.                                         *)

Fulfil(o, st) == dev' = Finished(o, st = "ok") /\ req' = Resolved(o, st)

(* The scheduled part of putKeyAsync and getKeyAsync: the slot may be gone *)
(* by now, or may refuse the command.                                      *)
LoopTask ==
    /\ eng.loop # <<>>
    /\ LET o == Head(eng.loop).op
           s == Head(eng.loop).slot
       IN \/ /\ s \in eng.connected
             /\ eng' = [eng EXCEPT !.loop = Tail(@), !.sent[s] = Append(@, o)]
             /\ UNCHANGED <<req, dev>>
          \/ /\ eng' = [eng EXCEPT !.loop = Tail(@), !.inFlight[s] = @ - 1]
             /\ Fulfil(o, "err")
    /\ UNCHANGED gen

(* setCallback                                                             *)
SetCallback(s) ==
    /\ eng.sent[s] # <<>>
    /\ eng' = [eng EXCEPT !.sent[s] = Tail(@), !.inFlight[s] = @ - 1]
    /\ \E st \in {"ok", "err"} : Fulfil(Head(eng.sent[s]), st)
    /\ UNCHANGED gen

(* getCallback: a wrong size, no such key or an error end it; an answer to *)
(* be copied goes to the workers.                                          *)
GetCallback(s) ==
    /\ eng.sent[s] # <<>>
    /\ LET o == Head(eng.sent[s]) IN
       \/ /\ eng' = [eng EXCEPT !.sent[s] = Tail(@), !.inFlight[s] = @ - 1]
          /\ Fulfil(o, "err")
       \/ /\ eng' = [eng EXCEPT !.sent[s] = Tail(@), !.work = @ \cup {[op |-> o, slot |-> s]}]
          /\ UNCHANGED <<req, dev>>
    /\ UNCHANGED gen

WorkerLoop ==
    /\ \E w \in eng.work :
         /\ eng' = [eng EXCEPT !.work = @ \ {w}, !.inFlight[w.slot] = @ - 1]
         /\ Fulfil(w.op, "ok")
    /\ UNCHANGED gen

(* A connection is lost: hiredis calls back every pending command without  *)
(* an answer, then disconnectCallback.                                     *)
DisconnectCallback(s) ==
    /\ s \in eng.connected
    /\ LET lost == ToSet(eng.sent[s]) IN
       /\ eng' = [eng EXCEPT !.connected = @ \ {s}, !.sent[s] = <<>>,
                             !.inFlight[s] = @ - Cardinality(lost)]
       /\ dev' = [dev EXCEPT !.out = @ \ lost]
       /\ req' = [h \in Handles |->
                    IF req[h] = None THEN None
                    ELSE [j \in DOMAIN req[h] |->
                            IF req[h][j].op \in lost THEN Future(req[h][j].op, "err")
                            ELSE req[h][j]]]
    /\ UNCHANGED gen

RedisAnswers == \E s \in Slots : SetCallback(s) \/ GetCallback(s)
RedisWorks == LoopTask \/ WorkerLoop \/ RedisAnswers
RedisCalls ==
    \/ Starting \/ CheckKeyExistsSync
    \/ \E i \in Descs : RedisDeregisterMem(i)
    \/ \E s \in Slots : DisconnectCallback(s)

(* The counters the slots are chosen by are what is in their hands.        *)
RedisHeld(s) ==
    Len(eng.sent[s]) + Cardinality({w \in eng.work : w.slot = s})
        + Cardinality({j \in DOMAIN eng.loop : eng.loop[j].slot = s})
RedisWhole == \A s \in Slots : eng.inFlight[s] = RedisHeld(s)

-----------------------------------------------------------------------------
(***************************************************************************)
(* src/plugins/infinia: a request is one RED BatchTask (external), started *)
(* whole and reset once its result has been taken.                         *)
(***************************************************************************)

InfiniaInit == NoRequests /\ eng = [rae |-> "up"]

(* reserveOperations, addOperation, prepareTransfer: the keys and lists    *)
(* the task points to live as long as the handle.  batch is the state of   *)
(* batch_task_: fresh, started, or spent when it could not be reset.       *)
InfiniaPrepXfer(h, rc) ==
    /\ req[h] = None /\ rc = "prepped"
    /\ req' = [req EXCEPT ![h] = [posted |-> FALSE, batch |-> "fresh"]]
    /\ UNCHANGED <<gen, dev, eng>>

BatchOut(h) == {o \in dev.out : o[1] = h}
IsReady(h) == req[h].batch = "started" /\ BatchOut(h) = {}

(* postTransfer: BatchTask::start takes all operations or, out of memory   *)
(* or not fresh, none.                                                     *)
InfiniaPostXfer(h, rc) ==
    /\ Posting(h)
    /\ UNCHANGED eng
    /\ \/ /\ req[h].batch = "fresh" /\ rc = "in_prog"
          /\ dev' = Started(h, NewOps(h, Descs))
          /\ req' = [req EXCEPT ![h] = [posted |-> TRUE, batch |-> "started"]]
       \/ /\ rc = "err"
          /\ dev' = Started(h, {}) /\ UNCHANGED req

(* checkTransfer                                                           *)
InfiniaCheckXfer(h, rc) ==
    /\ req[h] # None
    /\ UNCHANGED <<gen, dev, eng>>
    /\ \/ ~ req[h].posted /\ rc = "err" /\ UNCHANGED req
       \/ req[h].posted /\ ~ IsReady(h) /\ rc = "in_prog" /\ UNCHANGED req
       \/ /\ req[h].posted /\ IsReady(h)
          /\ rc = IF Left(h) = 0 THEN "success" ELSE "err"
          /\ \E batch \in {"fresh", "spent"} :
               req' = [req EXCEPT ![h] = [posted |-> FALSE, batch |-> batch]]

(* ~nixlInfiniaBackendReqH waits for a batch that is still running.        *)
InfiniaReleaseReqH(h, rc) ==
    /\ req[h] # None /\ (req[h].batch = "started" => IsReady(h)) /\ rc = "success"
    /\ req' = [req EXCEPT ![h] = None]
    /\ UNCHANGED <<gen, dev, eng>>

InfiniaWorks == \E o \in dev.out, ok \in BOOLEAN : dev' = Finished(o, ok) /\ UNCHANGED <<gen, req, eng>>
=============================================================================
