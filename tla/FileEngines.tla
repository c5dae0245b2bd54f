---------------------------- MODULE FileEngines ----------------------------
(***************************************************************************)
(* The engines that hand a whole batch to a library or a pool of threads:  *)
(* GPUDirect Storage in its two forms, 3FS, GUSLI and Mooncake.            *)
(***************************************************************************)
EXTENDS EngineState

(***************************************************************************)
(* src/plugins/cuda_gds/gds_mt_engine.cpp: a post runs a taskflow of one   *)
(* cuFile call per request on the executor's threads.                      *)
(***************************************************************************)

GdsMtInit == NoRequests /\ eng = None

(* finalizePrep                                                            *)
GdsMtPrepXfer(h, rc) ==
    /\ req[h] = None /\ rc = "prepped"
    /\ req' = [req EXCEPT ![h] = [overall_status |-> "success", running_transfer |-> "none"]]
    /\ UNCHANGED <<gen, dev, eng>>

GdsMtPostXfer(h, rc) ==
    /\ Posting(h) /\ rc = "in_prog"
    /\ req' = [req EXCEPT ![h] = [overall_status |-> "success", running_transfer |-> "valid"]]
    /\ dev' = Started(h, NewOps(h, Descs))
    /\ UNCHANGED eng

GdsMtCheckXfer(h, rc) ==
    /\ req[h] # None /\ req[h].running_transfer = "valid"
    /\ IF Work(h) > 0
       THEN rc = "in_prog" /\ UNCHANGED req
       ELSE /\ rc = req[h].overall_status
            /\ req' = [req EXCEPT ![h].running_transfer = "none"]
    /\ UNCHANGED <<gen, dev, eng>>

(* ~nixlGdsMtReqH waits.                                                   *)
GdsMtReleaseReqH(h, rc) ==
    /\ req[h] # None /\ rc = "success"
    /\ req[h].running_transfer = "valid" => Work(h) = 0
    /\ req' = [req EXCEPT ![h] = None]
    /\ UNCHANGED <<gen, dev, eng>>

(* runCuFileOp on a thread of the executor: all bytes, too few, or none.   *)
RunCuFileOp(o) ==
    /\ \E ok \in BOOLEAN :
         /\ dev' = Finished(o, ok)
         /\ req' = IF ok THEN req ELSE [req EXCEPT ![o[1]].overall_status = "err"]
    /\ UNCHANGED <<gen, eng>>

GdsMtWorks == \E o \in dev.out : RunCuFileOp(o)

-----------------------------------------------------------------------------
(***************************************************************************)
(* src/plugins/cuda_gds/gds_batch_engine.cpp: a post is a list of cuFile   *)
(* batches taken from a fixed pool.  A batch goes back to the pool when    *)
(* cuFile has reported every entry, or when its context was made anew.     *)
(***************************************************************************)

CONSTANTS
    Batches,        \* batch_storage_
    MaxPollFaults   \* bound on cuFileBatchIOGetStatus failures

(* nixlGdsIOBatch: entries submitted, those whose report was counted, and  *)
(* its flags.                                                              *)
Reset == [ops |-> {}, seen |-> {}, active |-> FALSE, broken |-> FALSE, st |-> "not_posted"]

GdsInit ==
    /\ NoRequests
    /\ \E limit \in 1..N :
         eng = [limit |-> limit, pool |-> SetToSeq(Batches), lost |-> {},
                batch |-> [b \in Batches |-> Reset], faults |-> 0]

CeilDiv(a, b) == (a + b - 1) \div b
BatchCount == CeilDiv(N, eng.limit)

(* finalizePrep                                                            *)
GdsPrepXfer(h, rc) ==
    /\ req[h] = None /\ rc = "prepped"
    /\ BatchCount <= Cardinality(Batches)
    /\ req' = [req EXCEPT ![h] = [overall_status |-> "success", list |-> <<>>]]
    /\ UNCHANGED <<gen, dev, eng>>

(* createAndSubmitBatch for the i-th batch: taken off the back of the pool,*)
(* reset, filled and submitted.                                            *)
Entries(h, i) == NewOps(h, ((i - 1) * eng.limit + 1)..(IF i * eng.limit < N THEN i * eng.limit ELSE N))
CreateAndSubmitBatch(e, h, i) ==
    [e EXCEPT !.pool = Front(@),
              !.batch[Last(e.pool)] =
                  [Reset EXCEPT !.ops = Entries(h, i), !.active = TRUE, !.st = "in_prog"]]

(* A batch that cannot be had or submitted ends the loop; what was         *)
(* submitted before it stays, to be polled.                                *)
GdsPostXfer(h, rc) ==
    /\ Posting(h) /\ req[h].list = <<>>
    /\ \E n \in 0..BatchCount :
         LET after[i \in 0..n] == IF i = 0 THEN eng ELSE CreateAndSubmitBatch(after[i - 1], h, i)
             list == [i \in 1..n |-> Last(after[i - 1].pool)]
         IN
         /\ n <= Len(eng.pool)
         /\ eng' = after[n]
         /\ dev' = Started(h, UNION {Entries(h, i) : i \in 1..n})
         /\ req' = [req EXCEPT ![h] =
                      [overall_status |-> IF n = BatchCount THEN "success" ELSE "err", list |-> list]]
         /\ rc = IF n = 0 THEN "err" ELSE "in_prog"

-----------------------------------------------------------------------------
(* Polling.  cuFile reports the entries it is done with.                   *)

Reported(B) == {o \in B.ops : o \notin dev.out}

CheckStatus(B, poll) ==
    LET failure == \E o \in Reported(B) \ B.seen : o \notin dev.ok
        active == Reported(B) # B.ops
    IN CASE B.st # "in_prog" -> B
         [] B.st = "in_prog" /\ poll = "fails" -> [B EXCEPT !.broken = TRUE, !.st = "err"]
         [] OTHER -> [B EXCEPT !.seen = Reported(B), !.active = active,
                               !.st = IF failure THEN "err" ELSE IF active THEN "in_prog" ELSE "success"]

(* Variant: the batch goes back before cuFile is done with it.             *)
DrainEarly(B, poll) == [B EXCEPT !.seen = Reported(B), !.active = FALSE]

Drain(B, poll) ==
    CASE ~ B.active \/ B.broken -> B
      [] B.active /\ ~ B.broken /\ poll = "fails" -> [B EXCEPT !.broken = TRUE]
      [] OTHER -> [B EXCEPT !.seen = Reported(B), !.active = Reported(B) # B.ops]

(* One batch of checkXfer's loop: the batch afterwards, the request's      *)
(* status, and whether cuFile is done with the batch.                      *)
Visit(B, overall, poll) ==
    LET drained(A) == Then(Drain(A, poll), LAMBDA d : [B |-> d, overall |-> "err", done |-> ~ d.active])
    IN IF overall # "success" THEN drained(B)
       ELSE Then(CheckStatus(B, poll), LAMBDA c :
              IF c.st = "err" THEN drained(c)
              ELSE [B |-> c, overall |-> overall, done |-> c.st = "success"])

(* recycle destroys the context; nothing completes into it any more.       *)
GdsCheckXfer(h, rc) ==
    LET list == req[h].list IN
    /\ req[h] # None
    /\ \E poll \in [DOMAIN list -> {"works", "fails"}], again \in {"recycled", "gone"} :
         LET after[i \in 0..Len(list)] ==
               IF i = 0
               THEN [e |-> eng, overall |-> req[h].overall_status, keep |-> <<>>, cut |-> {}]
               ELSE LET b == list[i] IN
                    Then(after[i - 1], LAMBDA p : Then(Visit(eng.batch[b], p.overall, poll[i]), LAMBDA v :
                         CASE v.done ->
                              [p EXCEPT !.e.batch[b] = v.B, !.e.pool = Append(@, b), !.overall = v.overall]
                         [] ~ v.done /\ v.B.broken ->
                              [e |-> [p.e EXCEPT
                                        !.batch[b] = Reset,
                                        !.pool = IF again = "recycled" THEN Append(@, b) ELSE @,
                                        !.lost = IF again = "recycled" THEN @ ELSE @ \cup {b},
                                        !.faults = @ + 1],
                               overall |-> "err", keep |-> p.keep, cut |-> p.cut \cup v.B.ops]
                         [] OTHER ->
                              [p EXCEPT !.e.batch[b] = v.B, !.overall = v.overall, !.keep = Append(@, b)]))
         IN \E end \in {after[Len(list)]} :
         /\ end.e.faults <= MaxPollFaults
         /\ eng' = end.e
         /\ dev' = [dev EXCEPT !.out = @ \ end.cut]
         /\ req' = [req EXCEPT ![h] = [overall_status |-> end.overall, list |-> end.keep]]
         /\ rc = IF end.keep # <<>> THEN "in_prog" ELSE end.overall
    /\ UNCHANGED gen

GdsReleaseReqH(h, rc) ==
    /\ req[h] # None
    /\ IF req[h].list # <<>>
       THEN rc = "err" /\ UNCHANGED req
       ELSE rc = "success" /\ req' = [req EXCEPT ![h] = None]
    /\ UNCHANGED <<gen, dev, eng>>

EntryEnds ==
    /\ \E o \in dev.out, ok \in BOOLEAN : dev' = Finished(o, ok)
    /\ UNCHANGED <<gen, req, eng>>

GdsWorks == EntryEnds

(* Every batch is in the pool, in the list of one request, or given up;    *)
(* one in the pool has nothing outstanding.                                *)
GdsHeld == UNION {IF req[h] = None THEN {} ELSE ToSet(req[h].list) : h \in Handles}
GdsWhole ==
    /\ ToSet(eng.pool) \cup GdsHeld \cup eng.lost = Batches
    /\ ToSet(eng.pool) \cap (GdsHeld \cup eng.lost) = {} /\ IsInjective(eng.pool)
    /\ \A b \in ToSet(eng.pool) : ~ eng.batch[b].active /\ eng.batch[b].ops \cap dev.out = {}

-----------------------------------------------------------------------------
(***************************************************************************)
(* src/plugins/hf3fs: a request has an I/O ring of 3FS (external), I/O     *)
(* objects from a pool, and while it is posted a thread that waits for     *)
(* completions and counts them.  Memory is mapped into the ring (zero      *)
(* copy) or copied: on a read, by the thread.                              *)
(***************************************************************************)

CONSTANT PoolSize   \* iopool_size

(* eng: I/O objects in iopool, and the limit of the 32-bit counters, here  *)
(* small enough to be reached (one post) or not.                           *)
Hf3fsInit == NoRequests /\ \E max \in {2 * N - 1, N * MaxPosts} : eng = [pool |-> PoolSize, max |-> max]

NoThread == [thread |-> "none", error_status |-> "success"]

(* getFromIOPool, returnToIOPool                                           *)
Taken(pool, n) == IF pool < n THEN 0 ELSE pool - n
Returned(pool, n) == IF pool + n > PoolSize THEN PoolSize ELSE pool + n

(* The objects of the descriptors before one that fails are given back,    *)
(* and so is its own.                                                      *)
Hf3fsPrepXfer(h, rc) ==
    /\ req[h] = None
    /\ \/ /\ rc = "prepped"
          /\ \E mem \in {"zero_copy", "copy"} :
               req' = [req EXCEPT ![h] = [mem |-> mem, ior |-> gen[h], submitted_ios |-> 0, completed_ios |-> 0,
                                          cqes |-> <<>>, io_status |-> NoThread]]
          /\ eng' = [eng EXCEPT !.pool = Taken(@, N)]
       \/ /\ rc = "none" /\ UNCHANGED req
          /\ \E n \in 1..N : eng' = [eng EXCEPT !.pool = Returned(Taken(@, n), n)]
    /\ UNCHANGED <<gen, dev>>

(* The ring refuses an I/O, or to submit: the counters stay.               *)
Hf3fsPostXfer(h, rc) ==
    /\ Posting(h)
    /\ \/ /\ rc = "err"
          /\ dev' = Started(h, {}) /\ UNCHANGED req
       \/ /\ rc = "in_prog" /\ eng.max - req[h].submitted_ios >= N
          /\ dev' = Started(h, NewOps(h, Descs))
          /\ req' = [req EXCEPT ![h].submitted_ios = @ + N, ![h].io_status.thread = "runs"]
    /\ UNCHANGED eng

(* 3FS ends an I/O; what is not copied is then in its place.  Nobody hears *)
(* of it when its ring is gone (ior: the posts before the ring was made).  *)
IoCompletes(o) ==
    LET h == o[1]
        ring == req[h] # None /\ req[h].ior < o[2]
    IN
    /\ \E ok \in BOOLEAN :
         /\ dev' = Finished(o, ok /\ ring /\ req[h].mem = "zero_copy")
         /\ req' = IF ~ ring THEN req
                   ELSE [req EXCEPT ![h].cqes = Append(@, [op |-> o, ok |-> ok])]
    /\ UNCHANGED <<gen, eng>>

(* waitForIOsThread: one round of completions, copied and counted up to    *)
(* the first that failed; the rest of the round is dropped.                *)
Waiting(h) ==
    /\ req[h] # None
    /\ req[h].io_status = [thread |-> "runs", error_status |-> "success"]
    /\ req[h].completed_ios < req[h].submitted_ios
(* Variant: a completion that failed is only skipped.                      *)
WaitSkipsFailed(h) ==
    LET good == SelectSeq(req[h].cqes, LAMBDA c : c.ok) IN
    /\ Waiting(h) /\ req[h].cqes # <<>>
    /\ req' = [req EXCEPT ![h].cqes = <<>>, ![h].completed_ios = @ + Len(good)]
    /\ dev' = [dev EXCEPT !.ok = @ \cup {good[i].op : i \in DOMAIN good}]
    /\ UNCHANGED <<gen, eng>>

WaitForIOs(h) ==
    LET cqes == req[h].cqes
        good == SelectInSeq(cqes, LAMBDA c : ~ c.ok)
        counted == IF good = 0 THEN Len(cqes) ELSE good - 1
    IN
    /\ Waiting(h) /\ cqes # <<>>
    /\ req' = [req EXCEPT ![h].cqes = <<>>, ![h].completed_ios = @ + counted,
                          ![h].io_status.error_status = IF good = 0 THEN "success" ELSE "err"]
    /\ dev' = [dev EXCEPT !.ok = @ \cup {cqes[i].op : i \in 1..counted}]
    /\ UNCHANGED <<gen, eng>>
WaitFails(h) ==
    /\ Waiting(h)
    /\ req' = [req EXCEPT ![h].io_status.error_status = "err"]
    /\ UNCHANGED <<gen, dev, eng>>

(* cleanupIOThread joins the thread when the outcome is known.             *)
Hf3fsCheckXfer(h, rc) ==
    LET r == req[h]
        error == r.io_status.error_status # "success"
    IN
    /\ r # None /\ r.io_status.thread = "runs"
    /\ IF ~ error /\ r.completed_ios < r.submitted_ios
       THEN rc = "in_prog" /\ UNCHANGED req
       ELSE /\ rc = IF error THEN "err" ELSE "success"
            /\ req' = [req EXCEPT ![h].io_status = NoThread]
    /\ UNCHANGED <<gen, dev, eng>>

(* Thread, I/O objects and ring go, whatever is outstanding.               *)
Hf3fsReleaseReqH(h, rc) ==
    /\ req[h] # None /\ rc = "success"
    /\ req' = [req EXCEPT ![h] = None]
    /\ eng' = [eng EXCEPT !.pool = Returned(@, N)]
    /\ UNCHANGED <<gen, dev>>

Hf3fsWorks ==
    \/ \E o \in dev.out : IoCompletes(o)
    \/ \E h \in Handles : WaitForIOs(h)
Hf3fsCalls == \E h \in Handles : WaitFails(h)

-----------------------------------------------------------------------------
(***************************************************************************)
(* src/plugins/gusli: block device I/O.  A request of one range, or to one *)
(* device with a scatter-gather list, is one I/O of the library; any other *)
(* is a compound of one I/O per range.  req[h].io is what get_error says   *)
(* of each I/O (external), req[h].rv is pollableAsyncRV.                   *)
(***************************************************************************)

GusliInit == NoRequests /\ eng = None

Children(kind) == IF kind = "single" THEN {1} ELSE Descs

GusliPrepXfer(h, rc) ==
    /\ req[h] = None /\ rc = "prepped"
    /\ \E kind \in {"single", "compound"} :
         req' = [req EXCEPT ![h] = [kind |-> kind, rv |-> "idle",
                                    io |-> [c \in Children(kind) |-> "idle"]]]
    /\ UNCHANGED <<gen, dev, eng>>

(* Variant: a compound keeps the status of its last post.                  *)
GusliPostXferKeepsRv(h, rc) ==
    /\ Posting(h) /\ rc = "in_prog"
    /\ req' = [req EXCEPT ![h].rv = IF @ = "idle" THEN "in_prog" ELSE @,
                          ![h].io = [c \in DOMAIN @ |-> "in_prog"]]
    /\ dev' = Started(h, NewOps(h, Descs))
    /\ UNCHANGED eng

(* exec                                                                    *)
GusliPostXfer(h, rc) ==
    /\ Posting(h) /\ rc = "in_prog"
    /\ req' = [req EXCEPT ![h].rv = "in_prog",
                          ![h].io = [c \in DOMAIN @ |-> "in_prog"]]
    /\ dev' = Started(h, NewOps(h, Descs))
    /\ UNCHANGED eng

(* pollStatus: a compound that has ended says so again; otherwise it waits *)
(* for all of its I/Os and takes over the first failure.                   *)
SinglePollStatus(r) == r.io[1]
CompoundPollStatus(r) ==
    CASE r.rv # "in_prog" -> r.rv
      [] \E c \in DOMAIN r.io : r.io[c] = "in_prog" -> "in_prog"
      [] \E c \in DOMAIN r.io : r.io[c] # "success" -> "err"
      [] OTHER -> "success"
PollStatus(r) ==
    IF r.kind = "single" THEN SinglePollStatus(r) ELSE CompoundPollStatus(r)

GusliCheckXfer(h, rc) ==
    /\ req[h] # None
    /\ rc = PollStatus(req[h])
    /\ req' = [req EXCEPT ![h].rv = rc]
    /\ UNCHANGED <<gen, dev, eng>>

(* The destructor's done() cancels what is in the air.                     *)
GusliReleaseReqH(h, rc) ==
    /\ req[h] # None /\ rc = "success"
    /\ req' = [req EXCEPT ![h] = None]
    /\ dev' = [dev EXCEPT !.out = {o \in @ : o[1] # h}]
    /\ UNCHANGED <<gen, eng>>

(* The library ends an I/O: done, failed or throttled.                     *)
GusliIoEnds(h, c) ==
    /\ req[h] # None /\ req[h].io[c] = "in_prog"
    /\ \E st \in {"success", "err"} :
         LET ops == {o \in dev.out : o[1] = h /\ (req[h].kind = "single" \/ o[3] = c)} IN
         /\ req' = [req EXCEPT ![h].io[c] = st]
         /\ dev' = [out |-> dev.out \ ops, ok |-> dev.ok \cup (IF st = "success" THEN ops ELSE {})]
    /\ UNCHANGED <<gen, eng>>

GusliWorks == \E h \in Handles : req[h] # None /\ \E c \in DOMAIN req[h].io : GusliIoEnds(h, c)

-----------------------------------------------------------------------------
(***************************************************************************)
(* src/plugins/mooncake: a post is a batch of the Mooncake transfer engine *)
(* (external), which holds as many requests as the batch was made for.     *)
(***************************************************************************)

(* eng: whether loadRemoteConnInfo has opened the target's segment.        *)
MooncakeInit == NoRequests /\ eng = "unknown"

LoadRemoteConnInfo == eng' = "open" /\ UNCHANGED <<gen, req, dev>>

MooncakePrepXfer(h, rc) ==
    /\ req[h] = None /\ rc = "prepped"
    /\ req' = [req EXCEPT ![h] = [batch |-> {}, open |-> "no", failed |-> "no"]]
    /\ UNCHANGED <<gen, dev, eng>>

(* freeBatchID: busy batches are kept, or taken over by the engine.        *)
FreeBatch(ops) == IF ops \cap dev'.out = {} THEN {"freed"} ELSE {"deferred", "busy"}

(* submitTransfer of n requests that the batch has room for; otherwise it  *)
(* fails with the first few of them queued.                                *)
Submits(r) == r.batch = {}

MooncakePostXfer(h, rc) ==
    LET r == req[h] IN
    /\ r # None
    /\ \/ /\ r.failed = "yes" \/ eng = "unknown"
          /\ rc = "err" /\ UNCHANGED <<gen, req, dev>>
       \/ /\ r.failed = "no" /\ eng = "open"
          /\ Posting(h)
          /\ \/ /\ Submits(r) /\ rc = "in_prog"
                /\ dev' = Started(h, NewOps(h, Descs))
                /\ req' = [req EXCEPT ![h].batch = @ \cup NewOps(h, Descs), ![h].open = "yes"]
             \/ /\ rc = "err"
                /\ \E n \in 0..(N - 1) :
                     LET queued == r.batch \cup NewOps(h, 1..n) IN
                     /\ Submits(r) \/ n = 0
                     /\ dev' = Started(h, NewOps(h, 1..n))
                     /\ \E free \in FreeBatch(queued) :
                          req' = [req EXCEPT ![h] =
                              [batch |-> IF free = "busy" THEN queued ELSE {},
                               open |-> IF free = "busy" THEN "yes" ELSE "no",
                               failed |-> IF free = "freed" THEN "no" ELSE "yes"]]
    /\ UNCHANGED eng

(* getTransferStatus of each request in turn, which may fail itself.       *)
MooncakeCheckXfer(h, rc) ==
    LET r == req[h]
        fails == {o \in r.batch : o \notin dev.out /\ o \notin dev.ok}
    IN
    /\ r # None
    /\ CASE r.failed = "yes" -> rc = "err" /\ UNCHANGED req
         [] r.failed = "no" /\ r.open = "no" -> rc = "success" /\ UNCHANGED req
         [] OTHER ->
              \E unread \in {{}, r.batch} :
                 \/ /\ (r.batch \cap dev.out) \ unread # {}
                    /\ rc = "in_prog" /\ UNCHANGED req
                 \/ /\ (r.batch \cap dev.out) \ unread = {} /\ fails \cup unread # {}
                    /\ rc = "err" /\ UNCHANGED req
                 \/ /\ r.batch \cap dev.out = {} /\ fails \cup unread = {}
                    /\ rc = "success"
                    /\ req' = [req EXCEPT ![h].batch = {}, ![h].open = "no"]
    /\ UNCHANGED <<gen, dev, eng>>

MooncakeReleaseReqH(h, rc) ==
    /\ req[h] # None /\ rc = "success"
    /\ req' = [req EXCEPT ![h] = None]
    /\ UNCHANGED <<gen, dev, eng>>

RequestEnds ==
    /\ \E o \in dev.out, ok \in BOOLEAN : dev' = Finished(o, ok)
    /\ UNCHANGED <<gen, req, eng>>

MooncakeWorks == RequestEnds
MooncakeCalls == eng = "unknown" /\ LoadRemoteConnInfo
=============================================================================
