---------------------------- MODULE QueueEngines ----------------------------
(***************************************************************************)
(* The engines that keep queues of their own in front of the device: POSIX *)
(* and DOCA Memos.                                                         *)
(***************************************************************************)
EXTENDS EngineState

(***************************************************************************)
(* src/plugins/posix: requests of the engine share one I/O queue with a    *)
(* fixed number of entries, over io_uring, Linux AIO or POSIX AIO.         *)
(*                                                                         *)
(* eng.io maps the operations that hold an entry to the entry's state:     *)
(*   st      queued (ios_to_submit_), prepared (in the submission ring),   *)
(*           flight (the kernel's), over (reported, kept for its cancel)   *)
(*   asked   cancel_requested_                                             *)
(*   cancel  no, wanted, prepared, sent: the asynchronous cancellation     *)
(* eng.cqe is the kernel's completions not yet reaped (external).          *)
(***************************************************************************)

CONSTANT MaxQueueFaults \* bound on failed submissions and partial I/O

(* ios_pool_size: too small for a request, or with room to spare.          *)
PoolSizes == {N - 1, 2 * N}

PosixInit ==
    /\ NoRequests
    /\ \E type \in {"URING", "AIO", "POSIXAIO"}, size \in PoolSizes :
         eng = [type |-> type, ios_pool_size |-> size, io |-> <<>>, cqe |-> {},
                terminal_error |-> FALSE, faults |-> 0]

PosixNewReq == [enqueued |-> 0, confirmed |-> 0, failed |-> FALSE,
           cancelling |-> FALSE, expected |-> 0, seen |-> 0]
IsComplete(r) == r.confirmed = r.enqueued /\ r.expected = r.seen

(* The calls below map one state of engine, requests and device to the     *)
(* next; sub is what the kernel answers to a submission.                   *)
PosixNow == [e |-> eng, r |-> req, d |-> dev]
PosixBecomes(S) == eng' = S.e /\ req' = S.r /\ dev' = S.d

Entry == [st |-> "queued", asked |-> FALSE, cancel |-> "no"]
With(S, st) == {o \in DOMAIN S.e.io : S.e.io[o].st = st}
InFlight(S) == With(S, "prepared") \cup With(S, "flight")
Of(ops, h) == {o \in ops : o[1] = h}
Without(f, D) == [o \in DOMAIN f \ D |-> f[o]]
Free(S) == S.e.ios_pool_size - Cardinality(DOMAIN S.e.io)
Fault(S) == [S EXCEPT !.e.faults = @ + 1]

(* ioDone for each of a set of operations that is over.                    *)
IoDone(S, ops, error) ==
    [S EXCEPT !.r = [h \in Handles |->
                        IF S.r[h] = None \/ Of(ops, h) = {} THEN S.r[h]
                        ELSE [S.r[h] EXCEPT !.confirmed = @ + Cardinality(Of(ops, h)),
                                            !.failed = @ \/ error]],
              !.d.out = @ \ ops]

(* failIO: reported as failed and its entry free again.                    *)
FailIO(S, ops) == [IoDone(S, ops, TRUE) EXCEPT !.e.io = Without(@, ops)]
FailQueuedIOs(S, h) == FailIO(S, Of(With(S, "queued"), h))

-----------------------------------------------------------------------------
(* io_uring_io_queue.cpp                                                   *)

(* prepareSQEs and io_uring_submit: cancellations first, then I/O.         *)
DriveSubmissions(S, sub) ==
    LET to == IF sub = "ok" THEN "flight" ELSE "prepared"
        sent == IF sub = "ok" THEN "sent" ELSE "prepared"
        drive == [S EXCEPT !.e.io = [o \in DOMAIN @ |->
                     [@[o] EXCEPT !.st = IF @ \in {"queued", "prepared"} THEN to ELSE @,
                                  !.cancel = IF @ \in {"wanted", "prepared"} THEN sent ELSE @]]]
    IN CASE S.e.terminal_error -> S
         [] ~ S.e.terminal_error /\ sub = "terminal" -> Fault([drive EXCEPT !.e.terminal_error = TRUE])
         [] ~ S.e.terminal_error /\ sub = "ok" -> drive
         [] OTHER -> Fault(drive)

(* finishIO, releaseIOIfIdle: a pending cancellation keeps the entry.      *)
UringFinishIO(S, o, error) ==
    IF S.e.io[o].cancel = "no" THEN [IoDone(S, {o}, error) EXCEPT !.e.io = Without(@, {o})]
                               ELSE [IoDone(S, {o}, error) EXCEPT !.e.io[o].st = "over"]

UringHandleIOCompletion(S, o, res) ==
    CASE res = "fail" -> UringFinishIO(S, o, TRUE)
      [] res = "full" -> UringFinishIO(S, o, FALSE)
      [] res = "part" /\ S.e.io[o].asked -> UringFinishIO(S, o, TRUE)
      [] OTHER -> [S EXCEPT !.e.io[o].st = "queued"]

HandleCancelCompletion(S, o) ==
    IF S.e.io[o].st = "over" THEN [S EXCEPT !.r[o[1]].seen = @ + 1, !.e.io = Without(@, {o})]
                             ELSE [S EXCEPT !.r[o[1]].seen = @ + 1, !.e.io[o].cancel = "no"]

UringDoCheckCompleted(S) ==
    LET cqe == SetToSeq(S.e.cqe)
        after[i \in 0..Len(cqe)] ==
          IF i = 0 THEN [S EXCEPT !.e.cqe = {}]
          ELSE Then(after[i - 1], LAMBDA T :
                 IF cqe[i].res = "cancelled" THEN HandleCancelCompletion(T, cqe[i].op)
                 ELSE UringHandleIOCompletion(T, cqe[i].op, cqe[i].res))
    IN after[Len(cqe)]

UringPoll(S, sub) ==
    Then(UringDoCheckCompleted(S), LAMBDA T :
        CASE DOMAIN T.e.io = {} -> [S |-> T, status |-> "success"]
          [] DOMAIN T.e.io # {} /\ T.e.terminal_error -> [S |-> T, status |-> "err"]
          [] OTHER -> [S |-> DriveSubmissions(T, sub), status |-> "in_prog"])

UringCancel(S, h, sub) ==
    LET hit == {o \in Of(InFlight(S), h) : S.e.io[o].cancel = "no"}
        wanted(T) == [T EXCEPT !.e.io = [o \in DOMAIN @ |->
                        IF o \in hit THEN [@[o] EXCEPT !.asked = TRUE, !.cancel = "wanted"] ELSE @[o]]]
    IN Then(FailQueuedIOs(S, h), LAMBDA T :
           [S |-> IF hit = {} THEN T ELSE Then(wanted(T), LAMBDA U : DriveSubmissions(U, sub)),
            n |-> Cardinality(hit)])

-----------------------------------------------------------------------------
(* linux_aio_io_queue.cpp                                                  *)

(* Everything queued or in flight fails; releasing the context waits for   *)
(* the kernel.                                                             *)
EnterTerminalError(S) ==
    [FailIO(S, With(S, "queued") \cup With(S, "flight")) EXCEPT
        !.e.terminal_error = TRUE, !.e.cqe = {}, !.e.faults = @ + 1]

LinuxAioPost(S, sub) ==
    LET queued == With(S, "queued") IN
    CASE S.e.terminal_error \/ queued = {} -> S
      [] ~ S.e.terminal_error /\ queued # {} /\ sub = "again" -> Fault(S)
      [] ~ S.e.terminal_error /\ queued # {} /\ sub = "terminal" -> EnterTerminalError(S)
      [] ~ S.e.terminal_error /\ queued # {} /\ sub = "refused" ->
            Fault(FailIO(S, {CHOOSE o \in queued : TRUE}))
      [] OTHER -> [S EXCEPT !.e.io = [o \in DOMAIN @ |->
                      IF o \in queued THEN [@[o] EXCEPT !.st = "flight"] ELSE @[o]]]

(* Whether the completion counts as a failure, and what becomes of it.     *)
Fails(S, o, res) == res = "fail" \/ (res = "part" /\ S.e.io[o].asked)
LinuxAioHandleIOCompletion(S, o, res) ==
    CASE Fails(S, o, res) -> FailIO(S, {o})
      [] res = "full" -> [IoDone(S, {o}, FALSE) EXCEPT !.e.io = Without(@, {o})]
      [] OTHER -> [S EXCEPT !.e.io[o].st = "queued"]

(* A failure takes the request's queued I/O with it.                       *)
LinuxAioDoCheckCompleted(S) ==
    LET cqe == SetToSeq(S.e.cqe)
        after[i \in 0..Len(cqe)] ==
          IF i = 0 THEN [S EXCEPT !.e.cqe = {}]
          ELSE LET c == cqe[i] IN
               Then(after[i - 1], LAMBDA T :
                 Then(LinuxAioHandleIOCompletion(T, c.op, c.res), LAMBDA U :
                   IF Fails(T, c.op, c.res) THEN FailQueuedIOs(U, c.op[1]) ELSE U))
    IN after[Len(cqe)]

LinuxAioPoll(S, sub) ==
    CASE S.e.terminal_error -> [S |-> S, status |-> "err"]
      [] ~ S.e.terminal_error /\ sub = "terminal" /\ DOMAIN S.e.io # {} ->
            [S |-> EnterTerminalError(S), status |-> "in_prog"]
      [] OTHER -> [S |-> Then(LinuxAioDoCheckCompleted(S), LAMBDA T : LinuxAioPost(T, sub)),
                    status |-> "in_prog"]

(* io_cancel reports at once what it could cancel.                         *)
LinuxAioCancel(S, h, sub) ==
    LET mine == Of(With(S, "flight"), h)
        asked(T) == [T EXCEPT !.e.io = [o \in DOMAIN @ |->
                       IF o \in mine THEN [@[o] EXCEPT !.asked = TRUE] ELSE @[o]]]
        done == {c.op : c \in S.e.cqe}
    IN [S |-> Then(FailQueuedIOs(S, h), LAMBDA T :
                Then(asked(T), LAMBDA U : IF sub = "ok" THEN FailIO(U, mine \ done) ELSE U)),
        n |-> 0]

-----------------------------------------------------------------------------
(* posix_aio_io_queue.cpp                                                  *)

PosixAioPost(S, sub) ==
    IF sub = "refused" /\ With(S, "queued") # {}
    THEN [S |-> Fault(S), status |-> "err"]
    ELSE [S |-> [S EXCEPT !.e.io = [o \in DOMAIN @ |-> [@[o] EXCEPT !.st = "flight"]]],
          status |-> "in_prog"]

(* One that failed or was short stays in the list and is met again; the    *)
(* others are taken as far as the iteration gets to them.                  *)
PosixAioPoll(S, sub) ==
    LET ended == S.e.cqe
        full == {c.op : c \in {d \in ended : d.res = "full"}}
        taken(T) == [IoDone(T, full, FALSE) EXCEPT
                       !.e.io = Without(@, full), !.e.cqe = {c \in @ : c.res # "full"}]
    IN Then(PosixAioPost(S, sub), LAMBDA p :
           CASE p.status = "err" -> p
             [] p.status # "err" /\ DOMAIN p.S.e.io # {c.op : c \in ended} /\ sub = "again" ->
                  [S |-> p.S, status |-> "in_prog"]
             [] OTHER -> [S |-> taken(p.S),
                          status |-> IF \E c \in ended : c.res # "full" THEN "err" ELSE "in_prog"])

-----------------------------------------------------------------------------
(* nixlPosixIOQueue and nixlPosixBackendReqH                               *)

PosixEnqueue(S, ops) ==
    [S EXCEPT !.e.io = [o \in DOMAIN @ \cup ops |-> IF o \in ops THEN Entry ELSE @[o]]]
Accepts(S) == CASE S.e.type = "AIO" /\ S.e.terminal_error -> 0
                [] Free(S) < N -> Free(S)
                [] OTHER -> N
PosixPost(S, sub) ==
    CASE S.e.type = "URING" -> [S |-> DriveSubmissions(S, sub), status |-> "in_prog"]
      [] S.e.type = "AIO" -> [S |-> LinuxAioPost(S, sub), status |-> "in_prog"]
      [] S.e.type = "POSIXAIO" -> PosixAioPost(S, sub)
Poll(S, sub) ==
    CASE S.e.type = "URING" -> UringPoll(S, sub)
      [] S.e.type = "AIO" -> LinuxAioPoll(S, sub)
      [] S.e.type = "POSIXAIO" -> PosixAioPoll(S, sub)
Cancel(S, h, sub) ==
    CASE S.e.type = "URING" -> UringCancel(S, h, sub)
      [] S.e.type = "AIO" -> LinuxAioCancel(S, h, sub)
      [] S.e.type = "POSIXAIO" -> [S |-> S, n |-> 0]

RequestCancellation(S, h, sub) ==
    IF S.r[h].cancelling \/ IsComplete(S.r[h]) THEN S
    ELSE Then(Cancel(S, h, sub), LAMBDA c :
              [c.S EXCEPT !.r[h].cancelling = TRUE, !.r[h].expected = c.n])

QueueResult(S, h, result, sub) ==
    Then(IF result = "err" THEN [S EXCEPT !.r[h].failed = TRUE] ELSE S, LAMBDA T :
      Then(IF T.r[h].failed THEN RequestCancellation(T, h, sub) ELSE T, LAMBDA U :
        [S |-> U, rc |-> CASE ~ IsComplete(U.r[h]) -> "in_prog"
                           [] IsComplete(U.r[h]) /\ (result = "err" \/ U.r[h].failed) -> "err"
                           [] OTHER -> "success"]))

PosixAnswers == IF eng.faults < MaxQueueFaults THEN {"ok", "again", "terminal", "refused"} ELSE {"ok"}

PosixPrepXfer(h, rc) ==
    /\ req[h] = None /\ rc = "prepped"
    /\ req' = [req EXCEPT ![h] = PosixNewReq]
    /\ UNCHANGED <<gen, dev, eng>>

PosixPostXfer(h, rc) ==
    /\ Posting(h)
    /\ \E sub \in PosixAnswers :
         LET n == Accepts(PosixNow)
             ops == NewOps(h, 1..n)
             T == [PosixEnqueue(PosixNow, ops) EXCEPT
                     !.r[h] = [PosixNewReq EXCEPT !.enqueued = n], !.d = Started(h, ops)]
         IN \E q \in {IF n < N THEN QueueResult(T, h, "err", sub)
                      ELSE Then(PosixPost(T, sub), LAMBDA p : QueueResult(p.S, h, p.status, sub))} :
                PosixBecomes(q.S) /\ rc = q.rc

PosixCheckXfer(h, rc) ==
    /\ req[h] # None
    /\ \E sub \in PosixAnswers :
         \E p \in {IF IsComplete(req[h]) THEN [S |-> PosixNow, status |-> "success"] ELSE Poll(PosixNow, sub)} :
            IF ~ IsComplete(p.S.r[h]) /\ p.status = "err"
            THEN PosixBecomes(p.S) /\ rc = "err"
            ELSE \E q \in {QueueResult(p.S, h, IF IsComplete(p.S.r[h]) THEN "success" ELSE p.status, sub)} :
                    PosixBecomes(q.S) /\ rc = q.rc
    /\ UNCHANGED gen

PosixReleaseReqH(h, rc) ==
    /\ req[h] # None
    /\ IF IsComplete(req[h])
       THEN rc = "success" /\ req' = [req EXCEPT ![h] = None] /\ UNCHANGED <<dev, eng>>
       ELSE rc = "err" /\ \E sub \in PosixAnswers : \E S \in {RequestCancellation(PosixNow, h, sub)} : PosixBecomes(S)
    /\ UNCHANGED gen

-----------------------------------------------------------------------------
(* The kernel.                                                             *)

Awaited == {c.op : c \in {d \in eng.cqe : d.res # "cancelled"}}
PosixIoEnds(o, res) ==
    /\ o \in With(PosixNow, "flight") \ Awaited
    /\ res = "part" => eng.faults < MaxQueueFaults
    /\ eng' = [eng EXCEPT !.cqe = @ \cup {[op |-> o, res |-> res]},
                          !.faults = IF res = "part" THEN @ + 1 ELSE @]
    /\ dev' = IF res = "part" /\ eng.type # "POSIXAIO" THEN dev ELSE Finished(o, res = "full")
    /\ UNCHANGED <<gen, req>>

CancelEnds(o) ==
    /\ o \in DOMAIN eng.io /\ eng.io[o].cancel = "sent"
    /\ [op |-> o, res |-> "cancelled"] \notin eng.cqe
    /\ eng' = [eng EXCEPT !.cqe = @ \cup {[op |-> o, res |-> "cancelled"]}]
    /\ UNCHANGED <<gen, req, dev>>

PosixWorks == \E o \in DOMAIN eng.io : CancelEnds(o) \/ \E res \in {"full", "part", "fail"} : PosixIoEnds(o, res)

(* Entries in use are those of requests that are not complete.             *)
PosixWhole ==
    /\ Free(PosixNow) >= 0
    /\ \A o \in DOMAIN eng.io : req[o[1]] # None /\ ~ IsComplete(req[o[1]])

-----------------------------------------------------------------------------
(***************************************************************************)
(* src/plugins/doca_memos: tasks of all requests share a pool; a request   *)
(* that does not fit waits in pendingRequests_ for its turn.  The caller   *)
(* drives the device (no-thread engine), or a progress thread does, to     *)
(* which calls hand requests and cancellations over under queueMutex_.     *)
(***************************************************************************)

CONSTANTS
    NumTasks,         \* num_tasks of the context
    MaxSubmitFaults   \* bound on tasks that cannot be submitted

MemosInit ==
    /\ NoRequests
    /\ \E threaded \in BOOLEAN :
         eng = [threaded |-> threaded, pendingRequests |-> <<>>, cq |-> {}, faults |-> 0,
                producerVec |-> <<>>, cancelledRequests |-> <<>>,
                pc |-> "progress", drain |-> <<>>, cancels |-> <<>>]

(* nixlDocaMemosBackendReqH; st is overallStatus_, done allTasksCompleted_. *)
MemosNewReq == [total |-> N, submitted |-> 0, completed |-> 0, done |-> FALSE, cancelled |-> FALSE,
           abortQueued |-> FALSE, posted |-> FALSE, st |-> "in_prog", isPending |-> FALSE]

MemosPrepXfer(h, rc) ==
    /\ req[h] = None /\ rc = "prepped"
    /\ req' = [req EXCEPT ![h] = MemosNewReq]
    /\ UNCHANGED <<gen, dev, eng>>

-----------------------------------------------------------------------------
(* Submission and completion, from one state of engine, requests and       *)
(* device to the next.                                                     *)
MemosNow == [e |-> eng, r |-> req, d |-> dev, g |-> gen, stop |-> FALSE]
MemosBecomes(S) == eng' = S.e /\ req' = S.r /\ dev' = S.d

PublishIfComplete(S, h) == [S EXCEPT !.r[h].done = @ \/ S.r[h].completed >= S.r[h].total]
DropUnsubmittedTasks(S, h) == PublishIfComplete([S EXCEPT !.r[h].total = S.r[h].submitted], h)

HandleSubmissionFailure(S, h) ==
    LET T == [S EXCEPT !.r[h].st = IF @ = "in_prog" THEN "err" ELSE @,
                       !.r[h].total = S.r[h].submitted + 1,
                       !.r[h].completed = @ + 1, !.e.faults = @ + 1]
    IN IF T.r[h].isPending THEN T ELSE PublishIfComplete(T, h)

(* trySubmitRequest: from the first descriptor not yet submitted, as far   *)
(* as the pool goes; bad is one whose task cannot be made or submitted.    *)
(* The result tells whether the request is through.                        *)
Room(S) == NumTasks - Cardinality(S.d.out) - Cardinality(S.e.cq)
TrySubmitRequest(S, h, bad) ==
    LET first == S.r[h].submitted + 1
        last == IF Room(S) < N - S.r[h].submitted THEN S.r[h].submitted + Room(S) ELSE N
        put(i) == [S EXCEPT !.r[h].submitted = i,
                            !.d.out = @ \cup {Op(h, S.g[h], j) : j \in first..i}]
    IN CASE S.e.pendingRequests # <<>> /\ ~ S.r[h].isPending -> [S |-> S, all |-> FALSE]
         [] OTHER -> IF bad \in first..last
                     THEN [S |-> HandleSubmissionFailure(put(bad - 1), h), all |-> TRUE]
                     ELSE [S |-> put(last), all |-> last = N]
MemosEnqueue(S, h) == [S EXCEPT !.r[h].isPending = TRUE, !.e.pendingRequests = Append(@, h)]

(* taskCompletionCallback, taskErrorCallback.                              *)
TaskCallback(S, c) ==
    LET h == c.op[1]
        failed == ~ S.r[h].cancelled /\ ~ c.ok /\ S.r[h].st = "in_prog"
        st == IF failed THEN "err" ELSE S.r[h].st
        last == S.r[h].completed + 1 >= S.r[h].total
    IN [S EXCEPT !.r[h].completed = @ + 1,
                 !.r[h].done = @ \/ last,
                 !.r[h].st = IF last /\ ~ S.r[h].cancelled /\ st = "in_prog" THEN "success" ELSE st]

(* A burst of doca_pe_progress.                                            *)
Progress(S) ==
    LET cq == SetToSeq(S.e.cq)
        after[i \in 0..Len(cq)] ==
          IF i = 0 THEN [S EXCEPT !.e.cq = {}]
          ELSE Then(after[i - 1], LAMBDA T : TaskCallback(T, cq[i]))
    IN after[Len(cq)]

(* Pending requests in turn, until one does not fit.                       *)
ResumePendingRequests(S, bad) ==
    LET pending == S.e.pendingRequests
        step(T, h) ==
          Then(TrySubmitRequest(T, h, bad), LAMBDA t :
            IF ~ t.all THEN [t.S EXCEPT !.stop = TRUE]
            ELSE PublishIfComplete([t.S EXCEPT !.e.pendingRequests = Tail(@),
                                              !.r[h].isPending = FALSE], h))
        after[i \in 0..Len(pending)] ==
          IF i = 0 THEN [S EXCEPT !.stop = FALSE]
          ELSE Then(after[i - 1], LAMBDA T : IF T.stop THEN T ELSE step(T, pending[i]))
    IN after[Len(pending)]

Posted(h) == [MemosNewReq EXCEPT !.posted = TRUE]
Status(r) == CASE ~ r.done -> "in_prog"
               [] r.done /\ r.cancelled /\ r.st = "in_prog" -> "err"
               [] OTHER -> r.st
Bad == IF eng.faults < MaxSubmitFaults THEN 0..N ELSE {0}

-----------------------------------------------------------------------------
(* nixlNoThreadProgressEngine: every call holds lock_.                     *)

NoThreadPost(h, rc) ==
    \E bad \in Bad :
      LET S == [MemosNow EXCEPT !.g = gen', !.r[h] = Posted(h), !.d = Started(h, {})] IN
      \E t \in {TrySubmitRequest(S, h, bad)} :
         /\ MemosBecomes(IF t.all THEN t.S ELSE MemosEnqueue(t.S, h))
         /\ rc = IF t.S.r[h].done THEN t.S.r[h].st ELSE "in_prog"

NoThreadCheck(h, rc) ==
    \E bad \in Bad : \E S \in {Then(Progress(MemosNow), LAMBDA T : ResumePendingRequests(T, bad))} :
        MemosBecomes(S) /\ rc = Status(S.r[h])

Withdraw(S, h) ==
    IF ~ S.r[h].isPending THEN S
    ELSE DropUnsubmittedTasks([S EXCEPT !.e.pendingRequests = SelectSeq(@, LAMBDA g : g # h),
                                        !.r[h].isPending = FALSE], h)

NoThreadRelease(h, rc) ==
    \E S \in {IF req[h].posted THEN Withdraw(MemosNow, h) ELSE MemosNow} :
        IF ~ req[h].posted \/ S.r[h].done
        THEN rc = "success" /\ MemosBecomes([S EXCEPT !.r[h] = None])
        ELSE rc = "err" /\ MemosBecomes([S EXCEPT !.r[h].cancelled = TRUE])

-----------------------------------------------------------------------------
(* nixlThreadedProgressEngine                                              *)

ThreadedPost(h, rc) ==
    IF req[h].abortQueued
    THEN rc = "err" /\ dev' = Started(h, {}) /\ UNCHANGED <<req, eng>>
    ELSE /\ rc = "in_prog"
         /\ req' = [req EXCEPT ![h] = Posted(h)]
         /\ eng' = [eng EXCEPT !.producerVec = Append(@, h)]
         /\ dev' = Started(h, {})

Frees(h) == req' = [req EXCEPT ![h] = None]
Cancels(h, release) ==
    eng' = [eng EXCEPT !.cancelledRequests = Append(@, [req |-> h, release |-> release])]
ThreadedRelease(h, rc) ==
    /\ UNCHANGED dev
    /\ LET queued == h \in ToSet(eng.producerVec) IN
       \/ ~ req[h].posted /\ rc = "success" /\ Frees(h) /\ UNCHANGED eng
       \/ /\ req[h].posted /\ queued /\ rc = "success" /\ Frees(h)
          /\ eng' = [eng EXCEPT !.producerVec = SelectSeq(@, LAMBDA g : g # h)]
       \/ req[h].posted /\ ~ queued /\ req[h].abortQueued /\ rc = "err" /\ UNCHANGED <<req, eng>>
       \/ req[h].posted /\ ~ queued /\ ~ req[h].abortQueued /\ req[h].done
          /\ rc = "success" /\ Frees(h) /\ Cancels(h, TRUE)
       \/ req[h].posted /\ ~ queued /\ ~ req[h].abortQueued /\ ~ req[h].done /\ req[h].cancelled
          /\ rc = "err" /\ UNCHANGED <<req, eng>>
       \/ req[h].posted /\ ~ queued /\ ~ req[h].abortQueued /\ ~ req[h].done /\ ~ req[h].cancelled
          /\ rc = "err" /\ req' = [req EXCEPT ![h].abortQueued = TRUE] /\ Cancels(h, FALSE)

(* progressThreadFunc: completions and pending requests, then whatever     *)
(* calls handed over: cancellations first, then requests one by one.       *)
At(pc) == eng.threaded /\ eng.pc = pc
HasNewWork == eng.producerVec # <<>> \/ eng.cancelledRequests # <<>>

ThreadProgress ==
    /\ At("progress")
    /\ \E bad \in Bad : \E S \in {Then(Progress(MemosNow), LAMBDA T : ResumePendingRequests(T, bad))} :
         MemosBecomes([S EXCEPT !.e.pc = IF HasNewWork THEN "swap" ELSE "progress"])
ThreadSwap ==
    /\ At("swap")
    /\ eng' = [eng EXCEPT !.drain = eng.producerVec, !.producerVec = <<>>,
                          !.cancels = eng.cancelledRequests, !.cancelledRequests = <<>>,
                          !.pc = "cancels"]
    /\ UNCHANGED <<req, dev>>

Aborts == {c.req : c \in {d \in ToSet(eng.cancels) : ~ d.release}}
ProcessCancellations ==
    /\ At("cancels")
    /\ LET abort(S, h) == Withdraw([S EXCEPT !.r[h].cancelled = TRUE], h)
           hs == SetToSeq(Aborts)
           after[i \in 0..Len(hs)] ==
             IF i = 0 THEN MemosNow ELSE Then(after[i - 1], LAMBDA T : abort(T, hs[i]))
       IN \E S \in {after[Len(hs)]} : MemosBecomes([S EXCEPT !.e.pc = "reconcile"])
Reconcile ==
    /\ At("reconcile")
    /\ req' = [h \in Handles |-> IF h \in Aborts THEN [req[h] EXCEPT !.abortQueued = FALSE] ELSE req[h]]
    /\ eng' = [eng EXCEPT !.cancels = <<>>, !.pc = "drain"]
    /\ UNCHANGED dev
ThreadDrain ==
    /\ At("drain")
    /\ IF eng.drain = <<>> THEN eng' = [eng EXCEPT !.pc = "progress"] /\ UNCHANGED <<req, dev>>
       ELSE LET h == Head(eng.drain)
                S == [MemosNow EXCEPT !.e.drain = Tail(@)]
            IN IF req[h].cancelled THEN MemosBecomes(DropUnsubmittedTasks(S, h))
               ELSE \E bad \in Bad : \E t \in {TrySubmitRequest(S, h, bad)} :
                       MemosBecomes(IF t.all THEN t.S ELSE MemosEnqueue(t.S, h))
Thread ==
    /\ ThreadProgress \/ ThreadSwap \/ ProcessCancellations \/ Reconcile \/ ThreadDrain
    /\ UNCHANGED gen

-----------------------------------------------------------------------------
MemosPostXfer(h, rc) ==
    /\ Posting(h)
    /\ IF eng.threaded THEN ThreadedPost(h, rc) ELSE NoThreadPost(h, rc)
MemosCheckXfer(h, rc) ==
    /\ req[h] # None
    /\ IF eng.threaded THEN rc = Status(req[h]) /\ UNCHANGED <<req, dev, eng>> ELSE NoThreadCheck(h, rc)
    /\ UNCHANGED gen
MemosReleaseReqH(h, rc) ==
    /\ req[h] # None
    /\ IF eng.threaded THEN ThreadedRelease(h, rc) ELSE NoThreadRelease(h, rc)
    /\ UNCHANGED gen

(* The device: a task keeps its place in the pool until it is reaped.      *)
TaskEnds(o, ok) ==
    /\ o \in dev.out
    /\ dev' = Finished(o, ok)
    /\ eng' = [eng EXCEPT !.cq = @ \cup {[op |-> o, ok |-> ok]}]
    /\ UNCHANGED <<gen, req>>

MemosWorks == Thread \/ \E o \in dev.out, ok \in BOOLEAN : TaskEnds(o, ok)

(* Nothing the engine still points to has been freed, and what waits is    *)
(* marked as waiting.                                                      *)
MemosWhole ==
    /\ \A h \in ToSet(eng.pendingRequests) \cup ToSet(eng.producerVec) \cup ToSet(eng.drain) \cup Aborts
               \cup {c.op[1] : c \in eng.cq} :
         req[h] # None
    /\ \A h \in Handles : req[h] # None => (req[h].isPending <=> h \in ToSet(eng.pendingRequests))
    /\ Room(MemosNow) >= 0
=============================================================================
