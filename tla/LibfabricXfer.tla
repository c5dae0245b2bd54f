---------------------------- MODULE LibfabricXfer ----------------------------
(***************************************************************************)
(* Transfers and notifications of the libfabric engine                     *)
(* (src/plugins/libfabric/libfabric_backend.cpp,                           *)
(* src/utils/libfabric/libfabric_rail.cpp), one initiator and one target.  *)
(*                                                                         *)
(* A transfer's pieces are posted on several rails, by the caller or by    *)
(* the threads of the post pool.  With a progress thread a post is queued  *)
(* in the rail's ring and that thread posts it; without one the caller     *)
(* posts, and progresses the completion queues itself.  A notification     *)
(* travels on rail 0, unordered with the writes, and the target holds it   *)
(* back until the writes it announces have arrived; if the transfer fails, *)
(* an error message lowers that number.                                    *)
(*                                                                         *)
(* The provider is external: it refuses a post while a rail has LfDepth    *)
(* requests whose completion was not read (EAGAIN), accepts or refuses it  *)
(* for good, and completes what it accepted in any order, with an entry or *)
(* an error entry in the rail's queue.                                     *)
(***************************************************************************)
EXTENDS Integers, Sequences, FiniteSets, SequencesExt

CONSTANTS
    LfRails,    \* number of rails
    LfDescs,    \* pieces of a transfer: descriptors, or stripes of one
    LfPosts,    \* bound on the posts of the handle
    LfThreads,  \* numbers of post threads to consider; 0 is no pool
    LfDepth,    \* what a rail's send queue holds
    LfRingSize, \* post_queue_size
    LfFrags,    \* fragments of a notification
    LfGenNotifs,\* bound on genNotif calls
    LfFaults    \* bound on requests that fail

VARIABLES
    lfPt,       \* progress_thread_enabled_
    lfPool,     \* threads of the post pool
    lfH,        \* nixlLibfabricBackendH
    lfAt,       \* where the caller is: see LfStages
    lfTodo,     \* per chunk, the pieces not yet posted
    lfBad,      \* first_status of the chunks is an error
    lfRing,     \* post_ring_ of each rail
    lfDrain,    \* 0, or the rail the progress thread drains
    lfHand,     \* the request it has popped
    lfWire,     \* requests the provider works on
    lfCq,       \* completion queue of each rail
    lfBusy,     \* requests in_use
    lfLost,     \* ghost: requests whose error entry pollForCompletions read
    lfCtl,      \* control messages under way
    lfArrived,  \* writes in the target's completion queues
    lfLanded,   \* ghost: requests whose bytes are in place
    lfPend,     \* pending_notifications_ of the target, by transfer id
    lfGiven,    \* transfer ids whose notification the target handed out
    lfFailed,   \* ghost: transfers that ended with an error the engine knows of
    lfCount     \* [fault, gen]

lfCaller == <<lfAt, lfTodo, lfBad>>
lfSide == <<lfRing, lfDrain, lfHand, lfWire, lfCq, lfBusy, lfLost>>
lfTarget == <<lfArrived, lfPend, lfGiven>>
lfVars == <<lfPt, lfPool, lfH, lfCaller, lfSide, lfCtl, lfTarget, lfLanded, lfFailed, lfCount>>

LfStages == {"idle", "posting", "posted", "running", "okPost", "ok", "failed"}
LfIds == 0..LfPosts
LfPieces(id) == {<<id, n>> : n \in 1..LfDescs}
LfRail(q) == ((q[1] + q[2]) % LfRails) + 1  \* railSelectionIndex: base offset and descriptor
LfAllRails == 1..LfRails
LfNone == [exp |-> -1]
LfMany == LfDescs + 1                       \* stands for INT_MAX
LfHandle(id, op, notif, sub) ==
    [id |-> id, op |-> op, notif |-> notif, sub |-> sub, done |-> 0, good |-> 0, err |-> FALSE,
     told |-> FALSE]
LfFault == lfCount.fault < LfFaults /\ lfCount' = [lfCount EXCEPT !.fault = @ + 1]

LfInit ==
    /\ lfPt \in BOOLEAN /\ lfPool \in LfThreads
    /\ lfH = LfHandle(0, "WRITE", FALSE, 0)
    /\ lfAt = "idle" /\ lfTodo = <<>> /\ lfBad = FALSE
    /\ lfRing = [r \in LfAllRails |-> <<>>] /\ lfDrain = 0 /\ lfHand = <<>>
    /\ lfWire = {} /\ lfCq = [r \in LfAllRails |-> <<>>] /\ lfBusy = {} /\ lfLost = {}
    /\ lfCtl = {} /\ lfArrived = {} /\ lfLanded = {}
    /\ lfPend = [i \in LfIds |-> LfNone] /\ lfGiven = {} /\ lfFailed = {}
    /\ lfCount = [fault |-> 0, gen |-> 0]
-----------------------------------------------------------------------------
(* Completions.                                                            *)

(* complete_request for each of "good" and "bad": the error is stored      *)
(* before the count.  The callback holds the handle, whichever post the    *)
(* request belongs to.                                                     *)
CompleteRequest(h, good, bad) ==
    [h EXCEPT !.done = @ + Cardinality(good) + Cardinality(bad), !.good = @ + Cardinality(good),
              !.err = @ \/ bad # {}]

(* What one fi_cq_readfrom takes: an error entry alone, or the good ones   *)
(* before the first error entry.                                           *)
LfBatch(r) ==
    IF lfCq[r] = <<>> THEN <<>>
    ELSE IF ~Head(lfCq[r]).ok THEN <<Head(lfCq[r])>>
    ELSE LET stop == {i \in DOMAIN lfCq[r] : ~lfCq[r][i].ok}
         IN  SubSeq(lfCq[r], 1, IF stop = {} THEN Len(lfCq[r])
                                ELSE (CHOOSE i \in stop : \A j \in stop : i <= j) - 1)

LfReqs(b, ok) == {e.req : e \in {x \in Range(b) : x.ok = ok}}

LfRead(rs, ok) == UNION {LfReqs(LfBatch(r), ok) : r \in rs}

(* progressCompletionQueue on the rails of "rs", up to the draining of     *)
(* posts: every entry read tells the handle and frees its request.         *)
Progress(rs) ==
    /\ lfCq' = [r \in LfAllRails |-> IF r \in rs THEN SubSeq(lfCq[r], Len(LfBatch(r)) + 1, Len(lfCq[r]))
                                                 ELSE lfCq[r]]
    /\ lfBusy' = lfBusy \ (LfRead(rs, TRUE) \cup LfRead(rs, FALSE))
LfProgressed(rs) == CompleteRequest(lfH, LfRead(rs, TRUE), LfRead(rs, FALSE))

(* progressActiveRails returns an error when a rail read an error entry.   *)
ProgressFails(rs) == LfRead(rs, FALSE) # {}

(* pollForCompletions: entries are processed; an error entry is read and   *)
(* only logged.                                                            *)
PollForCompletions(r) ==
    /\ lfCq' = [lfCq EXCEPT ![r] = SubSeq(@, Len(LfBatch(r)) + 1, Len(@))]
    /\ lfBusy' = lfBusy \ LfRead({r}, TRUE)
    /\ lfH' = CompleteRequest(lfH, LfRead({r}, TRUE), {})
    /\ lfLost' = lfLost \cup LfRead({r}, FALSE)
-----------------------------------------------------------------------------
(* Posting, by the caller.                                                 *)

(* The chunks of postXfer: one per thread of the pool.                     *)
LfChunks(id) ==
    LET num == IF lfPool = 0 THEN 1 ELSE IF lfPool < LfDescs THEN lfPool ELSE LfDescs
        size == (LfDescs + num - 1) \div num
    IN  [c \in 1..num |->
            LET last == IF c * size < LfDescs THEN c * size ELSE LfDescs
            IN  [i \in 1..last - (c - 1) * size |-> <<id, (c - 1) * size + i>>]]

(* postXfer, up to the posting of descriptors: the handle counts from zero *)
(* and expects more requests than there can be.                            *)
LfPostXfer ==
    /\ lfAt \in {"idle", "ok", "okPost"} /\ lfH.id < LfPosts
    /\ \E op \in {"WRITE", "READ"}, notif \in BOOLEAN :
        lfH' = [LfHandle(lfH.id + 1, op, notif, LfDescs * LfRails) EXCEPT !.told = lfH.told]
    /\ lfTodo' = LfChunks(lfH.id + 1) /\ lfBad' = FALSE /\ lfAt' = "posting"
    /\ UNCHANGED <<lfPt, lfPool, lfSide, lfCtl, lfTarget, lfLanded, lfFailed, lfCount>>

LfRoom(r) == Cardinality({q \in lfWire : LfRail(q) = r}) + Len(lfCq[r]) < LfDepth

LfNextPiece(c) == lfTodo' = [lfTodo EXCEPT ![c] = Tail(@)]
LfChunkFails(c) == lfTodo' = [lfTodo EXCEPT ![c] = <<>>] /\ lfBad' = TRUE

(* postXferDescriptors, one piece: deferTransferRequest queues it for the  *)
(* progress thread, waiting for room in the ring.                          *)
DeferTransferRequest(c) ==
    \E q \in {Head(lfTodo[c])} : \E r \in {LfRail(q)} :
        /\ lfPt /\ Len(lfRing[r]) < LfRingSize
        /\ lfRing' = [lfRing EXCEPT ![r] = Append(@, q)]
        /\ lfBusy' = lfBusy \cup {q}
        /\ LfNextPiece(c)
        /\ UNCHANGED <<lfH, lfBad, lfDrain, lfHand, lfWire, lfCq, lfLost, lfCount>>

(* postWrite, postRead without a progress thread: accepted, refused for    *)
(* good, or retried after progress of the rail, whose error ends the post. *)
PostDirect(c) ==
    \E q \in {Head(lfTodo[c])} : \E r \in {LfRail(q)} :
        /\ ~lfPt
        /\ \/ /\ LfRoom(r)
              /\ lfWire' = lfWire \cup {q} /\ lfBusy' = lfBusy \cup {q}
              /\ LfNextPiece(c)
              /\ UNCHANGED <<lfH, lfBad, lfCq, lfCount>>
           \/ /\ LfFault /\ LfChunkFails(c)
              /\ UNCHANGED <<lfH, lfWire, lfCq, lfBusy>>
           \/ /\ ~LfRoom(r) /\ lfCq[r] # <<>>
              /\ Progress({r}) /\ lfH' = LfProgressed({r})
              /\ IF ProgressFails({r}) THEN LfChunkFails(c) ELSE UNCHANGED <<lfTodo, lfBad>>
              /\ UNCHANGED <<lfWire, lfCount>>
        /\ UNCHANGED <<lfRing, lfDrain, lfHand, lfLost>>

LfPostPiece ==
    /\ lfAt = "posting"
    /\ \E c \in DOMAIN lfTodo :
        lfTodo[c] # <<>> /\ (DeferTransferRequest(c) \/ PostDirect(c))
    /\ UNCHANGED <<lfPt, lfPool, lfAt, lfCtl, lfTarget, lfLanded, lfFailed>>

LfNotif(id, exp) == {[kind |-> "NOTIFICATION", id |-> id, seq |-> i, exp |-> exp] : i \in 0..LfFrags - 1}

(* notifSendPriv: the fragments go out in order, all of them or up to the  *)
(* one that cannot be posted.                                              *)
NotifSendPriv(id, exp, upto) == lfCtl \cup {m \in LfNotif(id, exp) : m.seq < upto}

(* postXfer after the last chunk: an error of a chunk is returned, what    *)
(* was posted stays under way; otherwise the count is made exact and the   *)
(* notification of a write goes out, all its fragments or up to the one    *)
(* that cannot be posted.                                                  *)
LfAllPosted ==
    /\ lfAt = "posting" /\ \A c \in DOMAIN lfTodo : lfTodo[c] = <<>>
    /\ \/ /\ lfBad
          /\ lfAt' = "failed" /\ lfFailed' = lfFailed \cup {lfH.id}
          /\ UNCHANGED <<lfH, lfCtl, lfCount>>
       \/ /\ ~lfBad
          /\ lfH' = [lfH EXCEPT !.sub = LfDescs] /\ lfAt' = "posted"
          /\ lfCtl' = IF lfH.op = "WRITE" /\ lfH.notif THEN NotifSendPriv(lfH.id, LfDescs, LfFrags)
                   ELSE lfCtl
          /\ UNCHANGED <<lfFailed, lfCount>>
       \/ /\ ~lfBad /\ lfH.op = "WRITE" /\ lfH.notif /\ LfFault
          /\ lfH' = [lfH EXCEPT !.sub = LfDescs] /\ lfAt' = "failed"
          /\ \E k \in 0..LfFrags - 1 : lfCtl' = NotifSendPriv(lfH.id, LfDescs, k)
          /\ lfFailed' = lfFailed \cup {lfH.id}
    /\ UNCHANGED <<lfPt, lfPool, lfTodo, lfBad, lfSide, lfTarget, lfLanded>>

(* The notification of a read goes out when its last piece has completed.  *)
LfReadNotif(h) ==
    IF h.op = "READ" /\ h.notif THEN NotifSendPriv(h.id, 0, LfFrags) ELSE lfCtl

(* What the caller's own progress of the rails does: nothing when there is *)
(* a progress thread.                                                      *)
LfOwnRails == IF lfPt THEN {} ELSE LfAllRails

(* The end of postXfer: a transfer that is complete already is reported    *)
(* as such.                                                                *)
LfPostReturns ==
    /\ lfAt = "posted"
    /\ Progress(LfOwnRails)
    /\ \E h \in {LfProgressed(LfOwnRails)} :
        /\ lfH' = h
        /\ \/ /\ ProgressFails(LfOwnRails)
              /\ lfAt' = "failed" /\ lfFailed' = lfFailed \cup {h.id} /\ UNCHANGED lfCtl
           \/ /\ ~ProgressFails(LfOwnRails) /\ h.done = h.sub
              /\ lfAt' = "okPost" /\ lfCtl' = LfReadNotif(h)
              /\ lfFailed' = IF h.err THEN lfFailed \cup {h.id} ELSE lfFailed
           \/ /\ ~ProgressFails(LfOwnRails) /\ h.done # h.sub
              /\ lfAt' = "running" /\ UNCHANGED <<lfCtl, lfFailed>>
    /\ UNCHANGED <<lfPt, lfPool, lfTodo, lfBad, lfRing, lfDrain, lfHand, lfWire, lfLost, lfTarget,
                   lfLanded, lfCount>>

(* notifXferFailure: once per handle, the target of a write with a         *)
(* notification is told how many of its writes went out.                   *)
LfXferError(h) ==
    IF h.op = "WRITE" /\ h.notif /\ ~h.told
    THEN lfCtl \cup {[kind |-> "XFER_ERROR", id |-> h.id, exp |-> h.good]} ELSE lfCtl

LfCheckXfer ==
    /\ lfAt = "running"
    /\ Progress(LfOwnRails)
    /\ \E h \in {LfProgressed(LfOwnRails)} :
        \/ /\ ProgressFails(LfOwnRails)
           /\ lfH' = h /\ lfAt' = "failed" /\ lfFailed' = lfFailed \cup {h.id} /\ UNCHANGED lfCtl
        \/ /\ ~ProgressFails(LfOwnRails) /\ h.done = h.sub /\ h.err
           /\ lfAt' = "failed" /\ lfFailed' = lfFailed \cup {h.id}
           /\ lfH' = [h EXCEPT !.told = @ \/ (h.op = "WRITE" /\ h.notif)]
           /\ lfCtl' = LfXferError(h)
        \/ /\ ~ProgressFails(LfOwnRails) /\ h.done = h.sub /\ ~h.err
           /\ lfH' = h /\ lfAt' = "ok" /\ lfCtl' = LfReadNotif(h) /\ UNCHANGED lfFailed
        \/ /\ ~ProgressFails(LfOwnRails) /\ h.done # h.sub
           /\ lfH' = h /\ UNCHANGED <<lfAt, lfCtl, lfFailed>>
    /\ UNCHANGED <<lfPt, lfPool, lfTodo, lfBad, lfRing, lfDrain, lfHand, lfWire, lfLost, lfTarget,
                   lfLanded, lfCount>>

LfGenNotif ==
    /\ lfCount.gen < LfGenNotifs
    /\ lfCount' = [lfCount EXCEPT !.gen = @ + 1]
    /\ lfCtl' = NotifSendPriv(0, 0, LfFrags)
    /\ UNCHANGED <<lfPt, lfPool, lfH, lfCaller, lfSide, lfTarget, lfLanded, lfFailed>>
-----------------------------------------------------------------------------
(* The progress thread.                                                    *)

(* progressThread, one rail: completions first, then, unless one was an    *)
(* error, the posts queued for the rail.                                   *)
LfProgressRail(r) ==
    /\ lfPt /\ lfDrain = 0
    /\ lfCq[r] # <<>> \/ lfRing[r] # <<>>
    /\ Progress({r}) /\ lfH' = LfProgressed({r})
    /\ lfDrain' = IF ProgressFails({r}) THEN 0 ELSE r
    /\ UNCHANGED <<lfRing, lfHand, lfWire, lfLost, lfCount>>

(* drainPostQueue: takes the next post.                                    *)
LfDrainPop(r) ==
    /\ lfDrain = r /\ lfHand = <<>> /\ lfRing[r] # <<>>
    /\ lfHand' = <<Head(lfRing[r])>>
    /\ lfRing' = [lfRing EXCEPT ![r] = Tail(@)]
    /\ UNCHANGED <<lfH, lfDrain, lfWire, lfCq, lfBusy, lfLost, lfCount>>

(* drainPostQueue: posts it; what cannot be posted completes with an error.*)
LfDrainPost(r) ==
    /\ lfDrain = r /\ lfHand # <<>>
    /\ \/ /\ LfRoom(r)
          /\ lfWire' = lfWire \cup {lfHand[1]}
          /\ UNCHANGED <<lfH, lfBusy, lfCount>>
       \/ /\ LfFault
          /\ lfH' = CompleteRequest(lfH, {}, {lfHand[1]}) /\ lfBusy' = lfBusy \ {lfHand[1]}
          /\ UNCHANGED lfWire
    /\ lfHand' = <<>>
    /\ UNCHANGED <<lfRing, lfDrain, lfCq, lfLost>>

(* drainPostQueue polls when a post meets a full send queue, and now and   *)
(* then between posts.                                                     *)
LfDrainPoll(r) ==
    /\ lfDrain = r /\ lfCq[r] # <<>>
    /\ PollForCompletions(r)
    /\ UNCHANGED <<lfRing, lfDrain, lfHand, lfWire, lfCount>>

LfDrainEnds(r) ==
    /\ lfDrain = r /\ lfHand = <<>> /\ lfRing[r] = <<>>
    /\ lfDrain' = 0
    /\ UNCHANGED <<lfH, lfRing, lfHand, lfWire, lfCq, lfBusy, lfLost, lfCount>>

LfProgressThread ==
    /\ \E r \in LfAllRails :
        \/ LfProgressRail(r) \/ LfDrainPop(r) \/ LfDrainPost(r) \/ LfDrainPoll(r) \/ LfDrainEnds(r)
    /\ UNCHANGED <<lfPt, lfPool, lfCaller, lfCtl, lfTarget, lfLanded, lfFailed>>
-----------------------------------------------------------------------------
(* The provider: a request's bytes are in place, or it fails.              *)
LfLand(q) ==
    /\ q \in lfWire
    /\ lfWire' = lfWire \ {q}
    /\ \/ /\ lfCq' = [lfCq EXCEPT ![LfRail(q)] = Append(@, [req |-> q, ok |-> TRUE])]
          /\ lfLanded' = lfLanded \cup {q}
          /\ lfArrived' = IF lfH.op = "WRITE" THEN lfArrived \cup {q} ELSE lfArrived
          /\ UNCHANGED lfCount
       \/ /\ LfFault
          /\ lfCq' = [lfCq EXCEPT ![LfRail(q)] = Append(@, [req |-> q, ok |-> FALSE])]
          /\ UNCHANGED <<lfLanded, lfArrived>>
    /\ UNCHANGED <<lfPt, lfPool, lfH, lfCaller, lfRing, lfDrain, lfHand, lfBusy, lfLost, lfCtl,
                   lfPend, lfGiven, lfFailed>>
-----------------------------------------------------------------------------
(* The target.                                                             *)

(* PendingNotification, as the first message for an id creates it.         *)
LfPending(exp, want) ==
    [exp |-> exp, got |-> 0, want |-> want, have |-> {}, init |-> FALSE, failed |-> FALSE]

(* checkPendingNotification: with all fragments and all writes in, the     *)
(* notification is handed out and forgotten.                               *)
CheckPendingNotification(id, p) ==
    IF Cardinality(p.have) >= p.want /\ p.got >= p.exp
    THEN lfGiven' = lfGiven \cup {id} /\ lfPend' = [lfPend EXCEPT ![id] = LfNone]
    ELSE lfPend' = [lfPend EXCEPT ![id] = p] /\ UNCHANGED lfGiven

LfPendOr(id, new) == IF lfPend[id] = LfNone THEN new ELSE lfPend[id]

(* addReceivedXferId: a write may come before its notification.            *)
AddReceivedXferId ==
    \E q \in lfArrived : \E p \in {LfPendOr(q[1], LfPending(LfMany, 1))} :
        /\ lfArrived' = lfArrived \ {q}
        /\ CheckPendingNotification(q[1], [p EXCEPT !.got = @ + 1])
        /\ UNCHANGED <<lfPt, lfPool, lfH, lfCaller, lfSide, lfCtl, lfLanded, lfFailed, lfCount>>

(* processNotification: the first fragment seen sizes the message; the     *)
(* fragment 0 brings the number of writes, unless an error message has     *)
(* already brought the final one.                                          *)
ProcessNotification ==
    \E m \in lfCtl : \E p \in {LfPendOr(m.id, LfPending(0, 0))} :
        /\ m.kind = "NOTIFICATION"
        /\ lfCtl' = lfCtl \ {m}
        /\ CheckPendingNotification(m.id,
               [p EXCEPT !.want = IF p.init THEN @ ELSE LfFrags, !.init = TRUE,
                         !.have = @ \cup {m.seq},
                         !.exp = IF m.seq = 0 /\ ~p.failed THEN m.exp ELSE @])
        /\ UNCHANGED <<lfPt, lfPool, lfH, lfCaller, lfSide, lfArrived, lfLanded, lfFailed, lfCount>>

HandleXferError ==
    \E m \in lfCtl : \E p \in {LfPendOr(m.id, LfPending(0, 1))} :
        /\ m.kind = "XFER_ERROR"
        /\ lfCtl' = lfCtl \ {m}
        /\ CheckPendingNotification(m.id, [p EXCEPT !.failed = TRUE, !.exp = m.exp])
        /\ UNCHANGED <<lfPt, lfPool, lfH, lfCaller, lfSide, lfArrived, lfLanded, lfFailed, lfCount>>

LfTargetProgress == AddReceivedXferId \/ ProcessNotification \/ HandleXferError
-----------------------------------------------------------------------------
LfCaller == LfPostPiece \/ LfAllPosted \/ LfPostReturns \/ LfCheckXfer
LfProvider == \E q \in lfWire : LfLand(q)
LfNext == LfPostXfer \/ LfCaller \/ LfGenNotif \/ LfProgressThread \/ LfProvider \/ LfTargetProgress

(* The caller polls, the threads run, the provider completes what it took. *)
LfFairness ==
    /\ WF_lfVars(LfCaller) /\ WF_lfVars(LfProgressThread) /\ WF_lfVars(LfProvider)
    /\ WF_lfVars(LfTargetProgress)

LfSpec == LfInit /\ [][LfNext]_lfVars /\ LfFairness
-----------------------------------------------------------------------------
(* A transfer checkXfer reports complete has all its bytes in place, and   *)
(* none of its requests is in a ring, with the provider or in a completion *)
(* queue, where its callback would reach a handle the user may release.    *)
LfSuccessIsComplete ==
    lfAt = "ok" => LfPieces(lfH.id) \subseteq lfLanded /\ lfBusy \cap LfPieces(lfH.id) = {}

(* A success reported by postXfer itself is also one: BackendGuide.md says *)
(* a backend returns NIXL_SUCCESS when the transfer is complete.           *)
LfPostedIsComplete == lfAt = "okPost" => LfPieces(lfH.id) \subseteq lfLanded

(* The target hands out the notification of a transfer only when all its   *)
(* bytes are in place, or the transfer has ended with an error that the    *)
(* initiator knows of.  Writes, fragments and the error message may arrive *)
(* in any order.                                                           *)
LfNotifAfterData ==
    \A id \in lfGiven \ {0} : id \in lfFailed \/ LfPieces(id) \subseteq lfLanded

(* Nothing is owed: no post or poll goes on, unless an error entry was     *)
(* read by pollForCompletions, and the notification of a transfer that     *)
(* checkXfer found complete, or failed after its notification went out,    *)
(* has been handed out.                                                    *)
LfAtRest ==
    /\ lfAt \in {"posting", "posted", "running"} => lfLost # {}
    /\ lfH.notif /\ (lfAt = "ok" \/ (lfAt = "failed" /\ lfH.told)) => lfH.id \in lfGiven
=============================================================================
