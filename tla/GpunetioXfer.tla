---------------------------- MODULE GpunetioXfer ----------------------------
(***************************************************************************)
(* Transfers of the GPUNETIO engine, the staging of their descriptors, and *)
(* queue pairs with their undo.                                            *)
(***************************************************************************)
EXTENDS Integers, Sequences, FiniteSets, FiniteSetsExt, SequencesExt

(***************************************************************************)
(* Transfers of the GPUNETIO engine (src/plugins/gpunetio): the CPU        *)
(* reserves ring slots and launches kernels, the kernels post the chunks   *)
(* of a request to queue pairs, a progress kernel polls the completion     *)
(* queues, sends the notification of a request's last chunk and publishes  *)
(* the state of each slot to the CPU.  With several data queue pairs a     *)
(* write is striped: its last chunk is posted when all blocks have posted  *)
(* theirs and completes when the others have.                              *)
(***************************************************************************)

CONSTANTS GxReqs,      \* requests
          GxShapes,    \* [n, op, notif] a request may have
          GxSlots,     \* ring slots, DOCA_XFER_REQ_MAX
          GxQps,       \* data_qp_count
          GxDepth,     \* send queue entries of a queue pair
          GxBuffers,   \* notification send buffers
          GxStreams,   \* cuda_streams
          GxPosts,     \* how many posts there are
          GxFaults     \* how many launches or completions may fail

VARIABLES gxReq,       \* request -> its state on the CPU
          gxReserved,  \* xferReqReserved_
          gxRing,      \* xferRingPos
          gxFree,      \* free notification buffers
          gxNextStream,\* xferStream
          gxSlot,      \* slot -> [qp, wqe, mask, notif] of the descriptor
          gxHost,      \* slot -> state the CPU sees
          gxInflight,  \* gpu_state->inflight
          gxAbort,     \* gpu_state->control has ABORT
          gxFailed,    \* host_state->failed
          gxStream,    \* stream -> launches, the first one runs
          gxQp,        \* queue pair -> [rsvd, nic, ci]
          gxBadWqe,    \* <<qp, wqe>> that completed with an error
          gxSenders,   \* slots whose notification is being sent
          gxSending,   \* the progress kernel is in its send loop
          gxTail,      \* second halves of finish_request: <<slot, state, half>>
          gxNotified,  \* requests whose current post was notified
          gxPosts, gxFaults

gxVars == <<gxReq, gxReserved, gxRing, gxFree, gxNextStream, gxSlot, gxHost, gxInflight,
            gxAbort, gxFailed, gxStream, gxQp, gxBadWqe, gxSenders, gxSending, gxTail,
            gxNotified, gxPosts, gxFaults>>

gxCpu == <<gxReserved, gxRing, gxFree, gxNextStream>>
gxGpu == <<gxInflight, gxAbort, gxFailed, gxSenders, gxSending, gxTail, gxNotified>>

NoReq == [ph |-> "none", pos |-> <<>>, op |-> "read", notif |-> FALSE, stream |-> 0,
          posted |-> 0, perr |-> FALSE]

GxInit ==
    /\ gxReq = [r \in GxReqs |-> NoReq]
    /\ gxReserved = {}
    /\ gxRing = 0
    /\ gxFree = GxBuffers
    /\ gxNextStream = 0
    /\ gxSlot = [s \in 0 .. GxSlots - 1 |-> [qp |-> 0, wqe |-> 0, mask |-> {}, notif |-> FALSE]]
    /\ gxHost = [s \in 0 .. GxSlots - 1 |-> "idle"]
    /\ gxInflight = {}
    /\ gxAbort = FALSE
    /\ gxFailed = FALSE
    /\ gxStream = [s \in 0 .. GxStreams - 1 |-> <<>>]
    /\ gxQp = [q \in 0 .. GxQps |-> [rsvd |-> 0, nic |-> 0, ci |-> 0]]
    /\ gxBadWqe = {}
    /\ gxSenders = {}
    /\ gxSending = FALSE
    /\ gxTail = {}
    /\ gxNotified = {}
    /\ gxPosts = 0
    /\ gxFaults = GxFaults

Striped(req) == req.op = "write" /\ GxQps > 1

\* The slots a request gets: the free ones from the ring position on.
ReservePositions(n) ==
    LET order == [i \in 1 .. GxSlots |-> (gxRing + i - 1) % GxSlots]
    IN  SelectSeq(order, LAMBDA s : s \notin gxReserved)

\* prepXfer: positions, the descriptors they hold and, for a notification,
\* a send buffer; without enough of either the positions are given back.
GxPrepXfer(r, shape) ==
    LET free == ReservePositions(shape.n)
        pos == SubSeq(free, 1, shape.n)
    IN
    /\ gxReq[r].ph = "none"
    /\ Len(free) >= shape.n
    /\ shape.notif => gxFree > 0
    /\ gxReq' = [gxReq EXCEPT ![r] = [NoReq EXCEPT !.ph = "ready", !.pos = pos,
                    !.op = shape.op, !.notif = shape.notif, !.stream = gxNextStream]]
    /\ gxNextStream' = (gxNextStream + 1) % GxStreams
    /\ gxReserved' = gxReserved \cup Range(pos)
    /\ gxRing' = (pos[shape.n] + 1) % GxSlots
    /\ gxFree' = IF shape.notif THEN gxFree - 1 ELSE gxFree
    /\ gxSlot' = [s \in DOMAIN gxSlot |->
                    IF s \in Range(pos)
                    THEN [qp |-> 0, wqe |-> 0, mask |-> {},
                          notif |-> shape.notif /\ s = pos[shape.n]]
                    ELSE gxSlot[s]]
    /\ UNCHANGED <<gxHost, gxStream, gxQp, gxBadWqe, gxPosts, gxFaults>>
    /\ UNCHANGED gxGpu

\* A launch: blocks that post the positions blk, blk + blocks, ... but the
\* last, and the last block to arrive posts the last position.
Launch(r, pos, blocks) ==
    [req |-> r, pos |-> pos, next |-> [b \in 1 .. blocks |-> b], arrived |-> 0]

\* postStripedWrite makes the last position wait for all the others.
StripeMask(pos) == {pos[i] : i \in 1 .. Len(pos) - 1}

\* The descriptors of a striped write name their queue pair and, the last
\* one, the positions it waits for; queue pair 0 is the plain data one.
Stripe(pos) ==
    [s \in DOMAIN gxSlot |->
        IF s \notin Range(pos) THEN gxSlot[s]
        ELSE LET i == CHOOSE i \in DOMAIN pos : pos[i] = s
             IN  [gxSlot[s] EXCEPT !.qp = 1 + ((i - 1) % GxQps),
                                   !.mask = IF i = Len(pos) THEN StripeMask(pos) ELSE {}]]

\* postXfer of a request that is not in progress: refused on a failed engine
\* or after a failed post; k launches succeed before one fails.
GxPostXfer(r, k) ==
    LET req == gxReq[r]
        n == Len(req.pos)
        all == IF Striped(req) THEN 1 ELSE n
        stream == IF Striped(req) THEN 0 ELSE req.stream
        launches == IF Striped(req) THEN <<Launch(r, req.pos, GxQps)>>
                    ELSE [i \in 1 .. k |-> Launch(r, <<req.pos[i]>>, 1)]
    IN
    /\ req.ph \in {"ready", "success", "error"}
    /\ gxPosts < GxPosts
    /\ k <= all
    /\ gxPosts' = gxPosts + 1
    /\ IF gxFailed \/ req.perr
       THEN /\ k = all
            /\ gxReq' = [gxReq EXCEPT ![r].ph = "error"]
            /\ UNCHANGED <<gxHost, gxSlot, gxStream, gxAbort, gxFailed, gxNotified, gxFaults>>
       ELSE /\ gxHost' = [s \in DOMAIN gxHost |->
                            IF s \in Range(req.pos) THEN "prepared" ELSE gxHost[s]]
            /\ gxSlot' = IF Striped(req) THEN Stripe(req.pos) ELSE gxSlot
            /\ gxNotified' = gxNotified \ {r}
            /\ IF k = all
               THEN /\ gxStream' = [gxStream EXCEPT ![stream] = @ \o launches]
                    /\ gxReq' = [gxReq EXCEPT ![r].ph = "posted", ![r].posted = n]
                    /\ UNCHANGED <<gxAbort, gxFailed, gxFaults>>
               ELSE /\ gxFaults > 0
                    /\ gxFaults' = gxFaults - 1
                    /\ gxStream' = IF Striped(req) THEN gxStream
                                   ELSE [gxStream EXCEPT ![stream] = @ \o launches]
                    /\ gxReq' = [gxReq EXCEPT ![r].ph = IF k = 0 THEN "error" ELSE "posted",
                                              ![r].posted = k, ![r].perr = TRUE]
                    /\ gxAbort' = (gxAbort \/ Striped(req))
                    /\ gxFailed' = (gxFailed \/ Striped(req))
    /\ UNCHANGED <<gxInflight, gxSenders, gxSending, gxTail, gxQp, gxBadWqe>>
    /\ UNCHANGED gxCpu

\* The states checkXfer reads: the positions that were launched.
Watched(req) == {gxHost[req.pos[i]] : i \in 1 .. req.posted}

\* What checkXfer answers.
CheckVerdict(req) ==
    IF ~(Watched(req) \subseteq {"complete", "error"}) THEN "posted"
    ELSE IF "error" \in Watched(req) \/ req.perr \/ gxFailed THEN "error"
    ELSE "success"

GxCheckXfer(r) ==
    /\ gxReq[r].ph = "posted"
    /\ CheckVerdict(gxReq[r]) # "posted"
    /\ gxReq' = [gxReq EXCEPT ![r].ph = CheckVerdict(gxReq[r]),
                              ![r].perr = (CheckVerdict(gxReq[r]) = "error")]
    /\ UNCHANGED <<gxSlot, gxHost, gxStream, gxQp, gxBadWqe, gxPosts, gxFaults>>
    /\ UNCHANGED <<gxCpu, gxGpu>>

\* releaseReqH gives the positions and the buffer back, unless a launched
\* position is still in progress; on a failed striped engine it first waits
\* for the streams.
GxReleaseReqH(r) ==
    LET req == gxReq[r] IN
    /\ req.ph \in {"ready", "posted", "success", "error"}
    /\ GxQps > 1 /\ req.posted > 0 /\ gxFailed => \A s \in DOMAIN gxStream : gxStream[s] = <<>>
    /\ req.posted = 0 \/ CheckVerdict(req) # "posted"
    /\ gxReq' = [gxReq EXCEPT ![r] = NoReq]
    /\ gxReserved' = gxReserved \ Range(req.pos)
    /\ gxFree' = IF req.notif THEN gxFree + 1 ELSE gxFree
    /\ UNCHANGED <<gxRing, gxNextStream, gxSlot, gxHost, gxStream, gxQp, gxBadWqe, gxPosts, gxFaults>>
    /\ UNCHANGED gxGpu

(***************************************************************************)
(* The posting kernels                                                     *)
(***************************************************************************)

\* write_chunk and kernel_read for one position: an aborted engine fails the
\* position; otherwise it waits for room in the send queue, posts and
\* publishes the position to the progress kernel.
PostChunk(s) ==
    LET q == gxSlot[s].qp IN
    IF gxAbort
    THEN /\ gxFailed' = TRUE
         /\ gxHost' = [gxHost EXCEPT ![s] = "error"]
         /\ UNCHANGED <<gxSlot, gxQp, gxInflight>>
    ELSE /\ gxQp[q].rsvd + 1 <= gxQp[q].ci + GxDepth
         /\ gxQp' = [gxQp EXCEPT ![q].rsvd = @ + 1]
         /\ gxSlot' = [gxSlot EXCEPT ![s].wqe = gxQp[q].rsvd]
         /\ gxInflight' = gxInflight \cup {s}
         /\ UNCHANGED <<gxHost, gxFailed>>

\* Variant: the first block posts the last position.
FirstToArrive(l) == l.arrived = 0

\* posting_ctas_done tells the block that arrives last.
LastToArrive(l) == l.arrived = Len(l.next) - 1

\* A step of a block of the launch at the head of a stream.
GxBlock(st, b) ==
    LET l == gxStream[st][1]
        n == Len(l.pos)
    IN
    /\ gxStream[st] # <<>>
    /\ b \in DOMAIN l.next
    /\ \/ /\ l.next[b] \in 1 .. n - 1
          /\ PostChunk(l.pos[l.next[b]])
          /\ gxStream' = [gxStream EXCEPT ![st][1].next[b] = @ + Len(l.next)]
       \/ /\ l.next[b] >= n
          /\ IF LastToArrive(l) THEN PostChunk(l.pos[n])
             ELSE UNCHANGED <<gxSlot, gxQp, gxInflight, gxHost, gxFailed>>
          /\ gxStream' = [gxStream EXCEPT ![st][1].next[b] = 0, ![st][1].arrived = @ + 1]
    /\ UNCHANGED <<gxReq, gxAbort, gxBadWqe, gxSenders, gxSending, gxTail, gxNotified,
                   gxPosts, gxFaults>>
    /\ UNCHANGED gxCpu

\* A kernel ends when all its blocks have; the next of its stream starts.
GxKernelEnds(st) ==
    /\ gxStream[st] # <<>>
    /\ \A b \in DOMAIN gxStream[st][1].next : gxStream[st][1].next[b] = 0
    /\ gxStream' = [gxStream EXCEPT ![st] = Tail(@)]
    /\ UNCHANGED <<gxReq, gxSlot, gxHost, gxQp, gxBadWqe, gxPosts, gxFaults>>
    /\ UNCHANGED <<gxCpu, gxGpu>>

\* The network card completes the oldest entry of a send queue or fails it,
\* and a queue pair in error fails everything behind.
GxNic(q, ok) ==
    LET broken == \E w \in gxBadWqe : w[1] = q IN
    /\ gxQp[q].nic < gxQp[q].rsvd
    /\ gxQp' = [gxQp EXCEPT ![q].nic = @ + 1]
    /\ IF ok THEN ~broken /\ UNCHANGED <<gxBadWqe, gxFaults>>
       ELSE /\ broken \/ gxFaults > 0
            /\ gxFaults' = IF broken THEN gxFaults ELSE gxFaults - 1
            /\ gxBadWqe' = gxBadWqe \cup {<<q, gxQp[q].nic>>}
    /\ UNCHANGED <<gxReq, gxSlot, gxHost, gxStream, gxPosts>>
    /\ UNCHANGED <<gxCpu, gxGpu>>

(***************************************************************************)
(* The progress kernel                                                     *)
(***************************************************************************)

Done(s) == gxQp[gxSlot[s].qp].nic > gxSlot[s].wqe
Bad(s) == <<gxSlot[s].qp, gxSlot[s].wqe>> \in gxBadWqe

\* Variant: the state is published before the slot leaves the set.
HalvesSwapped == <<"publish", "clear">>

\* finish_request clears the slot and then publishes its state.
Halves == <<"clear", "publish">>

\* One half of finish_request.
FinishHalf(half, s, state) ==
    IF half = "clear"
    THEN gxInflight' = gxInflight \ {s} /\ UNCHANGED gxHost
    ELSE gxHost' = [gxHost EXCEPT ![s] = state] /\ UNCHANGED gxInflight

\* The first half, with mark_failed before it for a failed slot.
Finish(s, state) ==
    /\ FinishHalf(Halves[1], s, state)
    /\ gxTail' = gxTail \cup {<<s, state>>}
    /\ gxAbort' = (gxAbort \/ state = "error")
    /\ gxFailed' = (gxFailed \/ state = "error")

GxFinishTail(s, state) ==
    /\ <<s, state>> \in gxTail
    /\ FinishHalf(Halves[2], s, state)
    /\ gxTail' = gxTail \ {<<s, state>>}
    /\ UNCHANGED <<gxReq, gxSlot, gxAbort, gxFailed, gxStream, gxQp, gxBadWqe, gxSenders,
                   gxSending, gxNotified, gxPosts, gxFaults>>
    /\ UNCHANGED gxCpu

\* A completed slot fails with its entry and, if it waited for others, when
\* the engine was aborted meanwhile.
PollFails(s) == Bad(s) \/ (gxSlot[s].mask # {} /\ gxAbort)

\* A lane polls its slot: published, and nothing it waits for is in flight.
GxPoll(s) ==
    /\ ~gxSending
    /\ s \in gxInflight \ gxSenders
    /\ gxTail = {}
    /\ gxSlot[s].mask \cap gxInflight = {}
    /\ Done(s)
    /\ gxQp' = [gxQp EXCEPT ![gxSlot[s].qp].ci =
                    IF @ > gxSlot[s].wqe THEN @ ELSE gxSlot[s].wqe + 1]
    /\ \/ /\ PollFails(s)
          /\ Finish(s, "error")
          /\ UNCHANGED gxSenders
       \/ /\ ~PollFails(s)
          /\ IF gxSlot[s].notif
             THEN /\ gxSenders' = gxSenders \cup {s}
                  /\ UNCHANGED <<gxInflight, gxHost, gxTail, gxAbort, gxFailed>>
             ELSE Finish(s, "complete") /\ UNCHANGED gxSenders
    /\ UNCHANGED <<gxReq, gxSlot, gxStream, gxBadWqe, gxSending, gxNotified, gxPosts, gxFaults>>
    /\ UNCHANGED gxCpu

\* The lanes that have a notification to send go into the send loop.
GxSendLoop ==
    /\ ~gxSending
    /\ gxSenders # {}
    /\ gxTail = {}
    /\ gxSending' = TRUE
    /\ UNCHANGED <<gxReq, gxSlot, gxHost, gxInflight, gxAbort, gxFailed, gxStream, gxQp,
                   gxBadWqe, gxSenders, gxTail, gxNotified, gxPosts, gxFaults>>
    /\ UNCHANGED gxCpu

\* The lowest lane sends and waits for its completion; a failed send, or an
\* abort while it waits, fails the slot.
GxSend(ok) ==
    LET s == Min(gxSenders)
        r == CHOOSE r \in GxReqs : s \in Range(gxReq[r].pos)
    IN
    /\ gxSending
    /\ gxTail = {}
    /\ gxSenders # {}
    /\ gxSenders' = gxSenders \ {s}
    /\ gxSending' = (gxSenders' # {})
    /\ IF ok
       THEN /\ Finish(s, "complete")
            /\ gxNotified' = gxNotified \cup {r}
            /\ UNCHANGED gxFaults
       ELSE /\ gxFaults > 0 \/ gxAbort
            /\ gxFaults' = IF gxAbort THEN gxFaults ELSE gxFaults - 1
            /\ Finish(s, "error")
            /\ UNCHANGED gxNotified
    /\ UNCHANGED <<gxReq, gxSlot, gxStream, gxQp, gxBadWqe, gxPosts>>
    /\ UNCHANGED gxCpu

GxKernels ==
    \/ \E st \in DOMAIN gxStream : (\E b \in 1 .. GxQps : GxBlock(st, b)) \/ GxKernelEnds(st)
    \/ \E t \in gxTail : GxFinishTail(t[1], t[2])
    \/ \E s \in DOMAIN gxSlot : GxPoll(s)
    \/ GxSendLoop
    \/ GxSend(TRUE)

GxNext ==
    \/ GxKernels
    \/ \E r \in GxReqs :
          \/ \E shape \in GxShapes : GxPrepXfer(r, shape)
          \/ \E k \in 0 .. GxSlots : GxPostXfer(r, k)
          \/ GxCheckXfer(r)
          \/ GxReleaseReqH(r)
    \/ \E q \in DOMAIN gxQp, ok \in BOOLEAN : GxNic(q, ok)
    \/ GxSend(FALSE)

GxNicRuns == \E q \in DOMAIN gxQp, ok \in BOOLEAN : GxNic(q, ok)
GxPolls == \E r \in GxReqs : GxCheckXfer(r)

GxFairness ==
    WF_gxVars(GxKernels) /\ WF_gxVars(GxNicRuns) /\ WF_gxVars(GxPolls)

GxSpec == GxInit /\ [][GxNext]_gxVars /\ GxFairness

(***************************************************************************)
(* Properties                                                              *)
(***************************************************************************)

\* A transfer reported successful has every chunk completed by the network
\* card without an error and, if it asked for one, its notification sent.
GxSuccessIsComplete ==
    \A r \in GxReqs : gxReq[r].ph = "success" =>
        /\ gxReq[r].posted = Len(gxReq[r].pos)
        /\ \A s \in Range(gxReq[r].pos) : Done(s) /\ ~Bad(s)
        /\ gxReq[r].notif => r \in gxNotified

\* A notification is sent when all chunks of its transfer are complete, the
\* ones on other queue pairs included (wait_completion_mask,
\* posting_ctas_done).
GxNotifAfterData ==
    \A s \in gxSenders : \A r \in GxReqs : s \in Range(gxReq[r].pos) =>
        \A t \in Range(gxReq[r].pos) : gxHost[t] # "idle" => Done(t) /\ ~Bad(t)

\* A ring slot that was given back is in nobody's hands on the GPU: it is in
\* no launch, not in flight and has no state still to be published ("Last
\* publication: CPU may rearm/release the slot immediately afterwards").
GxSlotsOwned ==
    LET launches == UNION {Range(gxStream[st]) : st \in DOMAIN gxStream}
        unposted == {l.pos[Len(l.pos)] : l \in {m \in launches : m.arrived < Len(m.next)}}
        busy == unposted \cup gxInflight \cup gxSenders \cup {t[1] : t \in gxTail}
    IN  /\ busy \subseteq gxReserved
        /\ \A r \in GxReqs : gxReq[r].ph = "ready" => Range(gxReq[r].pos) \cap busy = {}

GxAtRest == \A r \in GxReqs : gxReq[r].ph # "posted"

(***************************************************************************)
(* How prepXfer of the GPUNETIO engine turns the descriptors of a transfer *)
(* into work queue entries (WQEs) staged in ring slots: adjacent reads are *)
(* merged, two adjacent writes share an entry, a descriptor longer than    *)
(* the transfer limit is split, and a slot holds a bounded number.  One    *)
(* step is one iteration of the staging loop.                              *)
(***************************************************************************)

CONSTANTS GsInputs,    \* [op, descs]; a descriptor is [l, r, len, lk, rk]
          GsSize,      \* DOCA_XFER_REQ_SIZE
          GsMaxLen,    \* DOCA_GPUNETIO_VERBS_MAX_TRANSFER_SIZE
          GsMaxRead    \* max_read_size

ASSUME GsAssumption == GsMaxRead \in 1 .. GsMaxLen /\ GsSize > 0

VARIABLES gsIn,        \* the transfer
          gsOff,       \* desc_offset: descriptors staged
          gsSplit,     \* split_offset: bytes of the next one staged
          gsSlots,     \* the slots, each a sequence of WQEs
          gsCount      \* chunk_desc_count of the last slot

gsVars == <<gsIn, gsOff, gsSplit, gsSlots, gsCount>>

GsStart(in) ==
    /\ gsIn = in
    /\ gsOff = 0
    /\ gsSplit = 0
    /\ gsSlots = << <<>> >>
    /\ gsCount = 0

GsInit == \E in \in GsInputs : GsStart(in)

\* WQEs for one descriptor that is neither merged nor paired.
DescriptorWqeCount(len) ==
    IF len <= GsMaxLen THEN 1 ELSE (len \div GsMaxLen) + (IF len % GsMaxLen # 0 THEN 1 ELSE 0)

\* Adjacent ranges under the same keys whose union fits one READ.
CanCoalesceRead(w, d) ==
    /\ w.n <= GsMaxRead /\ d.len <= GsMaxRead - w.n
    /\ w.l + w.n = d.l /\ w.r + w.n = d.r
    /\ w.lk = d.lk /\ w.rk = d.rk

\* Two writes that are adjacent at the target share an entry, but never the
\* last descriptor, which may carry an arrival marker.
CanPairWrite(d, e, remaining) ==
    /\ remaining > 2
    /\ d.len # 0 /\ e.len # 0 /\ d.rk = e.rk
    /\ e.r >= d.r /\ e.r - d.r = d.len
    /\ e.len <= GsMaxLen /\ d.len <= GsMaxLen - e.len

GsLeft == Len(gsIn.descs) - gsOff
GsDesc == gsIn.descs[gsOff + 1]
GsSlot == gsSlots[Len(gsSlots)]

\* The next descriptor extends the last READ of the slot.
Mergeable == gsIn.op = "read" /\ GsSlot # <<>> /\ CanCoalesceRead(GsSlot[Len(GsSlot)], GsDesc)

\* A slot is closed when its entries are used up or, at the input boundary,
\* when the next descriptor does not extend its last READ.
SlotFull ==
    \/ Len(GsSlot) >= GsSize
    \/ gsCount >= GsSize /\ (gsIn.op = "write" \/ ~Mergeable)

NextSlot ==
    /\ GsLeft > 0
    /\ SlotFull
    /\ gsSlots' = Append(gsSlots, <<>>)
    /\ gsCount' = 0
    /\ UNCHANGED <<gsIn, gsOff, gsSplit>>

MergeRead ==
    /\ GsLeft > 0
    /\ ~SlotFull
    /\ Mergeable
    /\ gsSlots' = [gsSlots EXCEPT ![Len(gsSlots)][Len(GsSlot)].n = @ + GsDesc.len]
    /\ gsOff' = gsOff + 1
    /\ gsCount' = gsCount + 1
    /\ UNCHANGED <<gsIn, gsSplit>>

\* An entry of its own for what is left of the descriptor, up to the limit;
\* a WRITE entry that ends its descriptor takes the next one along.
StageWqe ==
    LET rest == GsDesc.len - gsSplit
        n == IF rest < GsMaxLen THEN rest ELSE GsMaxLen
        wqe == [l |-> GsDesc.l + gsSplit, r |-> GsDesc.r + gsSplit, n |-> n,
                lk |-> GsDesc.lk, rk |-> GsDesc.rk, l2 |-> 0, n2 |-> 0]
        pairs == gsIn.op = "write" /\ GsLeft > 2
                    /\ CanPairWrite(GsDesc, gsIn.descs[gsOff + 2], GsLeft)
        second == gsIn.descs[gsOff + 2]
    IN
    /\ GsLeft > 0
    /\ ~SlotFull
    /\ ~Mergeable
    /\ gsCount' = gsCount + 1
    /\ IF n < rest
       THEN /\ gsSlots' = [gsSlots EXCEPT ![Len(gsSlots)] = Append(@, wqe)]
            /\ gsSplit' = gsSplit + n
            /\ UNCHANGED gsOff
       ELSE /\ gsSplit' = 0
            /\ gsOff' = gsOff + (IF pairs THEN 2 ELSE 1)
            /\ gsSlots' = [gsSlots EXCEPT ![Len(gsSlots)] =
                            Append(@, IF pairs THEN [wqe EXCEPT !.l2 = second.l, !.n2 = second.len]
                                      ELSE wqe)]
    /\ UNCHANGED gsIn

GsNext == NextSlot \/ MergeRead \/ StageWqe

(***************************************************************************)
(* Properties                                                              *)
(***************************************************************************)

\* The bytes an entry and a descriptor move, in order: <<local, remote>>.
BytesOf(l, r, n) == [i \in 1 .. n |-> <<l + i - 1, r + i - 1>>]
WqeBytes(w) == BytesOf(w.l, w.r, w.n) \o BytesOf(w.l2, w.r + w.n, w.n2)
DescBytes(d) == BytesOf(d.l, d.r, d.len)

\* When the descriptors are staged, the entries move exactly the bytes the
\* descriptors ask for, each to the address asked for and in their order; no
\* entry exceeds the transfer limit, and the last descriptor of a write, the
\* arrival marker, shares no entry with another descriptor.
GsExact ==
    GsLeft = 0 =>
        LET wqes == FlattenSeq(gsSlots)
            last == gsIn.descs[Len(gsIn.descs)]
        IN  /\ FlattenSeq([i \in DOMAIN wqes |-> WqeBytes(wqes[i])])
                  = FlattenSeq([i \in DOMAIN gsIn.descs |-> DescBytes(gsIn.descs[i])])
            /\ \A i \in DOMAIN wqes : wqes[i].n + wqes[i].n2 <= GsMaxLen
            /\ gsIn.op = "write" => wqes[Len(wqes)].n2 = 0 /\ wqes[Len(wqes)].n <= last.len

\* A request never takes more slots than its unmerged entries would, so one
\* that passes the limit of max_wqes fits an empty ring, and no slot holds
\* more entries than it has room for.
GsFits ==
    LET Wqes[i \in 0 .. Len(gsIn.descs)] ==
            IF i = 0 THEN 0 ELSE Wqes[i - 1] + DescriptorWqeCount(gsIn.descs[i].len)
    IN  /\ (Len(gsSlots) - 1) * GsSize < Wqes[Len(gsIn.descs)]
        /\ \A i \in DOMAIN gsSlots : Len(gsSlots[i]) <= GsSize

-----------------------------------------------------------------------------
(***************************************************************************)
(* The verbs objects of a GPUNETIO peer (verbs/verbs.cpp, addRdmaQp and    *)
(* the engine's destructor): each queue pair owns two completion queues,   *)
(* GPU memory and registrations made in a fixed order; a step that fails   *)
(* undoes the ones before; a queue pair the GPU library refuses to         *)
(* unexport keeps everything it depends on, and so does the engine.        *)
(* Destroying anything but an export is taken to succeed.                  *)
(***************************************************************************)

CONSTANTS GvQps,       \* the queue pairs of a peer, in the order they are made
          GvTries,     \* calls of addRdmaQp
          GvFaults     \* calls that fail

VARIABLES gvLive,      \* <<owner, resource>> that exist
          gvPhase,     \* "idle", "make", "undo", "ready", "retained", "down", "gone"
          gvAt,        \* resources of the present addRdmaQp made so far
          gvTodo,      \* queue pairs still to be closed
          gvStack,     \* releases of the queue pair being closed
          gvKept,      \* queue pairs whose close() returned false
          gvTries, gvFaults

gvVars == <<gvLive, gvPhase, gvAt, gvTodo, gvStack, gvKept, gvTries, gvFaults>>

\* createCq, then createQp, then the export and the device pointer, which is
\* no resource but may fail.
CreateCq(c) == << <<c, "mem">>, <<c, "umem">>, <<c, "uar">>, <<c, "cq">> >>
CreateQp == << <<"qp", "uar">>, <<"qp", "mem">>, <<"qp", "umem">>, <<"qp", "dbrmem">>,
               <<"qp", "dbrumem">>, <<"qp", "qp">> >>
ConstructQp == CreateCq("rq") \o CreateCq("sq") \o CreateQp \o << <<"qp", "export">>, <<"qp", "dev">> >>

DestroyCq(c) == << <<c, "cq">>, <<c, "uar">>, <<c, "umem">>, <<c, "mem">> >>

DestroyQp == << <<"qp", "qp">>, <<"qp", "uar">>, <<"qp", "umem">>, <<"qp", "mem">>,
                <<"qp", "dbrumem">>, <<"qp", "dbrmem">> >>

\* close(): the export first, then the queue pair, then its completion queues.
CloseQp == << <<"qp", "export">> >> \o DestroyQp \o DestroyCq("rq") \o DestroyCq("sq")

\* What a resource needs while it exists.
Needs(r) ==
    CASE r[2] = "umem" -> { <<r[1], "mem">> }
      [] r[2] = "dbrumem" -> { <<"qp", "dbrmem">> }
      [] r[2] = "cq" -> { <<r[1], "umem">>, <<r[1], "uar">> }
      [] r[2] = "qp" -> { <<"qp", "uar">>, <<"qp", "umem">>, <<"qp", "dbrumem">>,
                          <<"rq", "cq">>, <<"sq", "cq">> }
      [] r[2] = "export" -> { <<"qp", "qp">> }
      [] OTHER -> {}

\* All steps of addRdmaQp: the queue pairs and the progress state.
Made == FlattenSeq([i \in DOMAIN GvQps |->
            [k \in DOMAIN ConstructQp |-> <<GvQps[i], ConstructQp[k]>>]])
        \o << <<"peer", <<"peer", "progress">> >> >>
Shared == <<"engine", <<"engine", "pd">> >>

LiveOf(q) == SelectSeq([k \in DOMAIN CloseQp |-> <<q, CloseQp[k]>>], LAMBDA r : r \in gvLive)

GvInit ==
    /\ gvLive = {Shared}
    /\ gvPhase = "idle"
    /\ gvAt = 0
    /\ gvTodo = <<>>
    /\ gvStack = <<>>
    /\ gvKept = {}
    /\ gvTries = GvTries
    /\ gvFaults = GvFaults

\* addRdmaQp starts, unless an earlier one had to retain a queue pair.
GvAddRdmaQp ==
    /\ gvPhase = "idle"
    /\ gvTries > 0
    /\ gvTries' = gvTries - 1
    /\ gvPhase' = "make"
    /\ gvAt' = 0
    /\ UNCHANGED <<gvLive, gvTodo, gvStack, gvKept, gvFaults>>

GvAcquire ==
    LET r == Made[gvAt + 1] IN
    /\ gvPhase = "make"
    /\ gvAt' = gvAt + 1
    /\ gvLive' = IF r[2][2] = "dev" THEN gvLive ELSE gvLive \cup {r}
    /\ gvPhase' = IF gvAt + 1 = Len(Made) THEN "ready" ELSE "make"
    /\ UNCHANGED <<gvTodo, gvStack, gvKept, gvTries, gvFaults>>

\* A step fails: the constructor takes its own steps back, then addRdmaQp
\* closes the queue pairs that were complete.
GvAcquireFails ==
    LET q == Made[gvAt + 1][1]
        done == SelectSeq(GvQps, LAMBDA p : <<p, <<"qp", "export">> >> \in gvLive /\ p # q)
    IN
    /\ gvPhase = "make"
    /\ gvFaults > 0
    /\ gvFaults' = gvFaults - 1
    /\ gvPhase' = "undo"
    /\ gvStack' = LiveOf(q)
    /\ gvTodo' = done
    /\ gvKept' = {}
    /\ UNCHANGED <<gvLive, gvAt, gvTries>>

GvRelease ==
    /\ gvStack # <<>>
    /\ gvLive' = gvLive \ {Head(gvStack)}
    /\ gvStack' = Tail(gvStack)
    /\ UNCHANGED <<gvPhase, gvAt, gvTodo, gvKept, gvTries, gvFaults>>

\* The library keeps the exported queue pair: nothing more of it is
\* released.  A constructor that rolls back leaves it behind for good.
UnexportFails ==
    /\ gvStack # <<>> /\ Head(gvStack)[2][2] = "export"
    /\ gvFaults > 0
    /\ gvFaults' = gvFaults - 1
    /\ gvStack' = <<>>
    /\ LET q == Head(gvStack)[1]
           building == gvPhase = "undo" /\ Made[gvAt + 1][1] = q
       IN  /\ gvLive' = IF building
                        THEN {IF r[1] = q THEN <<"lost", r[2]>> ELSE r : r \in gvLive}
                        ELSE gvLive
           /\ gvKept' = IF building THEN gvKept ELSE gvKept \cup {q}
    /\ UNCHANGED <<gvPhase, gvAt, gvTodo, gvTries>>

GvCloseNext ==
    /\ gvPhase \in {"undo", "down"}
    /\ gvStack = <<>>
    /\ gvTodo # <<>>
    /\ gvStack' = LiveOf(Head(gvTodo))
    /\ gvTodo' = Tail(gvTodo)
    /\ UNCHANGED <<gvLive, gvPhase, gvAt, gvKept, gvTries, gvFaults>>

\* addRdmaQp returns its error; retainedQp_ refuses further calls.
GvUndone ==
    /\ gvPhase = "undo"
    /\ gvStack = <<>> /\ gvTodo = <<>>
    /\ gvPhase' = IF gvKept = {} THEN "idle" ELSE "retained"
    /\ UNCHANGED <<gvLive, gvAt, gvTodo, gvStack, gvKept, gvTries, gvFaults>>

\* The destructor closes every queue pair it has, kept ones again.
GvDestroy ==
    /\ gvPhase \in {"idle", "ready", "retained"}
    /\ gvPhase' = "down"
    /\ gvTodo' = GvQps
    /\ gvKept' = {}
    /\ UNCHANGED <<gvLive, gvAt, gvStack, gvTries, gvFaults>>

\* With all of them closed the rest goes; otherwise all the rest stays.
GvDestroyed ==
    /\ gvPhase = "down"
    /\ gvStack = <<>> /\ gvTodo = <<>>
    /\ gvPhase' = "gone"
    /\ gvLive' = IF gvKept = {} THEN {r \in gvLive : r[1] \notin {"peer", "engine"}} ELSE gvLive
    /\ UNCHANGED <<gvAt, gvTodo, gvStack, gvKept, gvTries, gvFaults>>

GvNext ==
    \/ GvAddRdmaQp \/ GvAcquire \/ GvAcquireFails
    \/ GvRelease \/ UnexportFails \/ GvCloseNext
    \/ GvUndone \/ GvDestroy \/ GvDestroyed

(***************************************************************************)
(* Properties                                                              *)
(***************************************************************************)

\* Nothing is destroyed under a resource that still needs it, whichever step
\* failed: memory outlives its registration, completion queues their queue
\* pair, and the protection domain every queue pair the engine knows of.
GvNeedsLive ==
    \A r \in gvLive :
        /\ \A n \in Needs(r[2]) : <<r[1], n>> \in gvLive
        /\ r[1] # "lost" => Shared \in gvLive

\* A failed addRdmaQp and the destructor leave nothing behind but queue pairs
\* the library refused to unexport and what those need.
GvNothingLeft ==
    /\ gvPhase = "idle" => \A r \in gvLive : r = Shared \/ r[1] = "lost"
    /\ gvPhase = "gone" /\ gvKept = {} => \A r \in gvLive : r[1] = "lost"
=============================================================================
